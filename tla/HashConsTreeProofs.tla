-------------------------- MODULE HashConsTreeProofs --------------------------
(***************************************************************************)
(* HashConsTree, for every table of addresses and values: nothing dangles  *)
(* and nodes stay unique, when gc is called by a thread that is alone.     *)
(* Without that hypothesis a pause does not hold (MCHashConsTreeRace.cfg). *)
(***************************************************************************)
EXTENDS HashConsTree, TLAPS

\* a thread that collects has no other beside it
Orderly == \A g \in Teams : \A p \in g.collectors : g.threads = {p}

\* the node that a thread is about to insert has live children
WantLive ==
  \A p \in team.threads :
    at[p] = "missed" => /\ want[p] \in Nodes
                        /\ {want[p].l, want[p].r} \ {Null} \subseteq Live

\* a thread inside gc is alone and has no pause open
EnteredAlone ==
  \A p \in team.threads : at[p] = "entered" => team.threads = {p} /\ scopes[p] = 0

\* the pauses of a thread that is alone are all there are
DepthExact == \A p \in team.threads : team.threads = {p} => depth = scopes[p]

IInv == TypeOK /\ Canonical /\ NoDangling /\ WantLive /\ EnteredAlone /\ DepthExact

(***************************************************************************)
(* Facts about the mark (bintree::gc).                                     *)
(***************************************************************************)
LEMMA MarkedLive == \A S : Marked(S) \subseteq Live
  BY DEF Marked

LEMMA UsableLive == \A p : Usable(p) \subseteq Live
  BY MarkedLive DEF Usable

\* What survives is live, has its roots, its children and the values of its keys.
LEMMA SurvivorsClosed ==
  ASSUME NEW S
  PROVE  /\ Survivors(S) \subseteq Live
         /\ S \cap Live \subseteq Survivors(S)
         /\ \A c \in Survivors(S) : ChildrenOf(c) \cap Live \subseteq Survivors(S)
         /\ \A e \in cache : e[1] \in Survivors(S) => {e[2]} \cap Live \subseteq Survivors(S)
<1>1. Survivors(S) \subseteq Live
  BY DEF Survivors
<1>2. S \cap Live \subseteq Survivors(S)
  BY DEF Survivors
<1>3. ASSUME NEW c \in Survivors(S), NEW d \in ChildrenOf(c) \cap Live
      PROVE  d \in Survivors(S)
  <2>1. SUFFICES ASSUME NEW C \in SUBSET Live,
                        S \cap Live \subseteq C,
                        \A x \in C : ChildrenOf(x) \cap Live \subseteq C,
                        \A e \in cache : e[1] \in C => {e[2]} \cap Live \subseteq C
                 PROVE  d \in C
    BY DEF Survivors
  <2>2. c \in C
    BY <2>1 DEF Survivors
  <2> QED  BY <2>1, <2>2
<1>4. ASSUME NEW e \in cache, e[1] \in Survivors(S), e[2] \in Live
      PROVE  e[2] \in Survivors(S)
  <2>1. SUFFICES ASSUME NEW C \in SUBSET Live,
                        S \cap Live \subseteq C,
                        \A x \in C : ChildrenOf(x) \cap Live \subseteq C,
                        \A f \in cache : f[1] \in C => {f[2]} \cap Live \subseteq C
                 PROVE  e[2] \in C
    BY <1>4 DEF Survivors
  <2>2. e[1] \in C
    BY <1>4, <2>1 DEF Survivors
  <2> QED  BY <1>4, <2>1, <2>2
<1> QED  BY <1>1, <1>2, <1>3, <1>4

(***************************************************************************)
(* Every operation keeps the invariant.                                    *)
(***************************************************************************)
LEMMA InitIInv == ASSUME Orderly, Init PROVE IInv
  BY HashConsAssumption
  DEF Init, IInv, TypeOK, Canonical, NoDangling, WantLive, EnteredAlone, DepthExact,
      Threads, Live, Held, NoNode

\* A step that leaves the table alone keeps it canonical and closed.
LEMMA TableKept ==
  ASSUME IInv, UNCHANGED <<team, M>>,
         handles' \subseteq Threads \X Live, cache' \subseteq Live \X Live,
         \A p \in team.threads : raw'[p] \subseteq Live
  PROVE  Canonical' /\ NoDangling'
<1>1. Live' = Live /\ \A a : ChildrenOf(a)' = ChildrenOf(a)
  BY DEF Live, ChildrenOf
<1>2. Canonical'
  BY <1>1 DEF IInv, Canonical
<1>3. Held' \subseteq Live'
  BY <1>1 DEF Held
<1>4. \A e \in cache' : {e[1], e[2]} \subseteq Live'
  BY <1>1
<1>5. \A a \in Live' : ChildrenOf(a)' \subseteq Live'
  BY <1>1 DEF IInv, NoDangling
<1> QED  BY <1>1, <1>2, <1>3, <1>4, <1>5 DEF NoDangling

LEMMA PairsLive == IInv => handles \subseteq Threads \X Live /\ cache \subseteq Live \X Live
  BY DEF IInv, TypeOK, NoDangling, Held

LEMMA StepIInv ==
  ASSUME Orderly, IInv, NEW p \in team.threads, Step(p)
  PROVE  IInv'
<1> USE DEF IInv
<1>0. p \in Threads /\ team.threads \subseteq Threads
  BY DEF TypeOK, Threads
<1>a. \A q \in team.threads : raw[q] \subseteq Live
  BY DEF NoDangling
<1>1. ASSUME NEW n \in Nodes, GetFound(p, n) PROVE IInv'
  <2>1. \A q \in team.threads : raw'[q] \subseteq Live
    BY <1>0, <1>1, <1>a DEF GetFound, Keep, TypeOK
  <2>2. Canonical' /\ NoDangling'
    BY <1>1, <2>1, PairsLive, TableKept DEF GetFound
  <2>3. TypeOK'
    BY <1>0, <1>1 DEF GetFound, Keep, TypeOK, Live
  <2>4. WantLive' /\ EnteredAlone' /\ DepthExact'
    BY <1>1 DEF GetFound, WantLive, EnteredAlone, DepthExact, Live
  <2> QED  BY <2>2, <2>3, <2>4
<1>2. ASSUME NEW n \in Nodes, GetMissed(p, n) PROVE IInv'
  <2>1. Canonical' /\ NoDangling'
    BY <1>2, <1>a, PairsLive, TableKept DEF GetMissed
  <2>2. TypeOK'
    BY <1>0, <1>2 DEF GetMissed, TypeOK, Live
  <2>3. WantLive'
    <3>1. {n.l, n.r} \ {Null} \subseteq Live
      BY <1>2, UsableLive DEF GetMissed
    <3> QED  BY <1>0, <1>2, <3>1 DEF GetMissed, WantLive, TypeOK, Live
  <2>4. EnteredAlone' /\ DepthExact'
    BY <1>0, <1>2 DEF GetMissed, EnteredAlone, DepthExact, TypeOK
  <2> QED  BY <2>1, <2>2, <2>3, <2>4
<1>3. ASSUME NEW a \in Addresses, GetInsert(p, a) PROVE IInv'
  <2>1. M' = M \/ (a \notin Live /\ M' = With(a, want[p]) /\ \A b \in Live : M[b] # want[p])
    BY <1>3 DEF GetInsert, Emplace
  <2>2. Live' = Live \cup {a} /\ Live' \subseteq Addresses
    BY <1>3, <2>1 DEF GetInsert, Emplace, With, Live, TypeOK
  <2>3. want[p] \in Nodes /\ {want[p].l, want[p].r} \ {Null} \subseteq Live
    BY <1>3 DEF GetInsert, WantLive
  <2>4. M' \in [Live' -> Nodes] /\ \A b \in Live : M'[b] = M[b]
    BY <2>1, <2>2, <2>3 DEF With, Live, TypeOK
  <2>5. a \in Live' /\ M'[a] = want[p]
    <3>1. CASE M' = M
      BY <1>3, <3>1 DEF GetInsert, Emplace, With, Live
    <3>2. CASE a \notin Live /\ M' = With(a, want[p])
      BY <3>2 DEF With, Live
    <3> QED  BY <2>1, <3>1, <3>2
  <2>6. TypeOK'
    BY <1>0, <1>3, <2>2, <2>4 DEF GetInsert, Keep, TypeOK
  <2>7. Canonical'
    <3>1. CASE M' = M
      BY <3>1 DEF Canonical, Live
    <3>2. CASE a \notin Live /\ \A b \in Live : M[b] # want[p]
      BY <2>2, <2>4, <2>5, <3>2 DEF Canonical
    <3> QED  BY <2>1, <3>1, <3>2
  <2>8. NoDangling'
    <3>1. \A b \in Live' : ChildrenOf(b)' \subseteq Live'
      <4>1. \A b \in Live : ChildrenOf(b)' \subseteq Live
        BY <2>4 DEF NoDangling, ChildrenOf
      <4>2. ChildrenOf(a)' \subseteq Live
        BY <2>3, <2>5 DEF ChildrenOf
      <4> QED  BY <2>2, <4>1, <4>2
    <3>2. Held' \subseteq Live' /\ \A e \in cache' : {e[1], e[2]} \subseteq Live'
      BY <1>3, <2>2 DEF GetInsert, NoDangling, Held
    <3>3. \A q \in team'.threads : raw'[q] \subseteq Live'
      BY <1>0, <1>3, <1>a, <2>2 DEF GetInsert, Keep, TypeOK
    <3> QED  BY <3>1, <3>2, <3>3 DEF NoDangling
  <2>9. WantLive' /\ EnteredAlone' /\ DepthExact'
    BY <1>0, <1>3, <2>2 DEF GetInsert, WantLive, EnteredAlone, DepthExact, TypeOK
  <2> QED  BY <2>6, <2>7, <2>8, <2>9
<1>4. ASSUME NEW a \in Addresses, Geth(p, a) PROVE IInv'
  <2>1. a \in Live
    BY <1>4, UsableLive DEF Geth
  <2>2. Canonical' /\ NoDangling'
    BY <1>0, <1>4, <1>a, <2>1, PairsLive, TableKept DEF Geth
  <2>3. TypeOK'
    BY <1>0, <1>4 DEF Geth, TypeOK, Live
  <2>4. WantLive' /\ EnteredAlone' /\ DepthExact'
    BY <1>4 DEF Geth, WantLive, EnteredAlone, DepthExact, Live
  <2> QED  BY <2>2, <2>3, <2>4
<1>5. ASSUME NEW a \in Addresses, Drop(p, a) PROVE IInv'
  <2>1. Canonical' /\ NoDangling'
    BY <1>5, <1>a, PairsLive, TableKept DEF Drop
  <2>2. TypeOK'
    BY <1>5 DEF Drop, TypeOK, Live
  <2>3. WantLive' /\ EnteredAlone' /\ DepthExact'
    BY <1>5 DEF Drop, WantLive, EnteredAlone, DepthExact, Live
  <2> QED  BY <2>1, <2>2, <2>3
<1>6. ASSUME NEW k \in Addresses, NEW v \in Addresses, Remember(p, k, v) PROVE IInv'
  <2>1. {k, v} \subseteq Live
    BY <1>6, UsableLive DEF Remember
  <2>2. Canonical' /\ NoDangling'
    BY <1>6, <1>a, <2>1, PairsLive, TableKept DEF Remember
  <2>3. TypeOK'
    BY <1>6 DEF Remember, TypeOK, Live
  <2>4. WantLive' /\ EnteredAlone' /\ DepthExact'
    BY <1>6 DEF Remember, WantLive, EnteredAlone, DepthExact, Live
  <2> QED  BY <2>2, <2>3, <2>4
<1>7. ASSUME Pause(p) PROVE IInv'
  <2>1. Canonical' /\ NoDangling'
    BY <1>7, <1>a, PairsLive, TableKept DEF Pause
  <2>2. TypeOK'
    BY <1>0, <1>7, HashConsAssumption DEF Pause, TypeOK, Live
  <2>3. WantLive'
    BY <1>7 DEF Pause, WantLive, Live
  <2>4. EnteredAlone' /\ DepthExact'
    BY <1>0, <1>7 DEF Pause, EnteredAlone, DepthExact, TypeOK
  <2> QED  BY <2>1, <2>2, <2>3, <2>4
<1>8. ASSUME Unpause(p) PROVE IInv'
  <2>1. \A q \in team.threads : raw'[q] \subseteq Live
    BY <1>0, <1>8, <1>a DEF Unpause, TypeOK
  <2>2. Canonical' /\ NoDangling'
    BY <1>8, <2>1, PairsLive, TableKept DEF Unpause
  <2>3. TypeOK'
    BY <1>0, <1>8, HashConsAssumption DEF Unpause, Lowered, TypeOK, Live
  <2>4. WantLive'
    BY <1>8 DEF Unpause, WantLive, Live
  <2>5. EnteredAlone' /\ DepthExact'
    BY <1>0, <1>8 DEF Unpause, Lowered, EnteredAlone, DepthExact, TypeOK
  <2> QED  BY <2>2, <2>3, <2>4, <2>5
<1>9. ASSUME GcEnter(p) PROVE IInv'
  <2>1. team.threads = {p} /\ scopes[p] = 0
    BY <1>9 DEF GcEnter, Orderly, TypeOK, DepthExact
  <2>2. Canonical' /\ NoDangling'
    BY <1>9, <1>a, PairsLive, TableKept DEF GcEnter
  <2>3. TypeOK'
    BY <1>0, <1>9 DEF GcEnter, TypeOK, Live
  <2>4. WantLive' /\ EnteredAlone' /\ DepthExact'
    BY <1>0, <1>9, <2>1 DEF GcEnter, WantLive, EnteredAlone, DepthExact, TypeOK, Live
  <2> QED  BY <2>2, <2>3, <2>4
<1>10. ASSUME NEW keep \in SUBSET Addresses, GcRun(p, keep) PROVE IInv'
  <2> DEFINE C == Survivors(Held \cup keep)
  <2>1. C \subseteq Live /\ Held \subseteq C
    BY SurvivorsClosed DEF NoDangling
  <2>2. \A c \in C : ChildrenOf(c) \subseteq C
    BY <2>1, SurvivorsClosed DEF NoDangling
  <2>3. Live' = C /\ \A c \in C : M'[c] = M[c]
    BY <1>10 DEF GcRun, Sweep, Restrict, Live
  <2>4. M' \in [Live' -> Nodes]
    BY <1>10, <2>1, <2>3 DEF GcRun, Sweep, Restrict, Live, TypeOK
  <2>5. team.threads = {p} /\ scopes[p] = 0
    BY <1>10 DEF GcRun, EnteredAlone
  <2>6. raw'[p] \subseteq C
    BY <1>0, <1>10, <2>5 DEF GcRun, TypeOK
  <2>7. cache' = {e \in cache : {e[1], e[2]} \subseteq C}
    BY <1>10 DEF GcRun, Sweep
  <2>8. TypeOK'
    BY <1>0, <1>10, <2>1, <2>3, <2>4, <2>7 DEF GcRun, TypeOK
  <2>9. Canonical'
    BY <2>1, <2>3 DEF Canonical
  <2>10. NoDangling'
    <3>1. \A b \in Live' : ChildrenOf(b)' \subseteq Live'
      BY <2>2, <2>3 DEF ChildrenOf
    <3>2. Held' \subseteq Live' /\ \A e \in cache' : {e[1], e[2]} \subseteq Live'
      BY <1>10, <2>1, <2>3, <2>7 DEF GcRun, Held
    <3>3. \A q \in team'.threads : raw'[q] \subseteq Live'
      BY <1>10, <2>3, <2>5, <2>6 DEF GcRun
    <3> QED  BY <3>1, <3>2, <3>3 DEF NoDangling
  <2>11. WantLive' /\ EnteredAlone' /\ DepthExact'
    BY <1>0, <1>10, <2>5 DEF GcRun, WantLive, EnteredAlone, DepthExact, TypeOK
  <2> QED  BY <2>8, <2>9, <2>10, <2>11
<1> QED
  BY <1>1, <1>2, <1>3, <1>4, <1>5, <1>6, <1>7, <1>8, <1>9, <1>10 DEF Step

LEMMA StutterIInv == ASSUME IInv, UNCHANGED vars PROVE IInv'
  BY DEF vars, IInv, TypeOK, Canonical, NoDangling, WantLive, EnteredAlone, DepthExact,
         Live, Held, ChildrenOf

-------------------------------------------------------------------------------
(***************************************************************************)
(* With gc called by a thread that is alone, the invariant always holds.   *)
(***************************************************************************)
THEOREM Invariance == ASSUME Orderly PROVE Spec => []IInv
<1>1. Init => IInv
  BY InitIInv
<1>2. IInv /\ [Next]_vars => IInv'
  BY StepIInv, StutterIInv DEF Next
<1> QED  BY <1>1, <1>2, PTL DEF Spec

(***************************************************************************)
(* No reference leads to a freed node: children of nodes, handles, cache   *)
(* entries, and what a thread works with (bintree::gc, get, geth).         *)
(***************************************************************************)
THEOREM NothingDangles == ASSUME Orderly PROVE Spec => []NoDangling
<1>1. IInv => NoDangling
  BY DEF IInv
<1> QED  BY <1>1, Invariance, PTL

(***************************************************************************)
(* Equal nodes have one address (bintree::get), with any number of threads *)
(* that build at the same time.                                            *)
(***************************************************************************)
THEOREM Interned == ASSUME Orderly PROVE Spec => []Canonical
<1>1. IInv => Canonical
  BY DEF IInv
<1> QED  BY <1>1, Invariance, PTL

(***************************************************************************)
(* A gc drops no cache entry whose key it keeps (create_cache).            *)
(***************************************************************************)
LEMMA StepEntriesStay ==
  ASSUME IInv, [Next]_vars, NEW e \in cache, e[1] \in DOMAIN M'
  PROVE  e \in cache'
<1>1. CASE UNCHANGED vars
  BY <1>1 DEF vars
<1>2. ASSUME NEW p \in team.threads, NEW keep \in SUBSET Addresses, GcRun(p, keep)
      PROVE  e \in cache'
  <2> DEFINE C == Survivors(Held \cup keep)
  <2>1. DOMAIN M' = C /\ cache' = {f \in cache : {f[1], f[2]} \subseteq C}
    BY <1>2 DEF GcRun, Sweep, Restrict
  <2>2. e[2] \in Live
    BY DEF IInv, NoDangling
  <2>3. e[2] \in C
    BY <2>1, <2>2, SurvivorsClosed
  <2> QED  BY <2>1, <2>3
<1>3. ASSUME NEW p \in team.threads, Step(p),
             ~ \E keep \in SUBSET Addresses : GcRun(p, keep)
      PROVE  cache \subseteq cache'
  BY <1>3 DEF Step, GetFound, GetMissed, GetInsert, Geth, Drop, Remember, Pause, Unpause,
              GcEnter
<1> QED  BY <1>1, <1>2, <1>3 DEF Next

(***************************************************************************)
(* A gc forgets no cache entry whose key it keeps: the value survives with *)
(* the key (create_cache and its expand callback).                         *)
(***************************************************************************)
THEOREM MemosLast == ASSUME Orderly PROVE Spec => EntriesStay
<1>1. IInv /\ [Next]_vars => [\A e \in cache : e[1] \in DOMAIN M' => e \in cache']_vars
  BY StepEntriesStay
<1> QED  BY <1>1, Invariance, PTL DEF Spec, EntriesStay
===============================================================================
