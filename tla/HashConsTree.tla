---------------------------- MODULE HashConsTree ----------------------------
(***************************************************************************)
(* The table of unique nodes bintree<T>::M (src/utility/tree.h,            *)
(* src/utility/tree.tmpl.h): get, handles, gc with its pauses, and the     *)
(* caches that refer to nodes.  A tref is the address of a table entry, and*)
(* a freed address may be taken again by another node.                     *)
(*                                                                         *)
(* A thread may use a tref that it got under a pause, that a handle of its *)
(* own reaches or, when it is the only thread, that no gc of its own has   *)
(* swept.  Any other use reads freed memory and is not modelled.           *)
(***************************************************************************)
EXTENDS Integers, FiniteSets, Functions

CONSTANTS
  Addresses,
  Values,
  Null,      \* the null tref
  Shapes(_), \* whether threads ask for a node
  Teams,     \* which threads there are and which of them call gc
  MaxDepth,  \* bound: nested pauses of one thread
  MaxCached  \* bound: cache entries

ASSUME HashConsAssumption ==
  /\ Null \notin Addresses
  /\ {MaxDepth, MaxCached} \subseteq Nat
  /\ \A g \in Teams : g.collectors \subseteq g.threads

Threads  == UNION {g.threads : g \in Teams}
Children == Addresses \cup {Null}
Nodes    == [v : Values, l : Children, r : Children]

VARIABLES
  team,     \* the team of this run
  M,        \* M(): the live addresses and their nodes
  handles,  \* pairs of a thread and a node that it has an htref to
  cache,    \* the entries of every cache, as pairs of a key and a value
  depth,    \* gc_pause_depth
  scopes,   \* the gc_pause objects that are alive, by thread
  raw,      \* the trefs that a thread works with, by thread
  at,       \* where a thread is: "idle", "missed" in get, "entered" in gc
  want      \* the node that get did not find, by thread

vars == <<team, M, handles, cache, depth, scopes, raw, at, want>>

Live     == DOMAIN M
NoNode   == [v |-> Null, l |-> Null, r |-> Null]
Lone     == Cardinality(team.threads) = 1
Held     == {h[2] : h \in handles}

ChildrenOf(a) == {M[a].l, M[a].r} \ {Null}

\* what the recursive mark of gc ends with, from S
Marked(S) ==
  {a \in Live : \A C \in SUBSET Live :
     (S \cap Live \subseteq C /\ \A c \in C : ChildrenOf(c) \cap Live \subseteq C)
       => a \in C}

\* mutant: the caches are asked once
SurvivorsOnce(S) == Marked(Marked(S) \cup {e[2] : e \in {f \in cache : f[1] \in Marked(S)}})

\* the fixpoint of the mark with the expand callbacks of the caches
Survivors(S) ==
  {a \in Live : \A C \in SUBSET Live :
     (/\ S \cap Live \subseteq C
      /\ \A c \in C : ChildrenOf(c) \cap Live \subseteq C
      /\ \A e \in cache : e[1] \in C => {e[2]} \cap Live \subseteq C)
       => a \in C}

\* a thread among others keeps trefs under a pause only
Trusts(p) == scopes[p] > 0 \/ Lone

\* the trefs that p may use
Usable(p) ==
  LET reached == Marked({a \in Live : <<p, a>> \in handles})
  IN  IF Trusts(p) THEN reached \cup (raw[p] \cap Live) ELSE reached

-----------------------------------------------------------------------------
(***************************************************************************)
(* get(v, l, r): a lookup under the shared lock, then, when it misses, an  *)
(* insertion under the exclusive lock that looks again.                    *)
(***************************************************************************)
Keep(p, a) == raw' = [raw EXCEPT ![p] = IF Trusts(p) THEN @ \cup {a} ELSE @]

GetFound(p, n) ==
  /\ at[p] = "idle"
  /\ {n.l, n.r} \subseteq Usable(p) \cup {Null}
  /\ \E a \in Live : M[a] = n /\ Keep(p, a)
  /\ UNCHANGED <<team, M, handles, cache, depth, scopes, at, want>>

\* bound: the addresses do not run out
Room == Cardinality({p \in team.threads : at[p] = "missed"})
          < Cardinality(Addresses \ Live)

GetMissed(p, n) ==
  /\ at[p] = "idle" /\ Room
  /\ {n.l, n.r} \subseteq Usable(p) \cup {Null}
  /\ \A a \in Live : M[a] # n
  /\ at' = [at EXCEPT ![p] = "missed"]
  /\ want' = [want EXCEPT ![p] = n]
  /\ UNCHANGED <<team, M, handles, cache, depth, scopes, raw>>

With(a, n) == [b \in Live \cup {a} |-> IF b = a THEN n ELSE M[b]]

\* mutant: the insertion does not look again
EmplaceBlind(n, a) == a \notin Live /\ M' = With(a, n)

\* n is at a after the insertion
Emplace(n, a) ==
  \/ a \in Live /\ M[a] = n /\ M' = M
  \/ /\ a \notin Live /\ \A b \in Live : M[b] # n
     /\ M' = With(a, n)

GetInsert(p, a) ==
  /\ at[p] = "missed"
  /\ Emplace(want[p], a)
  /\ Keep(p, a)
  /\ at' = [at EXCEPT ![p] = "idle"]
  /\ want' = [want EXCEPT ![p] = NoNode]
  /\ UNCHANGED <<team, handles, cache, depth, scopes>>

(***************************************************************************)
(* Handles: geth, and the end of the last copy that a thread has.          *)
(***************************************************************************)
Geth(p, a) ==
  /\ at[p] = "idle" /\ a \in Usable(p)
  /\ handles' = handles \cup {<<p, a>>}
  /\ UNCHANGED <<team, M, cache, depth, scopes, raw, at, want>>

Drop(p, a) ==
  /\ at[p] = "idle" /\ <<p, a>> \in handles
  /\ handles' = handles \ {<<p, a>>}
  /\ UNCHANGED <<team, M, cache, depth, scopes, raw, at, want>>

(***************************************************************************)
(* A memo of a traversal is filled under the pause of the traversal.  The  *)
(* caches have no lock, so a thread that is not alone leaves them alone.   *)
(***************************************************************************)
Remember(p, k, v) ==
  /\ at[p] = "idle" /\ Lone /\ scopes[p] > 0
  /\ {k, v} \subseteq Usable(p)
  /\ Cardinality(cache) < MaxCached
  /\ cache' = cache \cup {<<k, v>>}
  /\ UNCHANGED <<team, M, handles, depth, scopes, raw, at, want>>

(***************************************************************************)
(* gc_pause                                                                *)
(***************************************************************************)
Pause(p) ==
  /\ at[p] = "idle" /\ scopes[p] < MaxDepth
  /\ depth' = depth + 1
  /\ scopes' = [scopes EXCEPT ![p] = @ + 1]
  /\ UNCHANGED <<team, M, handles, cache, raw, at, want>>

\* mutant: the end of a nested scope ends every pause
Resumed == 0

\* gc_pause_depth after the end of one scope
Lowered == depth - 1

Unpause(p) ==
  /\ at[p] = "idle" /\ scopes[p] > 0
  /\ depth' = Lowered
  /\ scopes' = [scopes EXCEPT ![p] = @ - 1]
  /\ raw' = IF scopes[p] = 1 /\ ~Lone THEN [raw EXCEPT ![p] = {}] ELSE raw
  /\ UNCHANGED <<team, M, handles, cache, at, want>>

(***************************************************************************)
(* gc(keep): the pauses are read first, the lock is taken after.           *)
(***************************************************************************)
GcEnter(p) ==
  /\ p \in team.collectors /\ at[p] = "idle"
  /\ depth = 0
  /\ at' = [at EXCEPT ![p] = "entered"]
  /\ UNCHANGED <<team, M, handles, cache, depth, scopes, raw, want>>

\* mutant: the caches keep what they have
SweepOf(C) ==
  /\ M' = Restrict(M, C)
  /\ cache' = cache

\* the sweep and the callbacks of the caches
Sweep(C) ==
  /\ M' = Restrict(M, C)
  /\ cache' = {e \in cache : {e[1], e[2]} \subseteq C}

\* a thread without a pause holds on to nothing that went
GcRun(p, keep) ==
  /\ at[p] = "entered"
  /\ keep \subseteq raw[p]
  /\ LET C == Survivors(Held \cup keep)
     IN  /\ Sweep(C)
         /\ raw' = [q \in DOMAIN raw |->
                      IF scopes[q] > 0 THEN raw[q] ELSE raw[q] \cap C]
  /\ at' = [at EXCEPT ![p] = "idle"]
  /\ UNCHANGED <<team, handles, depth, scopes, want>>

-----------------------------------------------------------------------------
Init ==
  /\ team \in Teams
  /\ M = [a \in {} |-> NoNode]
  /\ handles = {} /\ cache = {}
  /\ depth = 0 /\ scopes = [p \in Threads |-> 0]
  /\ raw = [p \in Threads |-> {}]
  /\ at = [p \in Threads |-> "idle"]
  /\ want = [p \in Threads |-> NoNode]

Step(p) ==
  \/ \E n \in Nodes : Shapes(n) /\ (GetFound(p, n) \/ GetMissed(p, n))
  \/ \E a \in Addresses : GetInsert(p, a) \/ Geth(p, a) \/ Drop(p, a)
  \/ \E k, v \in Addresses : Remember(p, k, v)
  \/ Pause(p) \/ Unpause(p)
  \/ GcEnter(p)
  \/ \E keep \in SUBSET Addresses : GcRun(p, keep)

Next == \E p \in team.threads : Step(p)
Spec == Init /\ [][Next]_vars

-----------------------------------------------------------------------------
(***************************************************************************)
(* Types: M is a partial function on addresses, handles and cache entries  *)
(* are pairs, and a tref that a thread works with is an address.           *)
(***************************************************************************)
TypeOK ==
  /\ team \in Teams
  /\ Live \subseteq Addresses /\ M \in [Live -> Nodes]
  /\ handles \subseteq Threads \X Addresses
  /\ cache \subseteq Addresses \X Addresses
  /\ depth \in Int /\ scopes \in [Threads -> 0..MaxDepth]
  /\ raw \in [Threads -> SUBSET Addresses]
  /\ at \in [Threads -> {"idle", "missed", "entered"}]
  /\ want \in [Threads -> Nodes \cup {NoNode}]

(***************************************************************************)
(* No two live addresses hold equal nodes, whatever threads miss the same  *)
(* node at the same time (bintree::get): equality of trees is equality of  *)
(* addresses everywhere in the library.                                    *)
(***************************************************************************)
Canonical == \A a, b \in Live : M[a] = M[b] => a = b

(***************************************************************************)
(* Nothing that may be followed leads to a freed address: the children of  *)
(* a live node, the nodes of handles, the keys and values of cache entries *)
(* and what a thread works with (bintree::gc against get, geth, the caches *)
(* and the pauses).                                                        *)
(***************************************************************************)
NoDangling ==
  /\ \A a \in Live : ChildrenOf(a) \subseteq Live
  /\ Held \subseteq Live
  /\ \A e \in cache : {e[1], e[2]} \subseteq Live
  /\ \A p \in team.threads : raw[p] \subseteq Live

(***************************************************************************)
(* A cache entry stays as long as its key does: a gc never makes a memo    *)
(* forget a node that it keeps, through however many entries the value is  *)
(* reached (the expand callbacks of create_cache, run to a fixpoint).      *)
(***************************************************************************)
EntriesStay ==
  [][\A e \in cache : e[1] \in DOMAIN M' => e \in cache']_vars

(***************************************************************************)
(* gc is a no-op while a pause is open (src/utility/tree.h:231): what a    *)
(* paused thread works with stays.                                         *)
(***************************************************************************)
PausedStay ==
  \A p \in team.threads : scopes[p] > 0 => raw[p] \subseteq Live
=============================================================================
