---------------------------- MODULE EarleyCollected ----------------------------
(***************************************************************************)
(* Earley with the item collector of parser<C,T> (parse_options enable_gc  *)
(* and gc_lag), on or off for a parse.  A predicting item counts what      *)
(* waits on it (refi); an item that is scanned, fails or is not needed any *)
(* more is put in gcready, and gc_lag positions later it leaves the chart  *)
(* and the waiting items, unless something is still counted.  Bodies are   *)
(* not binarized.                                                          *)
(***************************************************************************)
EXTENDS Earley, FiniteSets

CONSTANTS
  NoLag,    \* the collector is off
  Lags(_)   \* gc_lag of the parses with a grammar, or NoLag

VARIABLES
  lag,      \* gc_lag, or NoLag
  refi,     \* the counts of the items that have one; all are positive
  gcready

collector == <<lag, refi, gcready>>

On == lag # NoLag

CollectedInit ==
  /\ Init /\ lag \in Lags(gram) /\ gcready = {}
  /\ refi = IF On THEN [x \in {Item(p, 0, 0, 0) : p \in Productions(gram.start)} |-> 1]
            ELSE << >>

Count(x) == IF x \in DOMAIN refi THEN refi[x] ELSE 0

-------------------------------------------------------------------------------
(***************************************************************************)
(* remove_item: x is ready for collection, and what waits for its head at  *)
(* its start counts one less.  What counts nothing then goes the same way. *)
(* Items of the first set are neither removed nor counted down.            *)
(***************************************************************************)
Removable(x) == x.set # 0 /\ x \notin gcready

WaitsOn(w, x) == w.set # 0 /\ ~Completed(w) /\ w.set = x.from /\ Lit(w) = x.prod.head

Decrements(w, R) == Cardinality({x \in R : WaitsOn(w, x)})

Removed(X) ==
  LET Spent(R) == {w \in (DOMAIN refi \cap S) \ R :
                     Removable(w) /\ refi[w] <= Decrements(w, R)}
      f[k \in Nat] == IF k = 0 THEN X
                      ELSE UNION {R \cup Spent(R) : R \in {f[k-1]}}
  IN  f[Cardinality(DOMAIN refi)]

RemoveItems(X) ==
  LET R     == Removed({x \in X : Removable(x)})
      Left(w) == refi[w] - (IF w \in S THEN Decrements(w, R) ELSE 0)
  IN  /\ gcready' = gcready \cup R
      /\ refi' = [w \in {v \in DOMAIN refi : Left(v) > 0} |-> Left(w)]

(***************************************************************************)
(* The handlers.  complete removes each waiting item that it advances and  *)
(* that counts nothing.  Of two waiting items that a nullable symbol sets  *)
(* apart, only the one that is advanced first may add the common item.     *)
(***************************************************************************)
CollectComplete(x) ==
  LET new     == {w \in Waiters(x) : Advance(w, x.set) \notin S \cup t \cup Added(x)}
      Shared(w) == \E v \in new \ {w} : Advance(w, x.set) \in Added(Advance(v, x.set))
  IN  \E late \in SUBSET {w \in new : Shared(w)} :
        RemoveItems({w \in new \ late : Count(w) = 0})

\* mutant: one count for a prediction, however many productions it makes
CollectPredictOnce(x) ==
  /\ refi' = [y \in DOMAIN refi \cup {x} |-> IF y = x THEN Count(x) + 1 ELSE refi[y]]
  /\ UNCHANGED gcready

CollectPredict(x) ==
  LET k == Cardinality({p \in Productions(Lit(x)) : FirstCanMatch(p)})
  IN  /\ refi' = IF k = 0 THEN refi
                 ELSE [y \in DOMAIN refi \cup {x} |->
                         IF y = x THEN Count(x) + k ELSE refi[y]]
      /\ UNCHANGED gcready

\* a failed scan; items that scan fails on count one at the start, or nothing
CollectFailed(x) ==
  IF x.set = 0
  THEN refi' = [y \in DOMAIN refi \ {x} |-> refi[y]] /\ UNCHANGED gcready
  ELSE RemoveItems({x})

CollectScanned(x) == gcready' = gcready \cup {x} /\ UNCHANGED refi

Collect(x) ==
  /\ On
  /\ IF Completed(x) THEN CollectComplete(x)
     ELSE IF IsCc(gram, Lit(x))
     THEN IF CcAccepts(Lit(x)) THEN CollectScanned(x) ELSE UNCHANGED <<refi, gcready>>
     ELSE IF Lit(x) \in gram.nts THEN CollectPredict(x)
     ELSE IF Lit(x) = Ch THEN CollectScanned(x) ELSE CollectFailed(x)
  /\ UNCHANGED lag

(***************************************************************************)
(* The loop.  With the collector a round takes up every item of S[n]       *)
(* again, and a position ends with the removal of what is old enough.      *)
(***************************************************************************)
FullRound ==
  /\ On /\ pc = "round"
  /\ S' = S \cup t /\ t' = {}
  /\ LET cur == {x \in S' : x.set = n}
     IN  snapshot' = cur /\ done' = cur /\ revisit' = {x \in cur : MustRevisit(x)}
  /\ pc' = "process"
  /\ UNCHANGED <<input, n, c, cache, memo, found, collector>>

Old(x) == x.set + lag <= n /\ x \notin DOMAIN refi

LeavePosition ==
  LET old == {x \in gcready : Old(x)}
  IN  /\ On /\ pc = "advance"
      /\ UNCHANGED <<input, t, c, snapshot, lag, refi>>
      /\ S' = S \ old /\ cache' = cache \ old /\ gcready' = gcready \ old
      /\ memo' = {}
      /\ \/ /\ n < Len(word)
            /\ n' = n + 1 /\ done' = {} /\ revisit' = {} /\ pc' = "round"
            /\ UNCHANGED found
         \/ /\ n = Len(word)
            /\ UNCHANGED <<n, done, revisit>>
            /\ found' = Accepting' /\ pc' = "done"

CollectedNext ==
  \/ ~On /\ Next /\ UNCHANGED collector
  \/ FullRound \/ LeavePosition
  \/ (On /\ (EndRound \/ EndResolve \/ Stopped) /\ UNCHANGED collector)
  \/ \E x \in snapshot : Process(x) /\ Collect(x)
  \/ \E x \in c : CompleteParked(x) /\ Collect(x)

CollectedVars == <<vars, collector>>
CollectedSpec == CollectedInit /\ [][CollectedNext]_CollectedVars
FairCollected == CollectedSpec /\ WF_CollectedVars(CollectedNext)
===============================================================================
