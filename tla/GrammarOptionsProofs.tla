------------------------ MODULE GrammarOptionsProofs ------------------------
(***************************************************************************)
(* The selected profile agrees with the enabled guards, for every set of   *)
(* guards, profiles, command lines, environments and grammars.             *)
(***************************************************************************)
EXTENDS GrammarOptions, TLAPS

\* The fields keep their names, and the selection matches.
IInv == DOMAIN field = GrammarOptions /\ VariantMatches

\* match_variant selects a profile of the fields, or none.
LEMMA Selected ==
  ASSUME NEW p, NEW guards
  PROVE  Select(p, guards) # NoName =>
           Select(p, guards) \in DOMAIN p /\ p[Select(p, guards)] = guards
BY DEF Select

\* What match_variant leaves matches.
LEMMA MatchedMatches ==
  ASSUME NEW f, DOMAIN f = GrammarOptions
  PROVE  Matches(MatchVariant(f)) /\ DOMAIN MatchVariant(f) = GrammarOptions
<1> DEFINE s == Select(f.variants, f.enabled_guards)
<1>1. s # NoName => s \in DOMAIN f.variants /\ f.variants[s] = f.enabled_guards
  BY Selected
<1>2. /\ MatchVariant(f).variant = s
      /\ MatchVariant(f).variants = f.variants
      /\ MatchVariant(f).enabled_guards = f.enabled_guards
  BY DEF MatchVariant, GrammarOptions
<1> QED BY <1>1, <1>2 DEF Matches, MatchVariant

\* A write that the codec takes leaves a selection that matches, whichever
\* option it writes.
LEMMA WrittenMatches ==
  ASSUME NEW o, NEW v, Fits(o, v), IInv
  PROVE  Matches(Written(field, o, v)) /\ DOMAIN Written(field, o, v) = GrammarOptions
<1>1. CASE o \in {"enabled_guards", "variants"}
  <2> DEFINE f == [field EXCEPT ![o] = v]
  <2>1. DOMAIN f = GrammarOptions BY DEF IInv
  <2>2. Matches(MatchVariant(f)) /\ DOMAIN MatchVariant(f) = GrammarOptions
    BY <2>1, MatchedMatches
  <2> QED BY <1>1, <2>2 DEF Written
<1>2. CASE o = "variant" /\ v \in DOMAIN field.variants
  <2> DEFINE f == [field EXCEPT !.enabled_guards = field.variants[v]]
  <2>1. DOMAIN f = GrammarOptions BY DEF IInv
  <2>2. Matches(MatchVariant(f)) /\ DOMAIN MatchVariant(f) = GrammarOptions
    BY <2>1, MatchedMatches
  <2> QED BY <1>2, <2>2 DEF Written
<1>3. CASE o = "variant" /\ v \notin DOMAIN field.variants
  <2>1. v = NoName BY <1>3 DEF Fits
  <2> QED BY <1>3, <2>1 DEF Written, Matches, IInv, GrammarOptions
<1>4. CASE o \notin {"enabled_guards", "variants", "variant"}
  BY <1>4 DEF Written, Matches, IInv, VariantMatches, GrammarOptions
<1> QED BY <1>1, <1>2, <1>3, <1>4

LEMMA InitIInv == Init => IInv
BY GrammarsAssumption DEF Init, IInv, VariantMatches

\* A write of a field keeps the invariant, taken or refused.
LEMMA FieldWritten ==
  ASSUME NEW o, NEW v, IInv, WriteField(o, v)
  PROVE  IInv'
<1>1. CASE Fits(o, v)
  <2>1. field' = Written(field, o, v) BY <1>1 DEF WriteField
  <2> QED BY <1>1, <2>1, WrittenMatches DEF IInv, VariantMatches
<1>2. CASE ~Fits(o, v)
  BY <1>2 DEF WriteField, IInv, VariantMatches
<1> QED BY <1>1, <1>2

\* Every step keeps the invariant.
LEMMA StepIInv == IInv /\ [Next]_vars => IInv'
<1> SUFFICES ASSUME IInv, [Next]_vars PROVE IInv'
  OBVIOUS
<1>0. CASE UNCHANGED field
  BY <1>0 DEF IInv, VariantMatches
<1>1. ASSUME NEW g \in Grammars, Load(g) PROVE IInv'
  BY <1>1, GrammarsAssumption DEF Load, IInv, VariantMatches
<1>2. CASE StoreNext \/ (AgainNext /\ Head(todo).option \in GrammarOptions)
  <2> DEFINE o == Head(todo).option
             v == Head(todo).value
  <2>1. Store(o, v) BY <1>2 DEF StoreNext, AgainNext
  <2>2. CASE o \in bound
    <3>1. WriteField(o, v) BY <2>1, <2>2 DEF Store
    <3> QED BY <3>1, FieldWritten
  <2>3. CASE o \notin bound
    BY <2>1, <2>3, <1>0 DEF Store
  <2> QED BY <2>2, <2>3
<1>3. CASE BindNext
  <2> DEFINE o == Head(todo).option
  <2>1. BindAt(o) BY <1>3 DEF BindNext
  <2>2. CASE stored[o] = Unset
    BY <2>1, <2>2, <1>0 DEF BindAt
  <2>3. CASE stored[o] # Unset
    <3>1. WriteField(o, stored[o]) BY <2>1, <2>3 DEF BindAt
    <3> QED BY <3>1, FieldWritten
  <2> QED BY <2>2, <2>3
<1>4. CASE ResetNext
  <2> DEFINE o == Head(todo).option
             v == Fallback(o)
  <2>1. ResetAt(o) BY <1>4 DEF ResetNext
  <2>2. CASE o \in bound /\ Fits(o, v)
    <3>1. field' = Written(field, o, v) BY <2>1, <2>2 DEF ResetAt
    <3> QED BY <2>2, <3>1, WrittenMatches DEF IInv, VariantMatches
  <2>3. CASE ~(o \in bound /\ Fits(o, v))
    <3>1. UNCHANGED field BY <2>1, <2>3 DEF ResetAt
    <3> QED BY <3>1, <1>0
  <2> QED BY <2>2, <2>3
<1>5. ASSUME NEW o \in Options,
             ResetOption(o) \/ \E v \in Inputs(o) : Set(o, v)
      PROVE  UNCHANGED field
  BY <1>5 DEF ResetOption, Set
<1>6. ASSUME NEW c \in Commands, NEW l \in CommandLines, ParseArgs(c, l)
      PROVE  UNCHANGED field
  BY <1>6 DEF ParseArgs
<1>7. ASSUME NEW e \in Environments, LoadEnv(e) PROVE UNCHANGED field
  BY <1>7 DEF LoadEnv
<1>11. CASE AgainNext /\ Head(todo).option \notin GrammarOptions
  BY <1>11, <1>0 DEF AgainNext
<1>8. CASE Reset(Tail(Catalog)) BY <1>8, <1>0 DEF Reset
<1>9. CASE Bind \/ Unbind \/ Move \/ KeepNext \/ Return
  BY <1>9, <1>0 DEF Bind, Unbind, Move, KeepNext, Return
<1>10. CASE UNCHANGED vars BY <1>10, <1>0 DEF vars
<1> QED
  BY <1>0, <1>1, <1>2, <1>3, <1>4, <1>5, <1>6, <1>7, <1>8, <1>9, <1>10, <1>11 DEF Next

\* A selected profile is one of the grammar's and its guards are enabled, in
\* every reachable state (the hooks of grammar::bind_to).
THEOREM SelectionAgrees == Spec => []VariantMatches
<1>1. IInv => VariantMatches BY DEF IInv
<1> QED BY InitIInv, StepIInv, <1>1, PTL DEF Spec
-----------------------------------------------------------------------------
(***************************************************************************)
(* What the writes and the moves rest on: the profiles can be told apart   *)
(* by their guards, the options that are bound are those of the binds that *)
(* are done, and a call has not begun to write what is left of it.         *)
(***************************************************************************)
FieldInv == IInv /\ AreProfiles(field.variants) /\ field.start \in grammar.symbols

IsList(s) == Len(s) \in Nat /\ s = [i \in 1..Len(s) |-> s[i]]

TodoInv ==
  /\ IsList(todo) /\ IsLine(argv) /\ DOMAIN stored = Options
  /\ call = Idle => todo = <<>>
  /\ \A i \in 1..Len(todo) : todo[i].do = "keep" => IsLine(todo[i].value)

FirstBinds(k) == {BindOrder[i] : i \in 1..k}

\* k options are bound, and the others are the next steps
Ahead(k) ==
  /\ Len(todo) >= 4 - k
  /\ \A i \in 1..Len(todo) :
       /\ i <= 4 - k => todo[i].do = "bind" /\ todo[i].option = BindOrder[k+i]
       /\ i > 4 - k => todo[i].do # "bind"

BoundInv ==
  \E k \in 0..4 : Ahead(k) /\ (bound = FirstBinds(k) \/ (k = 4 /\ bound = {}))

SetInv ==
  call[1] = "set" =>
    /\ call[2] \in Options /\ call[3] # Unset
    /\ \/ /\ Len(todo) = 1 /\ todo[1].do = "store"
          /\ todo[1].option = call[2] /\ todo[1].value = call[3]
          /\ err = FALSE /\ Values = before
       \/ todo = <<>> /\ WriteTakes

\* k options of a move are bound again with the values they had
Moved(k) ==
  /\ Len(todo) = 4 - k /\ Ahead(k) /\ bound = FirstBinds(k) /\ err = FALSE
  /\ \A i \in 1..4 : i > k => stored[BindOrder[i]] = before[BindOrder[i]]
  /\ \A o \in {"enabled_guards", "start", "variants"} : field[o] = before[o]
  /\ before.variant # NoName \/ k = 4 => field.variant = before.variant
  /\ before.variant # NoName =>
       /\ before.variant \in DOMAIN before.variants
       /\ before.variants[before.variant] = before.enabled_guards
  /\ Value("limit") = before.limit /\ before = [o \in Options |-> before[o]]

MoveInv == call = <<"move">> => \E k \in 0..4 : Moved(k)

KeepsInv == FieldInv /\ TodoInv /\ BoundInv /\ SetInv /\ MoveInv


LEMMA Orders ==
  /\ BindOrder[1] = "enabled_guards" /\ BindOrder[2] = "start"
  /\ BindOrder[3] = "variants" /\ BindOrder[4] = "variant"
  /\ FirstBinds(0) = {} /\ FirstBinds(4) = GrammarOptions
  /\ \A k \in 0..3 : FirstBinds(k + 1) = FirstBinds(k) \cup {BindOrder[k + 1]}
  /\ \A k \in 0..4 : FirstBinds(k) \subseteq GrammarOptions
  /\ DOMAIN BindOrder = 1..4
<1>1. /\ BindOrder[1] = "enabled_guards" /\ BindOrder[2] = "start"
      /\ BindOrder[3] = "variants" /\ BindOrder[4] = "variant" /\ DOMAIN BindOrder = 1..4
  BY DEF BindOrder
<1>2. ASSUME NEW k \in 0..3 PROVE FirstBinds(k + 1) = FirstBinds(k) \cup {BindOrder[k + 1]}
  <2>1. 1..(k + 1) = (1..k) \cup {k + 1}
    OBVIOUS
  <2> QED BY <2>1 DEF FirstBinds
<1>3. FirstBinds(0) = {}
  BY DEF FirstBinds
<1>4. 1..4 = {1, 2, 3, 4}
  OBVIOUS
<1>5. FirstBinds(4) = GrammarOptions
  BY <1>1, <1>4 DEF FirstBinds, GrammarOptions
<1>6. ASSUME NEW k \in 0..4 PROVE FirstBinds(k) \subseteq FirstBinds(4)
  BY DEF FirstBinds
<1> QED
  BY <1>1, <1>2, <1>3, <1>5, <1>6

LEMMA SeqIsList ==
  ASSUME NEW E, NEW s \in Seq(E)
  PROVE  IsList(s)
<1>1. Len(s) \in Nat /\ s \in [1..Len(s) -> E]
  OBVIOUS
<1>2. s = [i \in 1..Len(s) |-> s[i]]
  BY <1>1
<1> QED
  BY <1>1, <1>2 DEF IsList

\* A step of a call takes the head of the list.
LEMMA TakenHead ==
  ASSUME IsList(todo), todo # <<>>, todo' = Tail(todo)
  PROVE  /\ IsList(todo)' /\ Len(todo) >= 1 /\ Len(todo') = Len(todo) - 1
         /\ Head(todo) = todo[1] /\ \A i \in 1..Len(todo') : todo'[i] = todo[i+1]
<1> DEFINE E == {todo[i] : i \in 1..Len(todo)}
<1>1. todo \in Seq(E)
  BY DEF IsList
<1>2. todo' \in Seq(E) /\ Len(todo) \in Nat
  BY <1>1
<1>3. Len(todo) >= 1 /\ Len(todo') = Len(todo) - 1 /\ Head(todo) = todo[1]
      /\ \A i \in 1..Len(todo') : todo'[i] = todo[i+1]
  BY <1>1
<1>4. IsList(todo')
  BY <1>2, SeqIsList
<1> QED
  BY <1>3, <1>4 DEF IsList

LEMMA EachList ==
  ASSUME NEW do, NEW l, IsLine(l)
  PROVE  /\ IsList(Each(do, l)) /\ Len(Each(do, l)) = Len(l)
         /\ \A i \in 1..Len(Each(do, l)) : Each(do, l)[i].do = do
         /\ \A i \in 1..Len(l) :
              Each(do, l)[i] = [do |-> do, option |-> l[i][1], value |-> l[i][2]]
<1> DEFINE e == Each(do, l)
           E == {e[i] : i \in 1..Len(l)}
<1>1. e = [i \in 1..Len(l) |-> [do |-> do, option |-> l[i][1], value |-> l[i][2]]]
  BY DEF Each, IsLine
<1>2. Len(l) \in Nat
  BY DEF IsLine
<1>3. e \in Seq(E) /\ Len(e) = Len(l)
  BY <1>1, <1>2
<1>4. \A i \in 1..Len(l) : e[i] = [do |-> do, option |-> l[i][1], value |-> l[i][2]]
  BY <1>1
<1>5. IsList(e)
  BY <1>1, <1>2, <1>3 DEF IsList
<1>6. \A i \in 1..Len(e) : e[i].do = do
  <2>1. \A i \in 1..Len(l) : e[i].do = do
    BY <1>1
  <2> QED
    BY <1>3, <2>1
<1> QED
  BY <1>3, <1>4, <1>5, <1>6, Zenon

LEMMA OneEach ==
  ASSUME NEW do, NEW o \in Options, NEW v
  PROVE  /\ IsList(Each(do, << <<o, v>> >>)) /\ Len(Each(do, << <<o, v>> >>)) = 1
         /\ Each(do, << <<o, v>> >>)[1] = [do |-> do, option |-> o, value |-> v]
<1> DEFINE l == << <<o, v>> >>
<1>1. IsLine(l) /\ Len(l) = 1 /\ l[1][1] = o /\ l[1][2] = v
  BY DEF IsLine
<1> HIDE DEF l
<1>2. 1 \in 1..Len(l)
  BY <1>1
<1>3. /\ IsList(Each(do, l)) /\ Len(Each(do, l)) = 1
      /\ Each(do, l)[1] = [do |-> do, option |-> o, value |-> v]
  BY <1>1, <1>2, EachList
<1> QED
  BY <1>3 DEF l

LEMMA BindsList ==
  /\ IsList(Binds) /\ Len(Binds) = 4
  /\ \A i \in 1..4 : Binds[i].do = "bind" /\ Binds[i].option = BindOrder[i]
<1> DEFINE E == {Binds[i] : i \in 1..4}
<1>1. Binds = [i \in 1..4 |-> [do |-> "bind", option |-> BindOrder[i], value |-> Unset]]
  BY Orders DEF Binds
<1>2. Binds \in Seq(E) /\ Len(Binds) = 4
  BY <1>1
<1>3. \A i \in 1..4 : Binds[i].do = "bind" /\ Binds[i].option = BindOrder[i]
  BY <1>1
<1>4. IsList(Binds)
  BY <1>1, <1>2 DEF IsList
<1> QED
  BY <1>2, <1>3, <1>4

LEMMA Joined ==
  ASSUME NEW a, NEW b, IsList(a), IsList(b)
  PROVE  /\ IsList(a \o b) /\ Len(a \o b) = Len(a) + Len(b)
         /\ \A i \in 1..(Len(a) + Len(b)) :
              (a \o b)[i] = IF i <= Len(a) THEN a[i] ELSE b[i - Len(a)]
<1> DEFINE E == {a[i] : i \in 1..Len(a)} \cup {b[i] : i \in 1..Len(b)}
<1>1. a \in Seq(E) /\ b \in Seq(E)
  BY DEF IsList
<1>2. /\ a \o b \in Seq(E) /\ Len(a \o b) = Len(a) + Len(b)
      /\ Len(a) \in Nat /\ Len(b) \in Nat
      /\ \A i \in 1..(Len(a) + Len(b)) :
           (a \o b)[i] = IF i <= Len(a) THEN a[i] ELSE b[i - Len(a)]
  BY <1>1
<1>3. IsList(a \o b)
  BY <1>2, SeqIsList
<1> QED
  BY <1>2, <1>3
-----------------------------------------------------------------------------
(***************************************************************************)
(* The fields.                                                             *)
(***************************************************************************)
LEMMA SelectedUnique ==
  ASSUME NEW p, AreProfiles(p), NEW n \in DOMAIN p
  PROVE  Select(p, p[n]) = n
<1>1. \A m \in DOMAIN p : p[m] = p[n] => m = n
  BY DEF AreProfiles, IsInjective
<1> QED
  BY <1>1 DEF Select

\* The value that a write takes is the value of the option, and the options
\* that the hook does not write keep theirs.
LEMMA WrittenTakes ==
  ASSUME NEW o \in GrammarOptions, NEW v, Fits(o, v), FieldInv
  PROVE  /\ Written(field, o, v)[o] = v
         /\ o # "start" => Written(field, o, v).start = field.start
         /\ o # "variants" => Written(field, o, v).variants = field.variants
<1>1. DOMAIN field = GrammarOptions
  BY DEF FieldInv, IInv
<1>2. CASE o \in {"enabled_guards", "variants"}
  BY <1>1, <1>2 DEF Written, MatchVariant, GrammarOptions
<1>3. CASE o = "variant" /\ v \in DOMAIN field.variants
  <2> DEFINE f == [field EXCEPT !.enabled_guards = field.variants[v]]
  <2>1. f.variants = field.variants /\ f.enabled_guards = field.variants[v]
        /\ f.start = field.start /\ DOMAIN f = GrammarOptions
    BY <1>1 DEF GrammarOptions
  <2>2. Select(f.variants, f.enabled_guards) = v
    BY <1>3, <2>1, SelectedUnique DEF FieldInv
  <2>3. Written(field, o, v) = [f EXCEPT !.variant = v]
    BY <1>3, <2>2 DEF Written, MatchVariant
  <2> HIDE DEF f
  <2> QED BY <1>3, <2>1, <2>3 DEF GrammarOptions
<1>4. CASE o = "start" \/ (o = "variant" /\ v \notin DOMAIN field.variants)
  BY <1>1, <1>4 DEF Written, GrammarOptions
<1> QED
  BY <1>2, <1>3, <1>4 DEF GrammarOptions

LEMMA WrittenField ==
  ASSUME NEW o \in GrammarOptions, NEW v, Fits(o, v), FieldInv,
         field' = Written(field, o, v), UNCHANGED grammar
  PROVE  FieldInv'
<1>1. IInv'
  BY WrittenMatches DEF FieldInv, IInv, VariantMatches
<1>2. AreProfiles(field'.variants)
  BY WrittenTakes DEF FieldInv, Fits
<1>3. field'.start \in grammar.symbols
  BY WrittenTakes DEF FieldInv, Fits
<1> QED
  BY <1>1, <1>2, <1>3 DEF FieldInv, AreProfiles
\* A write of a field keeps the profiles apart, taken or refused.
LEMMA WriteKeeps ==
  ASSUME FieldInv, NEW o \in GrammarOptions, NEW v, WriteField(o, v), UNCHANGED grammar
  PROVE  FieldInv'
<1>1. CASE Fits(o, v)
  BY <1>1, WrittenField DEF WriteField
<1>2. CASE ~Fits(o, v)
  BY <1>2 DEF WriteField, FieldInv, IInv, VariantMatches, AreProfiles
<1> QED
  BY <1>1, <1>2

LEMMA StayedField ==
  ASSUME FieldInv, UNCHANGED <<field, grammar>>
  PROVE  FieldInv'
BY DEF FieldInv, IInv, VariantMatches, AreProfiles
-----------------------------------------------------------------------------
(***************************************************************************)
(* What is left of a call.                                                 *)
(***************************************************************************)
LEMMA IdleBound ==
  ASSUME TodoInv, BoundInv, call = Idle
  PROVE  todo = <<>> /\ bound \in {{}, GrammarOptions}
<1>1. todo = <<>> /\ Len(todo) = 0
  BY DEF TodoInv
<1>2. PICK k \in 0..4 : Ahead(k) /\ (bound = FirstBinds(k) \/ (k = 4 /\ bound = {}))
  BY DEF BoundInv
<1>3. k = 4
  BY <1>1, <1>2 DEF Ahead
<1> QED
  BY <1>1, <1>2, <1>3, Orders

LEMMA BoundOptions ==
  ASSUME BoundInv PROVE bound \subseteq GrammarOptions
BY Orders DEF BoundInv

LEMMA NoBinds ==
  ASSUME bound' \in {{}, GrammarOptions}, Len(todo') \in Nat,
         \A i \in 1..Len(todo') : todo'[i].do # "bind"
  PROVE  BoundInv'
<1>1. Ahead(4)'
  BY DEF Ahead
<1>2. bound' = FirstBinds(4) \/ bound' = {}
  BY Orders
<1> QED
  BY <1>1, <1>2 DEF BoundInv

LEMMA AllBinds ==
  ASSUME bound' = {}, NEW rest, IsList(rest), \A i \in 1..Len(rest) : rest[i].do # "bind",
         todo' = Binds \o rest
  PROVE  BoundInv' /\ IsList(todo') /\ Len(todo') = 4 + Len(rest) /\ Ahead(0)'
         /\ \A i \in 1..Len(todo') : todo'[i].do \in {"bind"} \cup {rest[j].do : j \in 1..Len(rest)}
<1>1. /\ IsList(todo') /\ Len(todo') = 4 + Len(rest) /\ Len(rest) \in Nat
      /\ \A i \in 1..(4 + Len(rest)) :
           todo'[i] = IF i <= 4 THEN Binds[i] ELSE rest[i - 4]
  <2>1. Len(rest) \in Nat
    BY DEF IsList
  <2>2. IsList(Binds) /\ Len(Binds) = 4
    BY BindsList
  <2>3. /\ IsList(Binds \o rest) /\ Len(Binds \o rest) = Len(Binds) + Len(rest)
        /\ \A i \in 1..(Len(Binds) + Len(rest)) :
             (Binds \o rest)[i] = IF i <= Len(Binds) THEN Binds[i] ELSE rest[i - Len(Binds)]
    BY <2>2, Joined, Zenon
  <2> QED
    BY <2>1, <2>2, <2>3
<1>2. ASSUME NEW i \in 1..Len(todo')
      PROVE  /\ i <= 4 => todo'[i].do = "bind" /\ todo'[i].option = BindOrder[i]
             /\ i > 4 => i - 4 \in 1..Len(rest) /\ todo'[i].do = rest[i - 4].do
                         /\ todo'[i].do # "bind"
  BY <1>1, BindsList
<1>3. Ahead(0)'
  BY <1>1, <1>2 DEF Ahead
<1>4. BoundInv'
  BY <1>3, Orders DEF BoundInv
<1> QED
  BY <1>1, <1>2, <1>3, <1>4

LEMMA TodoTaken ==
  ASSUME TodoInv, NEW do, Step(do), UNCHANGED call,
         DOMAIN stored' = Options, IsLine(argv')
  PROVE  TodoInv'
<1>1. /\ IsList(todo') /\ Len(todo') = Len(todo) - 1 /\ Len(todo) \in Nat
      /\ \A i \in 1..Len(todo') : todo'[i] = todo[i+1]
  BY TakenHead DEF TodoInv, Step, IsList
<1>2. call # Idle
  BY DEF TodoInv, Step
<1>3. \A i \in 1..Len(todo') : i + 1 \in 1..Len(todo)
  BY <1>1
<1>4. \A i \in 1..Len(todo') : todo'[i].do = "keep" => IsLine(todo'[i].value)
  BY <1>1, <1>3 DEF TodoInv
<1> QED
  BY <1>1, <1>2, <1>4 DEF TodoInv, IsList, IsLine

LEMMA BoundTaken ==
  ASSUME TodoInv, BoundInv, NEW do, do # "bind", Step(do), UNCHANGED bound
  PROVE  BoundInv'
<1>1. /\ Len(todo') = Len(todo) - 1 /\ Len(todo) \in Nat /\ Len(todo) >= 1
      /\ todo[1].do # "bind" /\ \A i \in 1..Len(todo') : todo'[i] = todo[i+1]
  BY TakenHead DEF TodoInv, Step, IsList
<1>2. PICK k \in 0..4 : Ahead(k) /\ (bound = FirstBinds(k) \/ (k = 4 /\ bound = {}))
  BY DEF BoundInv
<1>3. k = 4
  BY <1>1, <1>2 DEF Ahead
<1>4. \A i \in 1..Len(todo') : todo'[i].do # "bind"
  BY <1>1, <1>2, <1>3 DEF Ahead
<1> QED
  BY <1>1, <1>2, <1>3, <1>4, Orders, NoBinds

LEMMA BoundBinds ==
  ASSUME TodoInv, NEW k \in 0..4, Ahead(k), BindNext
  PROVE  /\ k \in 0..3 /\ Head(todo).option = BindOrder[k+1] /\ Ahead(k+1)'
         /\ bound = FirstBinds(k) => bound' = FirstBinds(k+1)
         /\ Len(todo') = Len(todo) - 1
<1>1. /\ Len(todo') = Len(todo) - 1 /\ Len(todo) \in Nat /\ Len(todo) >= 1
      /\ todo[1].do = "bind" /\ Head(todo) = todo[1]
      /\ \A i \in 1..Len(todo') : todo'[i] = todo[i+1]
  BY TakenHead DEF TodoInv, BindNext, Step, IsList
<1>2. k \in 0..3 /\ todo[1].option = BindOrder[k+1]
  BY <1>1 DEF Ahead
<1>3. \A i \in 1..Len(todo') :
        /\ i <= 4 - (k+1) => todo'[i].do = "bind" /\ todo'[i].option = BindOrder[k+1+i]
        /\ i > 4 - (k+1) => todo'[i].do # "bind"
  <2> TAKE i \in 1..Len(todo')
  <2>1. i + 1 \in 1..Len(todo) /\ todo'[i] = todo[i+1] /\ k + (i + 1) = k + 1 + i
    BY <1>1, <1>2
  <2>2. /\ i + 1 <= 4 - k => todo[i+1].do = "bind" /\ todo[i+1].option = BindOrder[k+(i+1)]
        /\ i + 1 > 4 - k => todo[i+1].do # "bind"
    BY <2>1 DEF Ahead
  <2> QED
    BY <2>1, <2>2, <1>2
<1>4. Ahead(k+1)'
  BY <1>1, <1>2, <1>3 DEF Ahead
<1>5. bound' = bound \cup {BindOrder[k+1]}
  BY <1>1, <1>2 DEF BindNext, BindAt
<1> QED
  BY <1>1, <1>2, <1>4, <1>5, Orders
-----------------------------------------------------------------------------
(***************************************************************************)
(* The calls begin.                                                        *)
(***************************************************************************)
LEMMA BeginKeeps ==
  ASSUME KeepsInv, NEW name, name[1] \notin {"idle", "set", "move"},
         NEW rest, IsList(rest), Begin(name, rest),
         \A i \in 1..Len(rest) : /\ rest[i].do # "bind"
                                 /\ rest[i].do = "keep" => IsLine(rest[i].value),
         UNCHANGED <<stored, bound, field, grammar, argv>>
  PROVE  KeepsInv'
<1>1. FieldInv'
  BY StayedField DEF KeepsInv
<1>2. call' = name /\ call' # Idle /\ call' # <<"move">> /\ todo' = rest
  BY DEF Begin, Idle
<1>3. TodoInv'
  BY <1>2 DEF KeepsInv, TodoInv, IsList, IsLine
<1>4. bound' \in {{}, GrammarOptions}
  BY IdleBound DEF KeepsInv, Begin
<1>5. BoundInv'
  BY <1>2, <1>4, NoBinds DEF IsList
<1>6. SetInv' /\ MoveInv'
  BY <1>2 DEF SetInv, MoveInv
<1> QED
  BY <1>1, <1>3, <1>5, <1>6 DEF KeepsInv

\* The options written one after the other, of one kind.
LEMMA EachKeeps ==
  ASSUME KeepsInv, NEW name, name[1] \notin {"idle", "set", "move"},
         NEW do \in {"store", "reset"}, NEW l, IsLine(l), Begin(name, Each(do, l)),
         UNCHANGED <<stored, bound, field, grammar, argv>>
  PROVE  KeepsInv'
<1>1. \A i \in 1..Len(Each(do, l)) : Each(do, l)[i].do = do
  BY EachList, Zenon
<1>2. IsList(Each(do, l))
  BY EachList, Zenon
<1> DEFINE e == Each(do, l)
<1> HIDE DEF e
<1>3. IsList(e) /\ Begin(name, e) /\ \A i \in 1..Len(e) : e[i].do # "bind" /\ e[i].do # "keep"
  BY <1>1, <1>2 DEF e
<1> QED
  BY <1>3, BeginKeeps

LEMMA SameValues ==
  ASSUME UNCHANGED <<stored, bound, field, command>>
  PROVE  Values' = Values
BY DEF Values, Value

LEMMA SetKeeps ==
  ASSUME KeepsInv, NEW o \in Options, NEW v \in Inputs(o), Set(o, v)
  PROVE  KeepsInv'
<1> DEFINE e == Each("store", << <<o, v>> >>)
<1>1. /\ IsList(e) /\ Len(e) = 1 /\ e[1] = [do |-> "store", option |-> o, value |-> v]
  BY OneEach
<1>2. /\ call' = <<"set", o, v>> /\ todo' = e /\ before' = Values /\ err' = FALSE
      /\ call = Idle /\ UNCHANGED <<stored, bound, field, grammar, command, argv>>
  BY DEF Set, Begin
<1> HIDE DEF e
<1>3. FieldInv'
  BY <1>2, StayedField DEF KeepsInv
<1>4. TodoInv'
  <2>1. IsList(todo')
    BY <1>1, <1>2
  <2>2. Len(todo') = 1 /\ todo'[1].do # "keep" /\ call' # Idle
    BY <1>1, <1>2 DEF Idle
  <2> QED
    BY <1>2, <2>1, <2>2 DEF KeepsInv, TodoInv, IsList, IsLine
<1>5. BoundInv'
  <2>1. bound' \in {{}, GrammarOptions}
    BY <1>2, IdleBound DEF KeepsInv
  <2> QED
    BY <1>1, <1>2, <2>1, NoBinds
<1>6. SetInv'
  <2>1. v # Unset
    BY InputsAssumption
  <2>2. Values' = before'
    BY <1>2, SameValues
  <2> QED
    BY <1>1, <1>2, <2>1, <2>2 DEF SetInv
<1>7. MoveInv'
  BY <1>2 DEF MoveInv
<1> QED
  BY <1>3, <1>4, <1>5, <1>6, <1>7 DEF KeepsInv

LEMMA ParseArgsKeeps ==
  ASSUME KeepsInv, NEW c, NEW line, IsLine(line), ParseArgs(c, line)
  PROVE  KeepsInv'
<1> DEFINE kept == << [do |-> "keep", option |-> "limit", value |-> line] >>
           e == Each("store", line)
<1>1. CASE \A i \in DOMAIN line : line[i][1] \in bound => Fits(line[i][1], line[i][2])
  <2>1. /\ Begin(<<"args">>, e \o kept)
        /\ UNCHANGED <<stored, bound, field, grammar, argv>>
    BY <1>1 DEF ParseArgs
  <2>2. IsList(kept) /\ Len(kept) = 1 /\ kept[1].do = "keep" /\ kept[1].value = line
    BY DEF IsList
  <2>3. /\ IsList(e) /\ Len(e) \in Nat /\ Len(e) = Len(line)
        /\ \A i \in 1..Len(e) : e[i].do = "store"
    <3>1. /\ IsList(e) /\ Len(e) = Len(line) /\ \A i \in 1..Len(e) : e[i].do = "store"
      BY EachList, Zenon
    <3> QED
      BY <3>1 DEF IsLine
  <2> HIDE DEF e, kept
  <2>4. /\ IsList(e \o kept) /\ Len(e \o kept) = Len(e) + 1
        /\ \A i \in 1..(Len(e) + 1) : (e \o kept)[i] = IF i <= Len(e) THEN e[i] ELSE kept[i - Len(e)]
    <3>1. /\ IsList(e \o kept) /\ Len(e \o kept) = Len(e) + Len(kept)
          /\ \A i \in 1..(Len(e) + Len(kept)) :
               (e \o kept)[i] = IF i <= Len(e) THEN e[i] ELSE kept[i - Len(e)]
      BY <2>2, <2>3, Joined, Zenon
    <3> QED
      BY <2>2, <3>1
  <2>5. ASSUME NEW i \in 1..Len(e \o kept)
        PROVE  /\ (e \o kept)[i].do # "bind"
               /\ (e \o kept)[i].do = "keep" => IsLine((e \o kept)[i].value)
    <3>1. CASE i <= Len(e)
      BY <3>1, <2>3, <2>4
    <3>2. CASE i = Len(e) + 1
      BY <3>2, <2>2, <2>3, <2>4
    <3> QED
      BY <3>1, <3>2, <2>3, <2>4
  <2> QED
    BY <2>1, <2>4, <2>5, BeginKeeps
<1>2. CASE ~ \A i \in DOMAIN line : line[i][1] \in bound => Fits(line[i][1], line[i][2])
  <2>1. Begin(<<"args">>, <<>>) /\ UNCHANGED <<stored, bound, field, grammar, argv>>
    BY <1>2 DEF ParseArgs
  <2>2. IsList(<<>>) /\ Len(<<>>) = 0
    BY DEF IsList
  <2> QED
    BY <2>1, <2>2, BeginKeeps
<1> QED
  BY <1>1, <1>2

LEMMA ResetsKeep ==
  ASSUME KeepsInv, Reset(Tail(Catalog))
  PROVE  KeepsInv'
<1> DEFINE t == Tail(Catalog)
           l == [i \in DOMAIN t |-> <<t[i], Unset>>]
<1>1. t \in Seq(Options) /\ Len(t) = 4
  <2> DEFINE c == Catalog
  <2>1. c \in Seq(Options) /\ Len(c) = 5 /\ c # <<>> /\ t = Tail(c)
    BY DEF Catalog, Options, GrammarOptions
  <2> HIDE DEF c, t
  <2>2. Tail(c) \in Seq(Options) /\ Len(Tail(c)) = 4
    <3>1. Tail(c) \in Seq(Options) /\ Len(Tail(c)) = Len(c) - 1
      BY <2>1
    <3> QED
      BY <2>1, <3>1
  <2> QED
    BY <2>1, <2>2
<1>2. Len(t) = 4 /\ DOMAIN t = 1..4 /\ \A i \in 1..4 : t[i] \in Options
  <2> HIDE DEF t
  <2> QED
    BY <1>1
<1>3. IsLine(l)
  <2> HIDE DEF t
  <2>1. l = [i \in 1..4 |-> <<t[i], Unset>>]
    BY <1>2
  <2>2. Len(l) = 4 /\ DOMAIN l = 1..4 /\ \A i \in 1..4 : l[i][1] = t[i]
    BY <2>1
  <2> QED
    BY <1>2, <2>2 DEF IsLine
<1>4. /\ Begin(<<"reset">>, Each("reset", l))
      /\ UNCHANGED <<stored, bound, field, grammar, argv>>
  BY DEF Reset
<1> HIDE DEF l
<1> QED
  BY <1>3, <1>4, EachKeeps

LEMMA BindKeeps ==
  ASSUME KeepsInv, Bind
  PROVE  KeepsInv'
<1>1. /\ call' = <<"bind">> /\ todo' = Binds \o <<>> /\ bound' = {}
      /\ UNCHANGED <<stored, field, grammar, argv>>
  <2> DEFINE b == Binds
             E == {b[i] : i \in 1..4}
  <2>1. Len(b) = 4 /\ b = [i \in 1..4 |-> b[i]]
    <3>1. IsList(b) /\ Len(b) = 4
      BY BindsList
    <3> QED
      BY <3>1 DEF IsList
  <2> HIDE DEF b
  <2>2. b \in Seq(E)
    BY <2>1
  <2>3. b = b \o <<>>
    BY <2>2
  <2>4. Binds = Binds \o <<>>
    BY <2>3 DEF b
  <2> QED
    BY <2>4 DEF Bind, Begin
<1>2. IsList(<<>>) /\ Len(<<>>) = 0
  BY DEF IsList
<1>3. /\ BoundInv' /\ IsList(todo') /\ Len(todo') = 4
      /\ \A i \in 1..Len(todo') : todo'[i].do = "bind"
  <2> DEFINE r == <<>>
  <2>1. /\ IsList(r) /\ Len(r) = 0 /\ todo' = Binds \o r
        /\ \A i \in 1..Len(r) : r[i].do # "bind"
    BY <1>1, <1>2
  <2> HIDE DEF r
  <2>2. /\ BoundInv' /\ IsList(todo') /\ Len(todo') = 4 + Len(r)
        /\ \A i \in 1..Len(todo') : todo'[i].do \in {"bind"} \cup {r[j].do : j \in 1..Len(r)}
    BY <1>1, <2>1, AllBinds
  <2> QED
    BY <2>1, <2>2
<1>4. FieldInv'
  BY <1>1, StayedField DEF KeepsInv
<1>5. TodoInv'
  BY <1>1, <1>3 DEF KeepsInv, TodoInv, IsList, IsLine, Idle
<1>6. SetInv' /\ MoveInv'
  BY <1>1 DEF SetInv, MoveInv
<1> QED
  BY <1>3, <1>4, <1>5, <1>6 DEF KeepsInv

LEMMA UnbindKeeps ==
  ASSUME KeepsInv, Unbind
  PROVE  KeepsInv'
<1>1. /\ call' = <<"unbind">> /\ todo' = <<>> /\ bound' = {} /\ DOMAIN stored' = Options
      /\ UNCHANGED <<field, grammar, argv>>
  BY DEF Unbind, Begin, Unbound
<1>2. FieldInv'
  BY <1>1, StayedField DEF KeepsInv
<1>3. TodoInv'
  BY <1>1 DEF KeepsInv, TodoInv, IsList, IsLine
<1>4. BoundInv'
  BY <1>1, NoBinds
<1>5. SetInv' /\ MoveInv'
  BY <1>1 DEF SetInv, MoveInv
<1> QED
  BY <1>2, <1>3, <1>4, <1>5 DEF KeepsInv

LEMMA LoadKeeps ==
  ASSUME KeepsInv, NEW g \in Grammars, Load(g)
  PROVE  KeepsInv'
<1> DEFINE e == Each("again", argv)
<1>1. /\ call' = <<"load">> /\ todo' = Binds \o e /\ bound' = {} /\ DOMAIN stored' = Options
      /\ field' = g.field /\ grammar' = g /\ UNCHANGED argv
  BY DEF Load, Begin, Forgotten
<1>2. IsList(e) /\ \A i \in 1..Len(e) : e[i].do = "again"
  <2>1. IsLine(argv)
    BY DEF KeepsInv, TodoInv
  <2> QED
    BY <2>1, EachList, Zenon
<1> HIDE DEF e
<1>3. /\ BoundInv' /\ IsList(todo')
      /\ \A i \in 1..Len(todo') : todo'[i].do # "keep"
  <2>1. \A i \in 1..Len(todo') : todo'[i].do \in {"bind"} \cup {e[j].do : j \in 1..Len(e)}
    BY <1>1, <1>2, AllBinds
  <2>2. BoundInv' /\ IsList(todo')
    BY <1>1, <1>2, AllBinds
  <2> QED
    BY <1>2, <2>1, <2>2
<1>4. FieldInv'
  BY <1>1, GrammarsAssumption DEF FieldInv, IInv, VariantMatches, AreProfiles
<1>5. TodoInv'
  BY <1>1, <1>3 DEF KeepsInv, TodoInv, IsList, IsLine, Idle
<1>6. SetInv' /\ MoveInv'
  BY <1>1 DEF SetInv, MoveInv
<1> QED
  BY <1>3, <1>4, <1>5, <1>6 DEF KeepsInv
-----------------------------------------------------------------------------
(***************************************************************************)
(* The writes of a call.                                                   *)
(***************************************************************************)
\* A write that is no bind belongs to no move, and to a set when it stores.
LEMMA OtherStep ==
  ASSUME KeepsInv, NEW do \in {"store", "again", "reset", "keep"}, Step(do), UNCHANGED call
  PROVE  /\ call # <<"move">> /\ MoveInv'
         /\ call[1] = "set" =>
              /\ do = "store" /\ todo' = <<>> /\ Len(todo) = 1
              /\ Head(todo).option = call[2] /\ Head(todo).value = call[3]
              /\ call[2] \in Options /\ call[3] # Unset /\ err = FALSE /\ Values = before
<1>1. /\ todo # <<>> /\ Len(todo) >= 1 /\ Len(todo) \in Nat /\ Len(todo') = Len(todo) - 1
      /\ todo[1].do = do /\ Head(todo) = todo[1] /\ IsList(todo')
  BY TakenHead DEF KeepsInv, TodoInv, Step, IsList
<1>2. call # <<"move">>
  <2> SUFFICES ASSUME call = <<"move">> PROVE FALSE
    OBVIOUS
  <2>1. PICK k \in 0..4 : Moved(k)
    BY DEF KeepsInv, MoveInv
  <2>2. k < 4 /\ todo[1].do = "bind"
    BY <1>1, <2>1 DEF Moved, Ahead
  <2> QED
    BY <1>1, <2>2
<1>3. MoveInv'
  BY <1>2 DEF MoveInv
<1>4. ASSUME call[1] = "set"
      PROVE  /\ do = "store" /\ todo' = <<>> /\ Len(todo) = 1
             /\ Head(todo).option = call[2] /\ Head(todo).value = call[3]
             /\ call[2] \in Options /\ call[3] # Unset /\ err = FALSE /\ Values = before
  <2>1. /\ call[2] \in Options /\ call[3] # Unset
        /\ Len(todo) = 1 /\ todo[1].do = "store"
        /\ todo[1].option = call[2] /\ todo[1].value = call[3]
        /\ err = FALSE /\ Values = before
    BY <1>1, <1>4 DEF KeepsInv, SetInv
  <2>2. todo' = <<>>
    <3>1. Len(todo') = 0
      BY <1>1, <2>1
    <3>2. todo' \in Seq({todo'[i] : i \in 1..Len(todo')})
      BY <1>1 DEF IsList
    <3> QED
      BY <3>1, <3>2
  <2> QED
    BY <1>1, <2>1, <2>2
<1> QED
  BY <1>2, <1>3, <1>4

\* What a store without an error leaves is the value, and what a store with
\* one leaves are the values there were.
LEMMA StoreTakes ==
  ASSUME FieldInv, bound \subseteq GrammarOptions, DOMAIN stored = Options,
         NEW o \in Options, NEW v, v # Unset, err = FALSE,
         Store(o, v), UNCHANGED <<bound, command>>
  PROVE  IF err' THEN Values' = Values ELSE Value(o)' = v
<1>1. CASE o \in bound /\ Fits(o, v)
  <2>1. field' = Written(field, o, v) /\ err' = FALSE
    BY <1>1 DEF Store, WriteField
  <2>2. field'[o] = v
    BY <1>1, <2>1, WrittenTakes
  <2> QED
    BY <1>1, <2>1, <2>2 DEF Value
<1>2. CASE o \in bound /\ ~Fits(o, v)
  <2>1. field' = field /\ stored' = stored /\ err' = TRUE
    BY <1>2 DEF Store, WriteField
  <2> QED
    BY <2>1, SameValues
<1>3. CASE o \notin bound
  <2>1. stored' = [stored EXCEPT ![o] = v] /\ err' = FALSE
    BY <1>3 DEF Store
  <2>2. stored'[o] = v
    BY <2>1
  <2> QED
    BY <1>3, <2>1, <2>2 DEF Value
<1> QED
  BY <1>1, <1>2, <1>3

\* A store writes the field of a bound option, or the stored value.
LEMMA StoreFields ==
  ASSUME FieldInv, bound \subseteq GrammarOptions, DOMAIN stored = Options,
         NEW o, NEW v, Store(o, v), UNCHANGED grammar
  PROVE  FieldInv' /\ DOMAIN stored' = Options
<1>1. CASE o \in bound
  BY <1>1, WriteKeeps DEF Store
<1>2. CASE o \notin bound
  BY <1>2, StayedField DEF Store
<1> QED
  BY <1>1, <1>2

LEMMA StoreNextKeeps ==
  ASSUME KeepsInv, StoreNext
  PROVE  KeepsInv'
<1> DEFINE o == Head(todo).option
           v == Head(todo).value
<1>1. /\ Step("store") /\ Store(o, v) /\ bound \subseteq GrammarOptions /\ FieldInv
      /\ DOMAIN stored = Options /\ UNCHANGED <<bound, grammar, command, argv, call, before>>
  BY BoundOptions DEF StoreNext, KeepsInv, TodoInv
<1>2. FieldInv' /\ DOMAIN stored' = Options
  BY <1>1, StoreFields
<1>3. TodoInv' /\ BoundInv'
  <2>1. IsLine(argv')
    BY <1>1 DEF KeepsInv, TodoInv
  <2> QED
    BY <1>1, <1>2, <2>1, TodoTaken, BoundTaken DEF KeepsInv
<1>4. MoveInv'
  BY <1>1, OtherStep
<1>5. SetInv'
  <2> SUFFICES ASSUME call[1] = "set"
               PROVE  call'[2] \in Options /\ call'[3] # Unset /\ todo' = <<>> /\ WriteTakes'
    BY <1>1 DEF SetInv
  <2>1. /\ todo' = <<>> /\ o = call[2] /\ v = call[3] /\ call[2] \in Options /\ call[3] # Unset
        /\ err = FALSE /\ Values = before
    BY <1>1, OtherStep
  <2> HIDE DEF o, v
  <2>2. ASSUME NEW p, NEW q, p = o, q = v
        PROVE  IF err' THEN Values' = Values ELSE Value(p)' = q
    BY <1>1, <2>1, <2>2, StoreTakes
  <2>3. PICK p, q : p = o /\ q = v
    OBVIOUS
  <2>4. IF err' THEN Values' = Values ELSE Value(p)' = q
    BY <2>2, <2>3
  <2>5. p = call'[2] /\ q = call'[3] /\ before' = Values
    BY <1>1, <2>1, <2>3
  <2>6. CASE err'
    BY <1>1, <2>1, <2>4, <2>5, <2>6 DEF WriteTakes
  <2>7. CASE ~err'
    BY <1>1, <2>1, <2>4, <2>5, <2>7 DEF WriteTakes, Value
  <2> QED
    BY <2>6, <2>7
<1> QED
  BY <1>2, <1>3, <1>4, <1>5 DEF KeepsInv

\* Another write that leaves the fields apart is none of a set or of a move.
LEMMA OtherKeeps ==
  ASSUME KeepsInv, NEW do \in {"again", "reset", "keep"}, Step(do), UNCHANGED <<bound, call>>,
         FieldInv', DOMAIN stored' = Options, IsLine(argv')
  PROVE  KeepsInv'
<1>1. MoveInv' /\ call[1] # "set"
  BY OtherStep
<1>2. SetInv'
  BY <1>1 DEF SetInv
<1>3. TodoInv' /\ BoundInv'
  BY TodoTaken, BoundTaken DEF KeepsInv
<1> QED
  BY <1>1, <1>2, <1>3 DEF KeepsInv

LEMMA AgainNextKeeps ==
  ASSUME KeepsInv, AgainNext
  PROVE  KeepsInv'
<1> DEFINE o == Head(todo).option
           v == Head(todo).value
<1>1. /\ Step("again") /\ bound \subseteq GrammarOptions /\ FieldInv /\ IsLine(argv)
      /\ DOMAIN stored = Options /\ UNCHANGED <<bound, grammar, argv, call>>
      /\ Store(o, v) \/ UNCHANGED <<stored, field>>
  BY BoundOptions DEF AgainNext, KeepsInv, TodoInv
<1> HIDE DEF o, v
<1>2. FieldInv' /\ DOMAIN stored' = Options
  BY <1>1, StoreFields, StayedField
<1>3. IsLine(argv')
  BY <1>1
<1> QED
  BY <1>1, <1>2, <1>3, OtherKeeps

LEMMA ResetNextKeeps ==
  ASSUME KeepsInv, ResetNext
  PROVE  KeepsInv'
<1> DEFINE o == Head(todo).option
           v == Fallback(o)
<1>1. /\ Step("reset") /\ bound \subseteq GrammarOptions /\ FieldInv /\ IsLine(argv)
      /\ DOMAIN stored = Options /\ UNCHANGED <<bound, grammar, argv, call>> /\ ResetAt(o)
  BY BoundOptions DEF ResetNext, KeepsInv, TodoInv
<1> HIDE DEF o
<1>2. FieldInv'
  <2>1. CASE o \in bound /\ Fits(o, v)
    <3>1. field' = Written(field, o, v)
      BY <1>1, <2>1 DEF ResetAt
    <3> HIDE DEF v
    <3> QED
      BY <1>1, <2>1, <3>1, WrittenField
  <2>2. CASE ~(o \in bound /\ Fits(o, v))
    BY <1>1, <2>2, StayedField DEF ResetAt
  <2> QED
    BY <2>1, <2>2
<1>3. DOMAIN stored' = Options /\ IsLine(argv')
  BY <1>1 DEF ResetAt
<1> QED
  BY <1>1, <1>2, <1>3, OtherKeeps

LEMMA KeepNextKeeps ==
  ASSUME KeepsInv, KeepNext
  PROVE  KeepsInv'
<1>1. /\ Step("keep") /\ FieldInv /\ DOMAIN stored' = Options /\ IsLine(argv)
      /\ UNCHANGED <<bound, field, grammar, call>>
      /\ argv' = IF err THEN argv ELSE Head(todo).value
  BY DEF KeepNext, KeepsInv, TodoInv
<1>2. IsLine(Head(todo).value)
  <2>1. 1 \in 1..Len(todo) /\ Head(todo) = todo[1] /\ todo[1].do = "keep"
    BY <1>1, TakenHead DEF KeepsInv, TodoInv, Step, IsList
  <2> QED
    BY <2>1 DEF KeepsInv, TodoInv
<1>3. IsLine(argv')
  BY <1>1, <1>2
<1>4. FieldInv'
  BY <1>1, StayedField
<1> QED
  BY <1>1, <1>3, <1>4, OtherKeeps

LEMMA ReturnKeeps ==
  ASSUME KeepsInv, Return
  PROVE  KeepsInv'
<1>1. /\ call' = Idle /\ todo = <<>> /\ todo' = <<>>
      /\ UNCHANGED <<stored, bound, field, grammar, argv>>
  BY DEF Return
<1>2. FieldInv'
  BY <1>1, StayedField DEF KeepsInv
<1>3. TodoInv' /\ BoundInv'
  BY <1>1 DEF KeepsInv, TodoInv, BoundInv, Ahead, IsList, IsLine
<1>4. SetInv' /\ MoveInv'
  BY <1>1 DEF SetInv, MoveInv, Idle
<1> QED
  BY <1>2, <1>3, <1>4 DEF KeepsInv
-----------------------------------------------------------------------------
(***************************************************************************)
(* The move.  Each value goes back into the field that it was read from:   *)
(* when it is written, the values before it in the order of the binds are  *)
(* in their fields, and what the hooks write agrees with them.             *)
(***************************************************************************)
LEMMA MoveBegins ==
  ASSUME KeepsInv, Move
  PROVE  KeepsInv'
<1>1. /\ call' = <<"move">> /\ todo' = Binds \o <<>> /\ bound' = {} /\ err' = FALSE
      /\ before' = Values /\ stored' = Unbound /\ DOMAIN stored' = Options
      /\ UNCHANGED <<field, grammar, command, argv>> /\ call = Idle /\ bound # {}
  <2> DEFINE b == Binds
             E == {b[i] : i \in 1..4}
  <2>1. Len(b) = 4 /\ b = [i \in 1..4 |-> b[i]]
    <3>1. IsList(b) /\ Len(b) = 4
      BY BindsList
    <3> QED
      BY <3>1 DEF IsList
  <2> HIDE DEF b
  <2>2. b \in Seq(E)
    BY <2>1
  <2>3. b = b \o <<>>
    BY <2>2
  <2>4. Binds = Binds \o <<>>
    BY <2>3 DEF b
  <2> QED
    BY <2>4 DEF Move, Begin, Unbound
<1>2. /\ BoundInv' /\ IsList(todo') /\ Len(todo') = 4 /\ Ahead(0)'
      /\ \A i \in 1..Len(todo') : todo'[i].do = "bind"
  <2> DEFINE r == <<>>
  <2>1. /\ IsList(r) /\ Len(r) = 0 /\ todo' = Binds \o r
        /\ \A i \in 1..Len(r) : r[i].do # "bind"
    BY <1>1 DEF IsList
  <2> HIDE DEF r
  <2>2. /\ BoundInv' /\ IsList(todo') /\ Len(todo') = 4 + Len(r) /\ Ahead(0)'
        /\ \A i \in 1..Len(todo') : todo'[i].do \in {"bind"} \cup {r[j].do : j \in 1..Len(r)}
    BY <1>1, <2>1, AllBinds
  <2> QED
    BY <2>1, <2>2
<1>3. FieldInv'
  BY <1>1, StayedField DEF KeepsInv
<1>4. TodoInv'
  BY <1>1, <1>2 DEF KeepsInv, TodoInv, IsList, IsLine, Idle
<1>5. SetInv'
  BY <1>1 DEF SetInv
<1>6. bound = GrammarOptions
  BY <1>1, IdleBound DEF KeepsInv
<1>7. \A o \in GrammarOptions : before'[o] = field[o] /\ stored'[o] = field[o]
  BY <1>1, <1>6 DEF Values, Value, Unbound, Options
<1>8. Moved(0)'
  <2>1. Value("limit")' = before'.limit
    BY <1>1, <1>6 DEF Values, Value, Unbound, Options, GrammarOptions
  <2>2. before' = [o \in Options |-> before'[o]]
    BY <1>1 DEF Values
  <2>3. \A i \in 1..4 : BindOrder[i] \in GrammarOptions
    BY DEF BindOrder, GrammarOptions
  <2>4. \A i \in 1..4 : stored'[BindOrder[i]] = before'[BindOrder[i]]
    BY <1>7, <2>3
  <2>5. \A o \in GrammarOptions : field'[o] = before'[o]
    BY <1>1, <1>7
  <2>6. \A o \in {"enabled_guards", "start", "variants"} : field'[o] = before'[o]
    BY <2>5 DEF GrammarOptions
  <2>7. field'.variant = before'.variant
    BY <2>5 DEF GrammarOptions
  <2>8. before'.variant # NoName =>
          /\ before'.variant \in DOMAIN before'.variants
          /\ before'.variants[before'.variant] = before'.enabled_guards
    BY <1>3, <2>6, <2>7 DEF FieldInv, IInv, VariantMatches, Matches
  <2>9. bound' = FirstBinds(0)
    BY <1>1, Orders
  <2> QED
    BY <1>1, <1>2, <2>1, <2>2, <2>4, <2>6, <2>7, <2>8, <2>9 DEF Moved
<1>9. MoveInv'
  BY <1>8 DEF MoveInv
<1> QED
  BY <1>2, <1>3, <1>4, <1>5, <1>9 DEF KeepsInv

\* A bind keeps the profiles apart, in whatever call it is.
LEMMA BindFields ==
  ASSUME FieldInv, DOMAIN stored = Options, NEW o \in GrammarOptions, BindAt(o),
         UNCHANGED grammar
  PROVE  FieldInv' /\ DOMAIN stored' = Options
<1>1. CASE stored[o] = Unset
  BY <1>1, StayedField DEF BindAt
<1>2. CASE stored[o] # Unset
  BY <1>2, WriteKeeps DEF BindAt
<1> QED
  BY <1>1, <1>2 DEF BindAt

\* A value that a move took along fits, and its write gives back every field
\* that the move read, but for the name of the profile when none is selected.
LEMMA MovedFits ==
  ASSUME FieldInv, NEW k \in 0..3, Moved(k), NEW o, o = BindOrder[k+1]
  PROVE  /\ Fits(o, before[o])
         /\ \A p \in {"enabled_guards", "start", "variants"} :
              Written(field, o, before[o])[p] = before[p]
         /\ before.variant # NoName \/ k = 3 =>
              Written(field, o, before[o]).variant = before.variant
<1>1. /\ DOMAIN field = GrammarOptions /\ NoName \notin DOMAIN field.variants
      /\ AreProfiles(field.variants) /\ field.start \in grammar.symbols
  BY DEF FieldInv, IInv, AreProfiles
<1>2. /\ field.enabled_guards = before.enabled_guards /\ field.start = before.start
      /\ field.variants = before.variants
      /\ before.variant # NoName => field.variant = before.variant
      /\ before.variant # NoName =>
           /\ before.variant \in DOMAIN before.variants
           /\ before.variants[before.variant] = before.enabled_guards
  BY DEF Moved
<1>3. before.variant # NoName =>
        Select(before.variants, before.enabled_guards) = before.variant
  BY <1>1, <1>2, SelectedUnique
<1>4. CASE k = 0
  <2>1. o = "enabled_guards"
    BY <1>4, Orders
  <2> QED
    BY <1>1, <1>2, <1>3, <1>4, <2>1 DEF Written, MatchVariant, Fits, GrammarOptions
<1>5. CASE k = 1
  <2>1. o = "start"
    BY <1>5, Orders
  <2> QED
    BY <1>1, <1>2, <1>3, <1>5, <2>1 DEF Written, MatchVariant, Fits, GrammarOptions
<1>6. CASE k = 2
  <2>1. o = "variants"
    BY <1>6, Orders
  <2> QED
    BY <1>1, <1>2, <1>3, <1>6, <2>1 DEF Written, MatchVariant, Fits, GrammarOptions
<1>7. CASE k = 3
  <2>1. o = "variant"
    BY <1>7, Orders
  <2>2. CASE before.variant # NoName
    BY <1>1, <1>2, <1>3, <1>7, <2>1, <2>2 DEF Written, MatchVariant, Fits, GrammarOptions
  <2>3. CASE before.variant = NoName
    BY <1>1, <1>2, <1>7, <2>1, <2>3 DEF Written, Fits, GrammarOptions
  <2> QED
    BY <2>2, <2>3
<1> QED
  BY <1>4, <1>5, <1>6, <1>7

\* One more option of a move is bound, with the value it had.
LEMMA MovedOn ==
  ASSUME FieldInv, TodoInv, NEW k \in 0..4, Moved(k), BindNext
  PROVE  k \in 0..3 /\ Moved(k+1)'
<1> DEFINE o == BindOrder[k+1]
<1>1. /\ k \in 0..3 /\ Head(todo).option = o /\ Ahead(k+1)' /\ bound' = FirstBinds(k+1)
      /\ Len(todo) = 4 - k /\ Len(todo') = Len(todo) - 1 /\ k + 1 \in 1..4
  BY BoundBinds DEF Moved
<1>2. BindAt(o) /\ UNCHANGED <<grammar, command, before>>
  BY <1>1 DEF BindNext
<1>3. stored[o] = before[o] /\ o \in GrammarOptions /\ err = FALSE
  BY <1>1, Orders DEF Moved, BindOrder, GrammarOptions
<1> HIDE DEF o
<1>4. o = BindOrder[k+1]
  BY DEF o
<1>5. /\ Fits(o, before[o])
      /\ \A p \in {"enabled_guards", "start", "variants"} :
           Written(field, o, before[o])[p] = before[p]
      /\ before.variant # NoName \/ k = 3 =>
           Written(field, o, before[o]).variant = before.variant
  BY <1>1, <1>4, MovedFits
<1>6. /\ err' = FALSE
      /\ \A p \in {"enabled_guards", "start", "variants"} : field'[p] = before'[p]
      /\ before'.variant # NoName \/ k + 1 = 4 => field'.variant = before'.variant
  <2>1. CASE stored[o] = Unset
    <3>1. UNCHANGED <<field, err>>
      BY <1>2, <2>1 DEF BindAt
    <3>2. k = 3 => before.variant # NoName
      BY <1>3, <1>4, <2>1, Orders, InputsAssumption
    <3> QED
      BY <1>1, <1>2, <1>3, <3>1, <3>2 DEF Moved
  <2>2. CASE stored[o] # Unset
    <3>1. WriteField(o, before[o])
      BY <1>2, <1>3, <2>2 DEF BindAt
    <3>2. field' = Written(field, o, before[o]) /\ err' = err
      BY <1>5, <3>1 DEF WriteField
    <3> QED
      BY <1>1, <1>2, <1>3, <1>5, <3>2
  <2> QED
    BY <2>1, <2>2
<1>7. \A i \in 1..4 : i > k + 1 => stored'[BindOrder[i]] = before'[BindOrder[i]]
  <2> SUFFICES ASSUME NEW i \in 1..4, i > k + 1
               PROVE  stored'[BindOrder[i]] = before'[BindOrder[i]]
    OBVIOUS
  <2>1. BindOrder[i] # o /\ stored[BindOrder[i]] = before[BindOrder[i]]
    BY <1>1, <1>4, Orders DEF Moved
  <2> QED
    BY <1>2, <2>1 DEF BindAt, TodoInv
<1>8. Value("limit")' = before'.limit
  <2>1. o # "limit" /\ "limit" \notin bound
    BY <1>3, Orders DEF Moved, GrammarOptions
  <2>2. bound' = bound \cup {o} /\ stored' = [stored EXCEPT ![o] = Unset]
    BY <1>2 DEF BindAt
  <2>3. "limit" \notin bound' /\ stored'["limit"] = stored["limit"]
    BY <2>1, <2>2 DEF TodoInv, Options
  <2> QED
    BY <1>2, <2>1, <2>3 DEF Moved, Value
<1>9. /\ before'.variant # NoName =>
           /\ before'.variant \in DOMAIN before'.variants
           /\ before'.variants[before'.variant] = before'.enabled_guards
      /\ before' = [p \in Options |-> before'[p]]
  BY <1>2 DEF Moved
<1>10. Len(todo') = 4 - (k + 1)
  BY <1>1
<1> QED
  BY <1>1, <1>6, <1>7, <1>8, <1>9, <1>10 DEF Moved

LEMMA BindNextKeeps ==
  ASSUME KeepsInv, BindNext
  PROVE  KeepsInv'
<1>1. /\ Step("bind") /\ FieldInv /\ TodoInv /\ BoundInv /\ BindAt(Head(todo).option)
      /\ UNCHANGED <<grammar, command, argv, call, before>>
  BY DEF BindNext, KeepsInv
<1>2. PICK k \in 0..4 : Ahead(k) /\ (bound = FirstBinds(k) \/ (k = 4 /\ bound = {}))
  BY <1>1 DEF BoundInv
<1>3. /\ k \in 0..3 /\ Head(todo).option = BindOrder[k+1] /\ Ahead(k+1)'
      /\ bound' = FirstBinds(k+1)
  <2>1. /\ k \in 0..3 /\ Head(todo).option = BindOrder[k+1] /\ Ahead(k+1)'
        /\ bound = FirstBinds(k) => bound' = FirstBinds(k+1)
    BY <1>1, <1>2, BoundBinds
  <2> QED
    BY <1>2, <2>1
<1>4. BoundInv'
  BY <1>3 DEF BoundInv
<1>5. FieldInv' /\ DOMAIN stored' = Options
  <2>1. BindOrder[k+1] \in GrammarOptions
    BY <1>3 DEF BindOrder, GrammarOptions
  <2>2. DOMAIN stored = Options
    BY <1>1 DEF TodoInv
  <2>3. ASSUME NEW o, o = Head(todo).option PROVE FieldInv' /\ DOMAIN stored' = Options
    BY <1>1, <1>3, <2>1, <2>2, <2>3, BindFields
  <2> QED
    BY <2>3
<1>6. TodoInv'
  <2>1. IsLine(argv')
    BY <1>1 DEF TodoInv
  <2> QED
    BY <1>1, <1>5, <2>1, TodoTaken
<1>7. SetInv'
  <2>1. call[1] # "set"
    <3>1. todo # <<>> /\ Head(todo) = todo[1] /\ todo[1].do = "bind"
      BY <1>1, TakenHead DEF TodoInv, Step
    <3> QED
      BY <3>1 DEF KeepsInv, SetInv
  <2> QED
    BY <1>1, <2>1 DEF SetInv
<1>8. MoveInv'
  <2> SUFFICES ASSUME call = <<"move">> PROVE \E j \in 0..4 : Moved(j)'
    BY <1>1 DEF MoveInv
  <2>1. PICK j \in 0..4 : Moved(j)
    BY DEF KeepsInv, MoveInv
  <2>2. j \in 0..3 /\ Moved(j+1)'
    BY <1>1, <2>1, MovedOn
  <2> QED
    BY <2>2
<1> QED
  BY <1>4, <1>5, <1>6, <1>7, <1>8 DEF KeepsInv
-----------------------------------------------------------------------------
LEMMA InitKeeps == Init => KeepsInv
<1> SUFFICES ASSUME Init PROVE KeepsInv
  OBVIOUS
<1>1. /\ bound = {} /\ argv = <<>> /\ todo = <<>> /\ call = Idle /\ DOMAIN stored = Options
      /\ grammar \in Grammars /\ field = grammar.field
  BY DEF Init
<1>2. FieldInv
  BY <1>1, InitIInv, GrammarsAssumption DEF FieldInv
<1>3. TodoInv
  BY <1>1 DEF TodoInv, IsList, IsLine
<1>4. BoundInv
  BY <1>1 DEF BoundInv, Ahead
<1>5. SetInv /\ MoveInv
  BY <1>1 DEF SetInv, MoveInv, Idle
<1> QED
  BY <1>2, <1>3, <1>4, <1>5 DEF KeepsInv

LEMMA StutterKeeps ==
  ASSUME KeepsInv, UNCHANGED vars
  PROVE  KeepsInv'
BY DEF vars, KeepsInv, FieldInv, IInv, VariantMatches, AreProfiles, TodoInv, IsList, IsLine,
       BoundInv, Ahead, SetInv, Values, Value, WriteTakes, MoveInv, Moved

\* Every step keeps it.
LEMMA StepKeeps == KeepsInv /\ [Next]_vars => KeepsInv'
<1> SUFFICES ASSUME KeepsInv, [Next]_vars PROVE KeepsInv'
  OBVIOUS
<1>1. ASSUME NEW o \in Options, ResetOption(o) PROVE KeepsInv'
  <2> DEFINE l == << <<o, Unset>> >>
  <2>1. /\ Begin(<<"reset">>, Each("reset", l))
        /\ UNCHANGED <<stored, bound, field, grammar, argv>>
    BY <1>1 DEF ResetOption
  <2>2. IsLine(l)
    BY DEF IsLine
  <2> HIDE DEF l
  <2> QED
    BY <2>1, <2>2, EachKeeps
<1>2. ASSUME NEW o \in Options, NEW v \in Inputs(o), Set(o, v) PROVE KeepsInv'
  BY <1>2, SetKeeps
<1>3. ASSUME NEW e \in Environments, LoadEnv(e) PROVE KeepsInv'
  <2>1. /\ Begin(<<"env">>, Each("store", e))
        /\ UNCHANGED <<stored, bound, field, grammar, argv>>
    BY <1>3 DEF LoadEnv
  <2>2. IsLine(e)
    BY InputsAssumption
  <2> QED
    BY <2>1, <2>2, EachKeeps
<1>4. ASSUME NEW c \in Commands, NEW l \in CommandLines, ParseArgs(c, l) PROVE KeepsInv'
  <2>1. IsLine(l)
    BY InputsAssumption
  <2> QED
    BY <1>4, <2>1, ParseArgsKeeps
<1>5. CASE Reset(Tail(Catalog)) \/ Bind \/ Unbind \/ Move
  BY <1>5, ResetsKeep, BindKeeps, UnbindKeeps, MoveBegins
<1>6. ASSUME NEW g \in Grammars, Load(g) PROVE KeepsInv'
  BY <1>6, LoadKeeps
<1>7. CASE StoreNext \/ AgainNext \/ BindNext \/ ResetNext \/ KeepNext \/ Return
  BY <1>7, StoreNextKeeps, AgainNextKeeps, BindNextKeeps, ResetNextKeeps, KeepNextKeeps, ReturnKeeps
<1>8. CASE UNCHANGED vars
  BY <1>8, StutterKeeps
<1> QED
  BY <1>1, <1>2, <1>3, <1>4, <1>5, <1>6, <1>7, <1>8 DEF Next

LEMMA KeepsHold == Spec => []KeepsInv
BY InitKeeps, StepKeeps, PTL DEF Spec

\* A write without an error gives the option the value that was written, also
\* after its hook wrote other options, and one with an error changes no option
\* (options_repository::set).
THEOREM WritesTake == Spec => []WriteTakes
<1>1. KeepsInv => WriteTakes
  <2> SUFFICES ASSUME KeepsInv, call[1] = "set", todo = <<>> PROVE WriteTakes
    BY DEF WriteTakes
  <2> QED
    BY DEF KeepsInv, SetInv
<1> QED
  BY KeepsHold, <1>1, PTL

\* A grammar that moves takes every value along and reports nothing
\* (grammar(grammar&&), release_options, bind_to).
THEOREM MovesKeep == Spec => []MoveKeeps
<1>1. KeepsInv => MoveKeeps
  <2> SUFFICES ASSUME KeepsInv, call = <<"move">>, todo = <<>> PROVE Values = before /\ ~err
    BY DEF MoveKeeps
  <2>1. PICK k \in 0..4 : Moved(k)
    BY DEF KeepsInv, MoveInv
  <2>2. k = 4 /\ bound = GrammarOptions
    BY <2>1, Orders DEF Moved
  <2>3. \A o \in GrammarOptions : Value(o) = before[o]
    BY <2>1, <2>2 DEF Moved, Value, GrammarOptions
  <2>4. Value("limit") = before["limit"]
    BY <2>1 DEF Moved
  <2>5. Values = [o \in Options |-> before[o]]
    BY <2>3, <2>4 DEF Values, Options
  <2> QED
    BY <2>1, <2>5 DEF Moved
<1> QED
  BY KeepsHold, <1>1, PTL
===============================================================================
