--------------------------- MODULE GrammarOptions ---------------------------
(***************************************************************************)
(* The options repository (utility/options.h, options.tmpl.h) and a grammar*)
(* that binds its options (grammar.tmpl.h), as the tgf tool uses them.     *)
(*                                                                         *)
(* A bound option is a field of the grammar, seen through a codec that may *)
(* refuse a value, with a hook after each write; an unbound one is a value *)
(* that the repository stores.  The hooks of the group modelled here write *)
(* each other's fields: enabled-productions (enabled_guards), the profiles *)
(* of guards `variants`, and the profile that is selected, `variant`.      *)
(* `limit` stands for an option of the program that no grammar binds.      *)
(*                                                                         *)
(* A call that writes several options does it one by one: what is left of  *)
(* it is in todo, and no other call comes between.                         *)
(***************************************************************************)
EXTENDS Integers, Sequences, SequencesExt, Functions

CONSTANTS
  Commands,      \* the commands of the program
  Unset,         \* no value is stored
  NoName,        \* the empty text
  Inputs(_),     \* the values that are written to an option
  Fallback(_),   \* the default of the spec of an option
  Surface(_, _), \* the default of an option on a command, or Unset
  Grammars,      \* the grammars as their files build them
  CommandLines,  \* the options of a command line, in the order of argv
  Environments   \* the options that the environment gives, in that order

GrammarOptions == {"enabled_guards", "start", "variants", "variant"}
Options        == GrammarOptions \cup {"limit"}

\* the selected profile of the fields f is one of their profiles, and its
\* guards are enabled
Matches(f) ==
  f.variant # NoName =>
    f.variant \in DOMAIN f.variants /\ f.variants[f.variant] = f.enabled_guards

\* no two profiles share their guards, and each has a name
AreProfiles(p) == IsInjective(p) /\ NoName \notin DOMAIN p

\* A load ends with the options bound once (tgf.h, g()), so a file selects a
\* profile as the hooks do, its profiles are as the codec leaves them, and the
\* start symbol, which the constructor enters in nts, is one of the grammar.
ASSUME GrammarsAssumption ==
  \A g \in Grammars : /\ DOMAIN g.field = GrammarOptions /\ Matches(g.field)
                       /\ AreProfiles(g.field.variants) /\ g.field.start \in g.symbols

\* the values of a command line or of an environment, each with its option
IsLine(l) ==
  Len(l) \in Nat /\ DOMAIN l = 1..Len(l) /\ \A i \in DOMAIN l : l[i][1] \in Options

\* a value that is written is a value
ASSUME InputsAssumption ==
  /\ NoName # Unset /\ \A o \in Options : Unset \notin Inputs(o)
  /\ \A l \in CommandLines \cup Environments : IsLine(l)

VARIABLES
  stored,   \* values_: the stored values of the options, or Unset
  bound,    \* bindings_: the options that are fields of the grammar
  field,    \* the fields of the grammar
  grammar,  \* the grammar as it was built
  command,  \* command_: the command of the last command line
  argv,     \* the values that the tool writes again after a load
  todo,     \* what is left of the call
  err,      \* the report of the call has an error
  call,     \* the call that runs
  before    \* the values of the options when it began

vars == <<stored, bound, field, grammar, command, argv, todo, err, call, before>>

-----------------------------------------------------------------------------
(***************************************************************************)
(* match_variant, the codecs and the hooks.                                *)
(***************************************************************************)
Select(p, guards) ==
  IF \E n \in DOMAIN p : p[n] = guards
  THEN CHOOSE n \in DOMAIN p : p[n] = guards ELSE NoName

MatchVariant(f) == [f EXCEPT !.variant = Select(f.variants, f.enabled_guards)]

\* A defect the checks look for: the profiles may share their guards.
FitsAnyProfiles(o, v) ==
  CASE o = "start"   -> v \in grammar.symbols
    [] o = "variant" -> v = NoName \/ v \in DOMAIN field.variants
    [] OTHER         -> TRUE

\* from_value: a start symbol of the grammar, profiles with names of which no
\* two have the same guards, the name of a profile or the empty text
Fits(o, v) ==
  CASE o = "start"    -> v \in grammar.symbols
    [] o = "variants" -> AreProfiles(v)
    [] o = "variant"  -> v = NoName \/ v \in DOMAIN field.variants
    [] OTHER          -> TRUE

\* A defect the checks look for: a write of the profiles keeps the selection.
WrittenUnmatched(f, o, v) ==
  CASE o = "enabled_guards" -> MatchVariant([f EXCEPT ![o] = v])
    [] o = "variant" /\ v \in DOMAIN f.variants ->
         MatchVariant([f EXCEPT !.enabled_guards = f.variants[v]])
    [] OTHER -> [f EXCEPT ![o] = v]

\* the fields after a write of o and its hook; the hook of variant writes
\* enabled-productions, whose own hook runs
Written(f, o, v) ==
  CASE o \in {"enabled_guards", "variants"} -> MatchVariant([f EXCEPT ![o] = v])
    [] o = "variant" /\ v \in DOMAIN f.variants ->
         MatchVariant([f EXCEPT !.enabled_guards = f.variants[v]])
    [] OTHER -> [f EXCEPT ![o] = v]

(***************************************************************************)
(* effective, store, bind_at, reset_at.                                    *)
(***************************************************************************)
Value(o) ==
  CASE o \in bound             -> field[o]
    [] o \notin bound /\ stored[o] # Unset -> stored[o]
    [] OTHER -> IF Surface(o, command) # Unset THEN Surface(o, command) ELSE Fallback(o)

Values == [o \in Options |-> Value(o)]

\* v goes into the field of o, or is refused
WriteField(o, v) ==
  IF Fits(o, v)
  THEN field' = Written(field, o, v) /\ err' = err
  ELSE field' = field /\ err' = TRUE

Store(o, v) ==
  IF o \in bound
  THEN WriteField(o, v) /\ UNCHANGED stored
  ELSE stored' = [stored EXCEPT ![o] = v] /\ UNCHANGED <<field, err>>

\* a stored value goes into the field that is bound now
BindAt(o) ==
  /\ bound' = bound \cup {o}
  /\ stored' = [stored EXCEPT ![o] = Unset]
  /\ IF stored[o] = Unset THEN UNCHANGED <<field, err>> ELSE WriteField(o, stored[o])

\* the report of a reset is dropped
ResetAt(o) ==
  IF o \in bound
  THEN /\ field' = IF Fits(o, Fallback(o)) THEN Written(field, o, Fallback(o)) ELSE field
       /\ UNCHANGED stored
  ELSE stored' = [stored EXCEPT ![o] = Unset] /\ UNCHANGED field

-----------------------------------------------------------------------------
(***************************************************************************)
(* The calls.  Begin starts one and leaves its writes in todo.             *)
(***************************************************************************)
Idle == <<"idle">>

Begin(name, rest) ==
  /\ call = Idle
  /\ call' = name /\ todo' = rest /\ before' = Values

Each(do, s) == [i \in DOMAIN s |-> [do |-> do, option |-> s[i][1], value |-> s[i][2]]]

\* A defect the checks look for: variant is bound before the profiles.
BindOrderSwapped == <<"enabled_guards", "start", "variant", "variants">>

\* bind_to: variants before variant, for the codec of variant
BindOrder == <<"enabled_guards", "start", "variants", "variant">>

Binds == [i \in DOMAIN BindOrder |->
            [do |-> "bind", option |-> BindOrder[i], value |-> Unset]]

\* the order of the declarations
Catalog == <<"limit", "enabled_guards", "start", "variants", "variant">>

\* set, set_text
Set(o, v) ==
  /\ Begin(<<"set", o, v>>, Each("store", << <<o, v>> >>))
  /\ err' = FALSE
  /\ UNCHANGED <<stored, bound, field, grammar, command, argv>>

\* reset_option
ResetOption(o) ==
  /\ Begin(<<"reset">>, Each("reset", << <<o, Unset>> >>))
  /\ err' = FALSE
  /\ UNCHANGED <<stored, bound, field, grammar, command, argv>>

\* reset of one owner
Reset(owned) ==
  /\ Begin(<<"reset">>, Each("reset", [i \in DOMAIN owned |-> <<owned[i], Unset>>]))
  /\ err' = FALSE
  /\ UNCHANGED <<stored, bound, field, grammar, command, argv>>

\* an error leaves the other variables to be read
LoadEnv(env) ==
  /\ Begin(<<"env">>, Each("store", env))
  /\ err' = FALSE
  /\ UNCHANGED <<stored, bound, field, grammar, command, argv>>

\* nothing is written when a value does not fit the field it has now
ParseArgs(cmd, line) ==
  /\ IF \A i \in DOMAIN line : line[i][1] \in bound => Fits(line[i][1], line[i][2])
     THEN /\ Begin(<<"args">>, Each("store", line) \o
                     << [do |-> "keep", option |-> "limit", value |-> line] >>)
          /\ err' = FALSE /\ command' = cmd
     ELSE Begin(<<"args">>, <<>>) /\ err' = TRUE /\ UNCHANGED command
  /\ UNCHANGED <<stored, bound, field, grammar, argv>>

\* bind_options
Bind ==
  /\ bound = {}
  /\ Begin(<<"bind">>, Binds)
  /\ err' = FALSE
  /\ UNCHANGED <<stored, bound, field, grammar, command, argv>>

\* unbind_options
Unbound == [o \in Options |-> IF o \in bound THEN field[o] ELSE stored[o]]

Unbind ==
  /\ bound # {}
  /\ Begin(<<"unbind">>, <<>>)
  /\ stored' = Unbound /\ bound' = {} /\ err' = FALSE
  /\ UNCHANGED <<field, grammar, command, argv>>

\* the move constructor: the source unbinds, the target binds
Move ==
  /\ bound # {}
  /\ Begin(<<"move">>, Binds)
  /\ stored' = Unbound /\ bound' = {} /\ err' = FALSE
  /\ UNCHANGED <<field, grammar, command, argv>>

\* the old grammar unbinds and the options of its owner are reset
Forgotten == [o \in Options |-> IF o \in GrammarOptions THEN Unset ELSE stored[o]]

\* load_file, load_source: the grammar binds, and the values of argv are
\* written again
Load(g) ==
  /\ Begin(<<"load">>, Binds \o Each("again", argv))
  /\ stored' = Forgotten /\ bound' = {}
  /\ field' = g.field /\ grammar' = g /\ err' = FALSE
  /\ UNCHANGED <<command, argv>>

(***************************************************************************)
(* One write of the call.                                                  *)
(***************************************************************************)
Step(do) == todo # <<>> /\ Head(todo).do = do /\ todo' = Tail(todo)

StoreNext ==
  /\ Step("store")
  /\ Store(Head(todo).option, Head(todo).value)
  /\ UNCHANGED <<bound, grammar, command, argv, call, before>>

\* a load reset the options of the grammar only
AgainNext ==
  /\ Step("again")
  /\ IF Head(todo).option \in GrammarOptions
     THEN Store(Head(todo).option, Head(todo).value)
     ELSE UNCHANGED <<stored, field, err>>
  /\ UNCHANGED <<bound, grammar, command, argv, call, before>>

BindNext ==
  /\ Step("bind")
  /\ BindAt(Head(todo).option)
  /\ UNCHANGED <<grammar, command, argv, call, before>>

ResetNext ==
  /\ Step("reset")
  /\ ResetAt(Head(todo).option)
  /\ UNCHANGED <<bound, grammar, command, argv, err, call, before>>

\* the tool keeps the options of a command line without an error
KeepNext ==
  /\ Step("keep")
  /\ argv' = IF err THEN argv ELSE Head(todo).value
  /\ UNCHANGED <<stored, bound, field, grammar, command, err, call, before>>

\* the caller reads the report
Return ==
  /\ call # Idle /\ todo = <<>>
  /\ call' = Idle /\ err' = FALSE /\ before' = <<>>
  /\ UNCHANGED <<stored, bound, field, grammar, command, argv, todo>>

-----------------------------------------------------------------------------
Init ==
  /\ stored = [o \in Options |-> Unset] /\ bound = {}
  /\ grammar \in Grammars /\ field = grammar.field
  /\ command = NoName /\ argv = <<>>
  /\ todo = <<>> /\ err = FALSE /\ call = Idle /\ before = <<>>

Next ==
  \/ \E o \in Options : ResetOption(o) \/ \E v \in Inputs(o) : Set(o, v)
  \/ Reset(Tail(Catalog))
  \/ \E e \in Environments : LoadEnv(e)
  \/ \E c \in Commands, l \in CommandLines : ParseArgs(c, l)
  \/ Bind \/ Unbind \/ Move
  \/ \E g \in Grammars : Load(g)
  \/ StoreNext \/ AgainNext \/ BindNext \/ ResetNext \/ KeepNext \/ Return

Spec == Init /\ [][Next]_vars

-----------------------------------------------------------------------------
(***************************************************************************)
(* A selected profile exists and its guards are the enabled ones, through  *)
(* every order of writes, binds and resets (the hooks of grammar::bind_to).*)
(***************************************************************************)
VariantMatches == Matches(field)

(***************************************************************************)
(* A write without an error gives the option the value that was written,   *)
(* also after its hook wrote other options; with an error every option is  *)
(* as it was (options_repository::set).                                    *)
(***************************************************************************)
WriteTakes ==
  call[1] = "set" /\ todo = <<>> =>
    IF err THEN Values = before ELSE Value(call[2]) = call[3]

(***************************************************************************)
(* A grammar that moves takes every value along and reports nothing        *)
(* (grammar(grammar&&), release_options, bind_to).                         *)
(***************************************************************************)
MoveKeeps == call = <<"move">> /\ todo = <<>> => Values = before /\ ~err

(***************************************************************************)
(* What a load ends with is the grammar of the file with the values of argv*)
(* written over it: nothing of an earlier grammar, of a REPL write or of   *)
(* the environment is left (load_file, bind_grammar_options).              *)
(***************************************************************************)
LoadForgets ==
  call = <<"load">> /\ todo = <<>> =>
    LET given == SelectSeq(argv, LAMBDA a : a[1] \in GrammarOptions)
        takes(f, a) == IF a[1] = "variant" THEN a[2] \in DOMAIN f.variants \cup {NoName}
                       ELSE Fits(a[1], a[2])
    IN  /\ field = FoldLeft(LAMBDA f, a : IF takes(f, a) THEN Written(f, a[1], a[2]) ELSE f,
                            grammar.field, given)
        /\ bound = GrammarOptions
        /\ \A o \in GrammarOptions : stored[o] = Unset

(***************************************************************************)
(* "Nothing is stored on an error" (src/utility/options.h, parse_args).    *)
(***************************************************************************)
ArgsAllOrNothing ==
  call = <<"args">> /\ todo = <<>> /\ err => Values = before
=============================================================================
