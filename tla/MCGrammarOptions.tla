-------------------------- MODULE MCGrammarOptions --------------------------
(***************************************************************************)
(* Two grammars: one with two profiles of its file, the first selected, and*)
(* one without profiles that lacks the default start symbol.               *)
(***************************************************************************)
EXTENDS GrammarOptions, TLC

CONSTANTS g, h, x, y, start, other

P(n, e)   == n :> e
NoProfile == [n \in {} |-> {}]
Both      == P(x, {g}) @@ P(y, {g, h})

MCInputs(o) ==
  CASE o = "enabled_guards" -> {{h}, {g, h}}
    [] o = "start"          -> {start, other}
    [] o = "variants"       -> {P(y, {g}), P(x, {g}) @@ P(y, {g})}
    [] o = "variant"        -> {NoName, y}
    [] o = "limit"          -> {1}

MCFallback(o) ==
  CASE o = "enabled_guards" -> {}
    [] o = "start"          -> start
    [] o = "variants"       -> NoProfile
    [] o = "variant"        -> NoName
    [] o = "limit"          -> 0

MCSurface(o, c) == IF o = "limit" /\ c = "parse" THEN 3 ELSE Unset

MCGrammars ==
  { [field |-> [enabled_guards |-> {g}, start |-> start, variants |-> Both, variant |-> x],
     symbols |-> {start, other}],
    [field |-> [enabled_guards |-> {h}, start |-> other, variants |-> NoProfile, variant |-> NoName],
     symbols |-> {other}] }

\* command lines on which no option changes what another one is checked with
MCCommandLines ==
  { << <<"variant", y>>, <<"enabled_guards", {h}>> >>,
    << <<"start", start>>, <<"limit", 1>>, <<"variants", P(y, {g})>> >> }

\* profiles are given and one is selected
MCSelecting == { << <<"variants", p>>, <<"variant", n>> >> :
                   p \in {P(y, {g}), Both}, n \in {x, y} }

MCEnvironments == { << <<"limit", 1>>, <<"start", start>>, <<"variant", x>> >> }
=============================================================================
