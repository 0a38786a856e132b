------------------------- MODULE CharClassesProofs -------------------------
(***************************************************************************)
(* What a derived class remembers never gets into the index predict()      *)
(* reads, a class accepts what it remembers, its trees are those of the    *)
(* rules, and a recogniser that scans classes reads what the rules say, for*)
(* every grammar, class list and order of writes, parses and scans.        *)
(*                                                                         *)
(* The first does not look into the analysis: whatever it finds to be a    *)
(* class, the memories hold productions that are not linked, and a new     *)
(* production is one that was never linked.  The second is about what the  *)
(* analysis finds: a rule has one set of characters under the guards that  *)
(* were read, whatever other guards are enabled when it is found.  The rest*)
(* is about its rounds: what a round finds is exact in the words of the    *)
(* rules one round later.                                                  *)
(***************************************************************************)
EXTENDS CharClasses, TLAPS, FiniteSetTheorems, WellFoundedInduction

\* the productions of classes, numbered by head and character
Numbered ==
  /\ IsFiniteSet(made)
  /\ \A p \in made : p.origin = "class"
  /\ \A nt \in Nts, ch \in Chars :
        \A p \in Copies(nt, ch) : p.copy \in 1..Cardinality(Copies(nt, ch))

\* a linked class production is one of a predefined class
LinkedApart ==
  /\ unlinked \subseteq made
  /\ \A p \in linked : p.origin = "class" => p \in made \ unlinked

\* a memory of nt, with productions of P
Remembers(m, nt, S) == \A ch \in DOMAIN m : m[ch] \in Copies(nt, ch) \cap S

Memories ==
  /\ DOMAIN ps = Nts /\ DOMAIN byChar = Nts /\ DOMAIN aside = Nts
  /\ \A nt \in Nts :
       /\ Remembers(ps[nt], nt, made)
       /\ nt \in derived => Remembers(ps[nt], nt, unlinked)
       /\ Remembers(byChar[nt], nt, unlinked)
       /\ \A gs \in DOMAIN aside[nt] : Remembers(aside[nt][gs], nt, unlinked)

IInv == grammar \in Grammars /\ Numbered /\ LinkedApart /\ Memories

-----------------------------------------------------------------------------
\* The index a rebuild makes holds source productions, dynamic alternatives
\* and the class productions that are not kept apart (set_enabled_productions).
LEMMA LinkableApart ==
  ASSUME grammar \in Grammars
  PROVE  \A p \in Linkable : p.origin = "class" => p \in made \ unlinked
<1>1. \A p \in Source : p.origin = "source"
  BY SourceAssumption DEF Source
<1>2. \A e \in live : Alternative(e).origin = "dynamic"
  BY DEF Alternative, Prod
<1> QED BY <1>1, <1>2 DEF Linkable

\* The next production of a class is a new one (add_char_class_production).
LEMMA NewCopyIsNew ==
  ASSUME Numbered, NEW nt \in Nts, NEW ch \in Chars
  PROVE  /\ NewCopy(nt, ch) \notin made
         /\ NewCopy(nt, ch).origin = "class"
         /\ NewCopy(nt, ch).head = nt
         /\ NewCopy(nt, ch).conjs = {[neg |-> FALSE, lits |-> <<ch>>]}
         /\ NewCopy(nt, ch).copy = Cardinality(Copies(nt, ch)) + 1
         /\ Cardinality(Copies(nt, ch)) \in Nat
<1>1. Cardinality(Copies(nt, ch)) \in Nat
  <2>1. Copies(nt, ch) \subseteq made
    BY DEF Copies
  <2> QED BY <2>1, FS_Subset, FS_CardinalityType DEF Numbered
<1>2. /\ NewCopy(nt, ch).origin = "class"
      /\ NewCopy(nt, ch).head = nt
      /\ NewCopy(nt, ch).conjs = {[neg |-> FALSE, lits |-> <<ch>>]}
      /\ NewCopy(nt, ch).copy = Cardinality(Copies(nt, ch)) + 1
  BY DEF NewCopy, Prod
<1>3. NewCopy(nt, ch) \notin made
  <2> SUFFICES ASSUME NewCopy(nt, ch) \in made PROVE FALSE
    OBVIOUS
  <2>1. NewCopy(nt, ch) \in Copies(nt, ch)
    BY <1>2 DEF Copies
  <2>2. NewCopy(nt, ch).copy \in 1..Cardinality(Copies(nt, ch))
    BY <2>1 DEF Numbered
  <2> QED BY <1>1, <1>2, <2>2
<1> QED BY <1>1, <1>2, <1>3

\* The numbers stay exact when a production of a class is appended.
LEMMA NumberedGrows ==
  ASSUME Numbered, NEW nt \in Nts, NEW ch \in Chars, made' = made \cup {NewCopy(nt, ch)}
  PROVE  Numbered'
<1> DEFINE new == NewCopy(nt, ch)
<1>1. new \notin made /\ new.origin = "class" /\ new.head = nt
      /\ new.conjs = {[neg |-> FALSE, lits |-> <<ch>>]}
      /\ new.copy = Cardinality(Copies(nt, ch)) + 1
      /\ Cardinality(Copies(nt, ch)) \in Nat
  BY NewCopyIsNew
<1>2. IsFiniteSet(made')
  BY FS_AddElement DEF Numbered
<1>3. \A p \in made' : p.origin = "class"
  BY <1>1 DEF Numbered
<1>4. ASSUME NEW n \in Nts, NEW c \in Chars, NEW p \in Copies(n, c)'
      PROVE  p.copy \in 1..Cardinality(Copies(n, c)')
  <2>1. CASE n = nt /\ c = ch
    <3>1. Copies(nt, ch)' = Copies(nt, ch) \cup {new}
      BY <1>1 DEF Copies
    <3>2. new \notin Copies(nt, ch) /\ IsFiniteSet(Copies(nt, ch))
      <4>1. Copies(nt, ch) \subseteq made
        BY DEF Copies
      <4> QED BY <1>1, <4>1, FS_Subset DEF Numbered
    <3>3. Cardinality(Copies(nt, ch)') = Cardinality(Copies(nt, ch)) + 1
      BY <3>1, <3>2, FS_AddElement
    <3>4. p \in Copies(nt, ch) \/ p = new
      BY <2>1, <3>1
    <3>5. CASE p = new
      BY <1>1, <2>1, <3>3, <3>5
    <3>6. CASE p \in Copies(nt, ch)
      <4>1. p.copy \in 1..Cardinality(Copies(nt, ch))
        BY <3>6 DEF Numbered
      <4> QED BY <1>1, <2>1, <3>3, <4>1
    <3> QED BY <3>4, <3>5, <3>6
  <2>2. CASE ~(n = nt /\ c = ch)
    <3>1. new.head # n \/ new.conjs # {[neg |-> FALSE, lits |-> <<c>>]}
      <4>1. CASE n # nt
        BY <1>1, <4>1
      <4>2. CASE c # ch
        <5>1. [neg |-> FALSE, lits |-> <<c>>] # [neg |-> FALSE, lits |-> <<ch>>]
          BY <4>2
        <5> QED BY <1>1, <5>1
      <4> QED BY <2>2, <4>1, <4>2
    <3>2. Copies(n, c)' = Copies(n, c)
      BY <3>1 DEF Copies
    <3> QED BY <3>2 DEF Numbered
  <2> QED BY <2>1, <2>2
<1> QED BY <1>2, <1>3, <1>4 DEF Numbered

-----------------------------------------------------------------------------
\* The start: nothing is remembered (grammar::grammar).
LEMMA InitIInv == Init => IInv
<1> SUFFICES ASSUME Init PROVE IInv
  OBVIOUS
<1>1. grammar \in Grammars /\ made = {} /\ unlinked = {} /\ linked = Linkable
      /\ ps = NoCache /\ byChar = NoCache /\ aside = [nt \in Nts |-> NoMemory]
  BY DEF Init
<1>2. Numbered
  BY <1>1, FS_EmptySet DEF Numbered, Copies
<1>3. LinkedApart
  BY <1>1, LinkableApart DEF LinkedApart
<1>4. \A nt \in Nts : DOMAIN ps[nt] = {} /\ DOMAIN byChar[nt] = {}
  BY <1>1 DEF NoCache
<1>5. \A nt \in Nts : \A gs \in DOMAIN aside[nt] : DOMAIN aside[nt][gs] = {}
  BY <1>1 DEF NoMemory
<1>6. DOMAIN ps = Nts /\ DOMAIN byChar = Nts /\ DOMAIN aside = Nts
  BY <1>1 DEF NoCache
<1> QED BY <1>1, <1>2, <1>3, <1>4, <1>5, <1>6 DEF IInv, Memories, Remembers

-----------------------------------------------------------------------------
\* A memory of productions that are kept apart lasts when more are kept apart.
LEMMA RemembersMore ==
  ASSUME NEW m, NEW nt, NEW X, NEW Y, X \subseteq Y, Remembers(m, nt, X)
  PROVE  Remembers(m, nt, Y)
BY DEF Remembers

\* Whatever the analysis finds, the classes begin with memories of productions
\* that are kept apart, and the new index has none of them
\* (apply_derived_char_classes).
LEMMA ApplyKeepsApart ==
  ASSUME IInv, NEW STATE kept, NEW STATE cache,
         ApplyDerivedCharClasses(kept, cache),
         grammar' = grammar, made' = made, byChar' = byChar,
         unlinked \subseteq unlinked', unlinked' \subseteq made,
         DOMAIN kept = Nts,
         \A nt \in Nts :
           /\ Remembers(cache[nt], nt, made)
           /\ \A gs \in DOMAIN kept[nt] : Remembers(kept[nt][gs], nt, unlinked)
  PROVE  IInv'
<1>1. grammar' \in Grammars
  BY DEF IInv
<1>2. Numbered'
  BY DEF IInv, Numbered, Copies
<1>3. \A nt, ch : Copies(nt, ch)' = Copies(nt, ch)
  BY DEF Copies
<1>4. LinkedApart'
  <2>1. linked' = Linkable'
    BY DEF ApplyDerivedCharClasses
  <2>2. \A p \in Linkable' : p.origin = "class" => p \in (made \ unlinked)'
    <3>1. \A p \in Source' : p.origin = "source"
      BY <1>1, SourceAssumption DEF Source
    <3>2. \A e \in live' : Alternative(e).origin = "dynamic"
      BY DEF Alternative, Prod
    <3> QED BY <3>1, <3>2 DEF Linkable
  <2> QED BY <2>1, <2>2 DEF LinkedApart
<1>5. Memories'
  <2>1. PICK new \in Outcomes' :
          /\ fns' = new.fns
          /\ ps' = [nt \in Nts |->
                      IF nt \in DOMAIN new.fns
                      THEN Resume(cache, kept, nt, new.active[nt]) ELSE cache[nt]]
    BY DEF ApplyDerivedCharClasses
  <2>2. aside' = kept
    BY DEF ApplyDerivedCharClasses
  <2>3. ASSUME NEW nt \in Nts
        PROVE  /\ Remembers(ps[nt], nt, made)'
               /\ nt \in derived' => Remembers(ps[nt], nt, unlinked)'
    <3>1. CASE nt \in DOMAIN new.fns
      <4>1. ps'[nt] = Resume(cache, kept, nt, new.active[nt])
        BY <2>1, <3>1
      <4>2. Remembers(ps'[nt], nt, unlinked)
        BY <4>1 DEF Resume, Remembers
      <4>3. Remembers(ps'[nt], nt, unlinked') /\ Remembers(ps'[nt], nt, made)
        BY <4>2 DEF Remembers
      <4> QED BY <4>3, <1>3 DEF Remembers
    <3>2. CASE nt \notin DOMAIN new.fns
      <4>1. ps'[nt] = cache[nt] /\ nt \notin derived'
        BY <2>1, <3>2 DEF derived
      <4> QED BY <4>1, <1>3 DEF Remembers
    <3> QED BY <3>1, <3>2
  <2>4. ASSUME NEW nt \in Nts
        PROVE  /\ Remembers(byChar[nt], nt, unlinked)'
               /\ (\A gs \in DOMAIN aside[nt] : Remembers(aside[nt][gs], nt, unlinked))'
    <3>1. Remembers(byChar[nt], nt, unlinked)
      BY DEF IInv, Memories
    <3>2. Remembers(byChar[nt], nt, unlinked)'
      BY <3>1, <1>3 DEF Remembers
    <3>3. ASSUME NEW gs \in DOMAIN aside'[nt]
          PROVE  \A ch \in DOMAIN aside'[nt][gs] :
                   aside'[nt][gs][ch] \in Copies(nt, ch)' \cap unlinked'
      BY <2>2, <1>3 DEF Remembers
    <3> QED BY <3>2, <3>3 DEF Remembers
  <2>5. DOMAIN ps' = Nts /\ DOMAIN byChar' = Nts /\ DOMAIN aside' = Nts
    BY <2>1, <2>2 DEF IInv, Memories
  <2> QED BY <2>3, <2>4, <2>5 DEF Memories
<1> QED BY <1>1, <1>2, <1>4, <1>5 DEF IInv

\* What is set aside are memories of derived classes.
LEMMA SetAsideApart ==
  ASSUME IInv
  PROVE  /\ DOMAIN SetAside = Nts
         /\ \A nt \in Nts : \A gs \in DOMAIN SetAside[nt] : Remembers(SetAside[nt][gs], nt, unlinked)
<1>1. DOMAIN SetAside = Nts
  BY DEF SetAside
<1>2. ASSUME NEW nt \in Nts, NEW gs \in DOMAIN SetAside[nt]
      PROVE  Remembers(SetAside[nt][gs], nt, unlinked)
  <2>1. CASE nt \in derived
    <3>1. SetAside[nt] = [aside[nt] EXCEPT ![active[nt]] = ps[nt]]
      BY <2>1 DEF SetAside
    <3>2. gs \in DOMAIN aside[nt] /\ (SetAside[nt][gs] = ps[nt] \/ SetAside[nt][gs] = aside[nt][gs])
      BY <3>1
    <3>3. Remembers(ps[nt], nt, unlinked) /\ Remembers(aside[nt][gs], nt, unlinked)
      BY <2>1, <3>2 DEF IInv, Memories
    <3> QED BY <3>2, <3>3
  <2>2. CASE nt \notin derived
    <3>1. SetAside[nt] = aside[nt]
      BY <2>2 DEF SetAside
    <3> QED BY <3>1 DEF IInv, Memories
  <2> QED BY <2>1, <2>2
<1> QED BY <1>1, <1>2

\* A rebuild keeps the memories apart (set_enabled_productions).
LEMMA RebuildKeepsIInv ==
  ASSUME IInv, Rebuild, grammar' = grammar
  PROVE  IInv'
<1>1. UNCHANGED <<byChar, made, unlinked>> /\ ApplyDerivedCharClasses(SetAside, ps)
  BY DEF Rebuild
<1>2. unlinked \subseteq unlinked' /\ unlinked' \subseteq made
  BY <1>1 DEF IInv, LinkedApart
<1>3. \A nt \in Nts : Remembers(ps[nt], nt, made)
  BY DEF IInv, Memories
<1> QED BY <1>1, <1>2, <1>3, SetAsideApart, ApplyKeepsApart

\* What a class remembers after one more character.
LEMMA RememberAdds ==
  ASSUME NEW STATE f, DOMAIN f = Nts, NEW nt \in Nts, NEW ch, NEW STATE p
  PROVE  /\ DOMAIN Remember(f, nt, ch, p) = Nts
         /\ \A n \in Nts \ {nt} : Remember(f, nt, ch, p)[n] = f[n]
         /\ DOMAIN Remember(f, nt, ch, p)[nt] = DOMAIN f[nt] \cup {ch}
         /\ \A c \in DOMAIN f[nt] \cup {ch} :
               Remember(f, nt, ch, p)[nt][c] = IF c = ch THEN p ELSE f[nt][c]
BY DEF Remember

\* A scan remembers a production of the class, of a derived one a shared or a
\* new one that is not linked (add_char_class_production).
LEMMA ScanKeepsIInv ==
  ASSUME IInv, NEW nt \in Nts, NEW ch \in Chars, ScanCcFunction(nt, ch)
  PROVE  IInv'
<1> DEFINE new == NewCopy(nt, ch)
<1>1. /\ AddCharClassProduction(nt, ch)
      /\ grammar' = grammar /\ fns' = fns /\ aside' = aside
  BY DEF ScanCcFunction, settings
<1>2. derived' = derived
  BY <1>1 DEF derived
<1>3. CASE nt \in derived /\ ch \in DOMAIN byChar[nt]
  <2>1. ps' = Remember(ps, nt, ch, byChar[nt][ch]) /\ UNCHANGED <<byChar, made, unlinked, linked>>
    BY <1>1, <1>3 DEF AddCharClassProduction
  <2>2. \A n, c : Copies(n, c)' = Copies(n, c)
    BY <2>1 DEF Copies
  <2>3. byChar[nt][ch] \in Copies(nt, ch) \cap unlinked
    BY <1>3 DEF IInv, Memories, Remembers
  <2>4. Numbered' /\ LinkedApart'
    BY <2>1, <2>2 DEF IInv, Numbered, LinkedApart
  <2>5. Memories'
    <3>1. DOMAIN ps' = Nts /\ DOMAIN byChar' = Nts /\ DOMAIN aside' = Nts
      BY <1>1, <2>1, RememberAdds DEF IInv, Memories
    <3>2. ASSUME NEW n \in Nts, n # nt
          PROVE  ps'[n] = ps[n]
      BY <2>1, <3>2, RememberAdds DEF IInv, Memories
    <3>3. \A c \in DOMAIN ps'[nt] : ps'[nt][c] \in Copies(nt, c) \cap unlinked
      BY <1>3, <2>1, <2>3, RememberAdds DEF IInv, Memories, Remembers
    <3>4. unlinked \subseteq made
      BY DEF IInv, LinkedApart
    <3>5. ASSUME NEW n \in Nts
          PROVE  /\ Remembers(ps[n], n, made)'
                 /\ derived' = derived /\ (n \in derived => Remembers(ps[n], n, unlinked)')
                 /\ Remembers(byChar[n], n, unlinked)'
                 /\ (\A gs \in DOMAIN aside[n] : Remembers(aside[n][gs], n, unlinked))'
      <4>1. /\ Remembers(byChar[n], n, unlinked)'
            /\ (\A gs \in DOMAIN aside[n] : Remembers(aside[n][gs], n, unlinked))'
        BY <1>1, <2>1, <2>2 DEF IInv, Memories, Remembers
      <4>2. CASE n = nt
        BY <1>2, <2>1, <2>2, <3>3, <3>4, <4>1, <4>2 DEF Remembers
      <4>3. CASE n # nt
        BY <1>2, <2>1, <2>2, <3>2, <4>1, <4>3 DEF IInv, Memories, Remembers
      <4> QED BY <4>2, <4>3
    <3> QED BY <3>1, <3>5 DEF Memories
  <2> QED BY <1>1, <2>4, <2>5 DEF IInv
<1>4. CASE ~(nt \in derived /\ ch \in DOMAIN byChar[nt])
  <2>1. /\ made' = made \cup {new} /\ ps' = Remember(ps, nt, ch, new)
        /\ IF nt \in derived
           THEN /\ byChar' = Remember(byChar, nt, ch, new)
                /\ unlinked' = unlinked \cup {new} /\ linked' = linked
           ELSE linked' = linked \cup {new} /\ byChar' = byChar /\ unlinked' = unlinked
    BY <1>1, <1>4 DEF AddCharClassProduction
  <2>2. /\ new \notin made /\ new.origin = "class" /\ new.head = nt
        /\ new.conjs = {[neg |-> FALSE, lits |-> <<ch>>]}
    BY NewCopyIsNew DEF IInv
  <2>3. Numbered'
    BY <2>1, NumberedGrows DEF IInv
  <2>4. new \notin linked
    BY <2>2 DEF IInv, LinkedApart
  <2>5. LinkedApart'
    BY <2>1, <2>2, <2>4 DEF IInv, LinkedApart
  <2>6. \A n, c : Copies(n, c) \subseteq Copies(n, c)'
    BY <2>1 DEF Copies
  <2>7. new \in Copies(nt, ch)' /\ new \in made'
    BY <2>1, <2>2 DEF Copies
  <2>8. unlinked \subseteq unlinked' /\ (nt \in derived => new \in unlinked')
    BY <2>1
  <2>9. Memories'
    <3>1. DOMAIN ps' = Nts /\ DOMAIN byChar' = Nts /\ DOMAIN aside' = Nts
      BY <1>1, <2>1, RememberAdds DEF IInv, Memories
    <3>2. ASSUME NEW n \in Nts, n # nt
          PROVE  ps'[n] = ps[n] /\ byChar'[n] = byChar[n]
      BY <2>1, <3>2, RememberAdds DEF IInv, Memories
    <3>3. \A c \in DOMAIN ps'[nt] : ps'[nt][c] \in Copies(nt, c)' \cap made'
      BY <2>1, <2>6, <2>7, RememberAdds DEF IInv, Memories, Remembers
    <3>4. nt \in derived =>
            /\ \A c \in DOMAIN ps'[nt] : ps'[nt][c] \in Copies(nt, c)' \cap unlinked'
            /\ \A c \in DOMAIN byChar'[nt] : byChar'[nt][c] \in Copies(nt, c)' \cap unlinked'
      BY <2>1, <2>6, <2>7, <2>8, RememberAdds DEF IInv, Memories, Remembers
    <3>5. nt \notin derived => byChar'[nt] = byChar[nt]
      BY <2>1
    <3>6. ASSUME NEW n \in Nts
          PROVE  /\ Remembers(ps[n], n, made)'
                 /\ n \in derived => Remembers(ps[n], n, unlinked)'
                 /\ Remembers(byChar[n], n, unlinked)'
                 /\ (\A gs \in DOMAIN aside[n] : Remembers(aside[n][gs], n, unlinked))'
      <4>1. (\A gs \in DOMAIN aside[n] : Remembers(aside[n][gs], n, unlinked))'
        BY <1>1, <2>6, <2>8 DEF IInv, Memories, Remembers
      <4>2. CASE n # nt
        BY <2>1, <2>6, <2>8, <3>2, <4>1, <4>2 DEF IInv, Memories, Remembers
      <4>3. CASE n = nt
        <5>1. CASE nt \in derived
          BY <3>3, <3>4, <4>1, <4>3, <5>1 DEF Remembers
        <5>2. CASE nt \notin derived
          BY <2>6, <2>8, <3>3, <3>5, <4>1, <4>3, <5>2 DEF IInv, Memories, Remembers
        <5> QED BY <5>1, <5>2
      <4> QED BY <4>2, <4>3
    <3> QED BY <1>2, <3>1, <3>6 DEF Memories
  <2> QED BY <1>1, <2>3, <2>5, <2>9 DEF IInv
<1> QED BY <1>3, <1>4

\* A parse grows and retires alternatives that no class production is among
\* (add_dynamic_production_from, rollback_dynamic).
LEMMA ParseKeepsIInv ==
  ASSUME IInv, (\E e \in grammar.entries : Grow(e)) \/ Retire
  PROVE  IInv'
<1>1. /\ grammar' = grammar /\ fns' = fns /\ ps' = ps /\ aside' = aside
      /\ byChar' = byChar /\ made' = made /\ unlinked' = unlinked
  BY DEF Grow, Retire, classes
<1>2. \A p \in linked' : p.origin = "class" => p \in linked
  <2>1. ASSUME NEW e \in grammar.entries, Grow(e)
        PROVE  linked' = linked \cup {Alternative(e)} /\ Alternative(e).origin = "dynamic"
    BY <2>1 DEF Grow, Alternative, Prod
  <2>2. Retire => linked' \subseteq linked
    BY DEF Retire
  <2> QED BY <2>1, <2>2
<1>3. \A n, c : Copies(n, c)' = Copies(n, c)
  BY <1>1 DEF Copies
<1>4. Numbered' /\ LinkedApart'
  BY <1>1, <1>2, <1>3 DEF IInv, Numbered, LinkedApart
<1>5. Memories'
  BY <1>1, <1>3 DEF IInv, Memories, Remembers, derived
<1> QED BY <1>1, <1>4, <1>5 DEF IInv

\* New classes forget every memory, and all their productions are kept apart
\* (the hook of char-classes, drop_char_class_caches).
LEMMA ClassesKeepIInv ==
  ASSUME IInv, NEW c \in ClassLists, WriteClasses(c)
  PROVE  IInv'
<1>1. /\ grammar' = grammar /\ made' = made /\ byChar' = byChar
      /\ unlinked' = unlinked \cup made
      /\ ApplyDerivedCharClasses(Dropped, NoCache)
  BY DEF WriteClasses
<1>2. unlinked \subseteq unlinked' /\ unlinked' \subseteq made
  BY <1>1 DEF IInv, LinkedApart
<1>3. DOMAIN Dropped = Nts
  BY DEF Dropped
<1>4. ASSUME NEW nt \in Nts
      PROVE  /\ Remembers(NoCache[nt], nt, made)
             /\ \A gs \in DOMAIN Dropped[nt] : Remembers(Dropped[nt][gs], nt, unlinked)
  <2>1. DOMAIN NoCache[nt] = {}
    BY DEF NoCache
  <2>2. \A gs \in DOMAIN Dropped[nt] : DOMAIN Dropped[nt][gs] = {}
    BY DEF Dropped, NoMemory
  <2> QED BY <2>1, <2>2 DEF Remembers
<1> QED BY <1>1, <1>2, <1>3, <1>4, ApplyKeepsApart

-----------------------------------------------------------------------------
\* Every write, every parse and every scan keeps the memories apart from the
\* index.
LEMMA NextKeepsIInv == IInv /\ [Next]_vars => IInv'
<1> SUFFICES ASSUME IInv, [Next]_vars PROVE IInv'
  OBVIOUS
<1>1. ASSUME NEW gs \in SUBSET Guards, SetEnabledProductions(gs) PROVE IInv'
  BY <1>1, RebuildKeepsIInv DEF SetEnabledProductions
<1>2. ASSUME NEW b \in BOOLEAN, DeriveCharClasses(b) PROVE IInv'
  BY <1>2, RebuildKeepsIInv DEF DeriveCharClasses
<1>3. ASSUME NEW s \in Starts, WriteStart(s) PROVE IInv'
  BY <1>3, RebuildKeepsIInv DEF WriteStart
<1>4. ASSUME NEW c \in ClassLists, WriteClasses(c) PROVE IInv'
  BY <1>4, ClassesKeepIInv
<1>5. ASSUME NEW e \in grammar.entries, AddDynamic(e) PROVE IInv'
  BY <1>5, RebuildKeepsIInv DEF AddDynamic
<1>6. ASSUME NEW e \in grammar.entries, Grow(e) PROVE IInv'
  BY <1>6, ParseKeepsIInv
<1>7. CASE ClearDynamic
  BY <1>7, RebuildKeepsIInv DEF ClearDynamic
<1>8. CASE Retire
  BY <1>8, ParseKeepsIInv
<1>9. ASSUME NEW children \in grammar.parsers, NewParser(children) PROVE IInv'
  BY <1>9, RebuildKeepsIInv DEF NewParser
<1>10. ASSUME NEW nt \in Nts, NEW ch \in Chars, ScanCcFunction(nt, ch) PROVE IInv'
  BY <1>10, ScanKeepsIInv
<1>11. CASE UNCHANGED vars
  <2>1. \A n, c : Copies(n, c)' = Copies(n, c)
    BY <1>11 DEF vars, Copies
  <2>2. /\ grammar' = grammar /\ made' = made /\ unlinked' = unlinked /\ linked' = linked
        /\ fns' = fns /\ ps' = ps /\ aside' = aside /\ byChar' = byChar
    BY <1>11 DEF vars, settings, classes
  <2>3. Numbered' /\ LinkedApart'
    BY <2>1, <2>2 DEF IInv, Numbered, LinkedApart
  <2>4. Memories'
    BY <2>1, <2>2 DEF IInv, Memories, Remembers, derived
  <2> QED BY <2>2, <2>3, <2>4 DEF IInv
<1> QED BY <1>1, <1>2, <1>3, <1>4, <1>5, <1>6, <1>7, <1>8, <1>9, <1>10, <1>11 DEF Next

\* What is remembered for derived classes is in no index that predict() reads:
\* a class that is switched off, renamed or rejected later leaves no
\* alternative behind, for every grammar and every order of writes and scans.
THEOREM RememberedNeverLinked == Spec => []NeverLinked
<1>1. IInv => NeverLinked
  <2> SUFFICES ASSUME IInv PROVE NeverLinked
    OBVIOUS
  <2>1. linked \cap unlinked = {}
    <3>1. \A p \in unlinked : p.origin = "class"
      BY DEF IInv, LinkedApart, Numbered
    <3> QED BY <3>1 DEF IInv, LinkedApart
  <2>2. \A nt \in Nts \cap derived : Range(ps[nt]) \subseteq unlinked
    BY DEF IInv, Memories, Remembers, Range
  <2>3. \A nt \in Nts : \A ch \in DOMAIN ps[nt] : ps[nt][ch] \in Copies(nt, ch)
    BY DEF IInv, Memories, Remembers
  <2> QED BY <2>1, <2>2, <2>3 DEF NeverLinked
<1> QED BY <1>1, InitIInv, NextKeepsIInv, PTL DEF Spec
-----------------------------------------------------------------------------
(***************************************************************************)
(* What a memory holds.  A memory outlives the analysis it was filled      *)
(* under, so what it may hold is said without one: nt has the characters   *)
(* cs under the guards gs when a derivation says so, in which each rule is *)
(* read from the productions of those guards.                              *)
(***************************************************************************)
RulesUnder(nt, gs) == {p \in grammar.source : p.head = nt /\ p.guard \in gs \cup {None}}

\* the characters of a literal, when the rules of H are known
HasChars(H, l, cs) ==
  \/ l \in Chars /\ cs = {l}
  \/ l \notin Chars /\ l \in DOMAIN cls /\ cs = cls[l]
  \/ l \notin Chars /\ l \notin DOMAIN cls /\ <<l, cs>> \in H

Follows(nt, cs, H, gs) ==
  \E val :
    /\ \A p \in RulesUnder(nt, gs) : \A c \in p.conjs : HasChars(H, c.lits[1], val[c.lits[1]])
    /\ cs = UNION {{ch \in Chars : \A c \in p.conjs : ch \in val[c.lits[1]] <=> ~c.neg} :
                     p \in RulesUnder(nt, gs)}

Derivation(h, k, gs) ==
  /\ h[0] = {}
  /\ \A i \in 1..k : \A x \in h[i] : \E nt, cs : x = <<nt, cs>> /\ Follows(nt, cs, h[i-1], gs)

Accepted(nt, gs, cs) == \E k \in Nat : \E h : Derivation(h, k, gs) /\ <<nt, cs>> \in h[k]

\* a literal has one set of characters
Agree(H, I) == \A l, b, d : <<l, b>> \in H /\ <<l, d>> \in I => b = d

\* Where the literals have one set each, a rule has one.
LEMMA FollowsOnce ==
  ASSUME NEW H, NEW I, Agree(H, I), NEW gs, NEW nt, NEW b, NEW d,
         Follows(nt, b, H, gs), Follows(nt, d, I, gs)
  PROVE  b = d
<1> DEFINE P == RulesUnder(nt, gs)
           Read(val) == UNION {{ch \in Chars : \A c \in p.conjs : ch \in val[c.lits[1]] <=> ~c.neg} :
                               p \in P}
<1>1. PICK v : /\ \A p \in P : \A c \in p.conjs : HasChars(H, c.lits[1], v[c.lits[1]])
               /\ b = Read(v)
  BY DEF Follows
<1>2. PICK w : /\ \A p \in P : \A c \in p.conjs : HasChars(I, c.lits[1], w[c.lits[1]])
               /\ d = Read(w)
  BY DEF Follows
<1> HIDE DEF P
<1>3. ASSUME NEW p \in P, NEW c \in p.conjs PROVE v[c.lits[1]] = w[c.lits[1]]
  <2>1. HasChars(H, c.lits[1], v[c.lits[1]]) /\ HasChars(I, c.lits[1], w[c.lits[1]])
    <3> HIDE DEF Read
    <3> QED BY <1>1, <1>2, <1>3, Zenon
  <2> DEFINE l == c.lits[1]
  <2>2. HasChars(H, l, v[l]) /\ HasChars(I, l, w[l])
    BY <2>1
  <2> HIDE DEF l
  <2>3. CASE l \notin Chars /\ l \notin DOMAIN cls
    <3>1. <<l, v[l]>> \in H /\ <<l, w[l]>> \in I
      BY <2>2, <2>3, Zenon DEF HasChars
    <3>2. v[l] = w[l]
      BY <3>1, Zenon DEF Agree
    <3> QED BY <3>2 DEF l
  <2>4. CASE l \in Chars
    <3>1. v[l] = {l} /\ w[l] = {l}
      BY <2>2, <2>4, Zenon DEF HasChars
    <3> QED BY <3>1 DEF l
  <2>5. CASE l \notin Chars /\ l \in DOMAIN cls
    <3>1. v[l] = cls[l] /\ w[l] = cls[l]
      BY <2>2, <2>5, Zenon DEF HasChars
    <3> QED BY <3>1 DEF l
  <2> QED BY <2>3, <2>4, <2>5
<1>4. ASSUME NEW p \in P
      PROVE  {ch \in Chars : \A c \in p.conjs : ch \in v[c.lits[1]] <=> ~c.neg}
               = {ch \in Chars : \A c \in p.conjs : ch \in w[c.lits[1]] <=> ~c.neg}
  BY <1>3, <1>4
<1> QED BY <1>1, <1>2, <1>4

Below == {r \in Nat \X Nat : r[1] < r[2]}

\* Induction, from the least element that is left out.
LEMMA NatSetInduction ==
  ASSUME NEW N, 0 \in N, \A k \in Nat : k \in N => k + 1 \in N
  PROVE  Nat \subseteq N
<1>1. IsWellFoundedOn(Below, Nat)
  BY NatLessThanWellFounded, Zenon DEF OpToRel, Below
<1>2. SUFFICES ASSUME Nat \ N # {} PROVE FALSE
  OBVIOUS
<1>3. Nat \ N \subseteq Nat
  OBVIOUS
<1>4. PICK m \in Nat \ N : \A k \in Nat \ N : ~(<<k, m>> \in Below)
  BY <1>1, <1>2, <1>3, WFMin, Zenon
<1>5. m \in Nat /\ m # 0 /\ m - 1 \in Nat /\ m - 1 < m /\ (m - 1) + 1 = m
  BY <1>4
<1>6. <<m - 1, m>> \in Below
  BY <1>5 DEF Below
<1> QED
  BY <1>4, <1>5, <1>6

\* Two derivations under the same guards agree.
LEMMA DerivationsAgree ==
  ASSUME NEW gs, NEW k \in Nat, NEW m \in Nat, NEW h, NEW g, Derivation(h, k, gs), Derivation(g, m, gs)
  PROVE  Agree(h[k], g[m])
<1> DEFINE N == {i \in Nat : i <= k => \A j \in 0..m : Agree(h[i], g[j])}
<1>1. 0 \in N
  BY DEF Derivation, Agree
<1>2. ASSUME NEW i \in Nat, i \in N PROVE i + 1 \in N
  <2>1. SUFFICES ASSUME i + 1 <= k, NEW j \in 0..m PROVE Agree(h[i + 1], g[j])
    BY <1>2
  <2>2. CASE j = 0
    BY <2>2 DEF Derivation, Agree
  <2>3. CASE j # 0
    <3>1. i + 1 \in 1..k /\ (i + 1) - 1 = i /\ j \in 1..m /\ j - 1 \in 0..m
      BY <1>2, <2>1, <2>3
    <3>2. Agree(h[i], g[j-1])
      BY <1>2, <2>1, <3>1
    <3>3. ASSUME NEW l, NEW b, NEW d, <<l, b>> \in h[i + 1], <<l, d>> \in g[j] PROVE b = d
      <4>1. Follows(l, b, h[i], gs)
        BY <3>1, <3>3 DEF Derivation
      <4>2. Follows(l, d, g[j-1], gs)
        BY <3>1, <3>3 DEF Derivation
      <4> QED BY <3>2, <4>1, <4>2, FollowsOnce
    <3> QED BY <3>3 DEF Agree
  <2> QED BY <2>2, <2>3
<1>3. Nat \subseteq N
  <2> HIDE DEF N
  <2> QED BY <1>1, <1>2, NatSetInduction
<1> QED BY <1>3

\* A rule has one set of characters under a state of the guards, whatever else
\* was enabled when it was found (cc_ps_states_ keeps one memory for both).
LEMMA AcceptedOnce ==
  ASSUME NEW nt, NEW gs, NEW b, NEW d, Accepted(nt, gs, b), Accepted(nt, gs, d)
  PROVE  b = d
<1>1. PICK k \in Nat : \E h : Derivation(h, k, gs) /\ <<nt, b>> \in h[k]
  BY DEF Accepted
<1>2. PICK m \in Nat : \E g : Derivation(g, m, gs) /\ <<nt, d>> \in g[m]
  BY DEF Accepted
<1>3. PICK h : Derivation(h, k, gs) /\ <<nt, b>> \in h[k]
  BY <1>1
<1>4. PICK g : Derivation(g, m, gs) /\ <<nt, d>> \in g[m]
  BY <1>2
<1> QED BY <1>3, <1>4, DerivationsAgree DEF Agree
-----------------------------------------------------------------------------
\* a round of the analysis
AnalysisStep(rules, a) ==
  {r \in {SingleCharRule(a, nt) : nt \in Ready(rules, a)} : r.nodes =< MaxNodes}

\* h holds the first k rounds
IsRounds(h, k, rules) ==
  /\ h = [i \in 0..k |-> h[i]] /\ h[0] = {}
  /\ \A i \in 1..k : h[i] = AnalysisStep(rules, h[i-1])

\* As many rounds as are asked for.
LEMMA RoundsExist ==
  ASSUME NEW rules
  PROVE  \A k \in Nat : \E h : IsRounds(h, k, rules)
<1> DEFINE N == {k \in Nat : \E h : IsRounds(h, k, rules)}
<1>1. 0 \in N
  <2>1. IsRounds([i \in 0..0 |-> {}], 0, rules)
    BY DEF IsRounds
  <2> QED BY <2>1
<1>2. ASSUME NEW k \in Nat, k \in N PROVE k + 1 \in N
  <2>1. PICK h : IsRounds(h, k, rules)
    BY <1>2
  <2> DEFINE g == [i \in 0..(k+1) |-> IF i <= k THEN h[i] ELSE AnalysisStep(rules, h[k])]
  <2>2. g[0] = {} /\ g = [i \in 0..(k+1) |-> g[i]]
    BY <1>2, <2>1 DEF IsRounds
  <2>3. ASSUME NEW i \in 1..(k+1) PROVE g[i] = AnalysisStep(rules, g[i-1])
    <3>1. CASE i <= k
      <4>1. i \in 1..k /\ i - 1 <= k /\ i - 1 \in 0..(k+1)
        BY <1>2, <2>3, <3>1
      <4>2. g[i] = h[i] /\ g[i-1] = h[i-1]
        BY <3>1, <4>1
      <4>3. h[i] = AnalysisStep(rules, h[i-1])
        BY <2>1, <4>1 DEF IsRounds
      <4> QED BY <4>2, <4>3
    <3>2. CASE i = k + 1
      BY <1>2, <3>2
    <3> QED BY <1>2, <2>3, <3>1, <3>2
  <2>4. IsRounds(g, k + 1, rules)
    <3> HIDE DEF g
    <3> QED BY <2>2, <2>3 DEF IsRounds
  <2> QED BY <1>2, <2>4
<1>3. Nat \subseteq N
  <2> HIDE DEF N
  <2> QED BY <1>1, <1>2, NatSetInduction
<1> QED BY <1>3

\* More rounds begin with the same ones.
LEMMA RoundsAgree ==
  ASSUME NEW rules, NEW k \in Nat, NEW g, NEW h, IsRounds(g, k, rules), IsRounds(h, k + 1, rules)
  PROVE  g[k] = h[k]
<1> DEFINE N == {i \in Nat : i <= k => g[i] = h[i]}
<1>1. 0 \in N
  BY DEF IsRounds
<1>2. ASSUME NEW i \in Nat, i \in N PROVE i + 1 \in N
  <2>1. SUFFICES ASSUME i + 1 <= k PROVE g[i + 1] = h[i + 1]
    BY <1>2
  <2>2. i + 1 \in 1..k /\ i + 1 \in 1..(k+1) /\ (i + 1) - 1 = i /\ g[i] = h[i]
    BY <1>2, <2>1
  <2>3. g[i + 1] = AnalysisStep(rules, g[(i+1)-1]) /\ h[i + 1] = AnalysisStep(rules, h[(i+1)-1])
    BY <2>2 DEF IsRounds
  <2> QED BY <2>2, <2>3
<1>3. Nat \subseteq N
  <2> HIDE DEF N
  <2> QED BY <1>1, <1>2, NatSetInduction
<1> QED BY <1>3

\* The analysis ends with one of its rounds.
LEMMA AnalysisIsRound ==
  ASSUME NEW rules
  PROVE  /\ Cardinality(Nts) \in Nat
         /\ \E h : IsRounds(h, Cardinality(Nts), rules) /\ AnalysisOf(rules) = h[Cardinality(Nts)]
<1> DEFINE IsF(f) == f = [k \in Nat |-> IF k = 0 THEN {}
                                       ELSE UNION {AnalysisStep(rules, y) : y \in {f[k-1]}}]
           H(k) == CHOOSE h : IsRounds(h, k, rules)
           F == [k \in Nat |-> H(k)[k]]
           f == CHOOSE x : IsF(x)
           m == Cardinality(Nts)
<1>1. AnalysisOf(rules) = f[m]
  BY DEF AnalysisOf, Rounds, AnalysisStep
<1>2. m \in Nat
  BY NamesAssumption, FS_CardinalityType
<1>3. \A k \in Nat : IsRounds(H(k), k, rules)
  BY RoundsExist
<1> HIDE DEF H
<1>4. ASSUME NEW k \in Nat PROVE F[k + 1] = AnalysisStep(rules, F[k])
  <2>1. IsRounds(H(k), k, rules) /\ IsRounds(H(k + 1), k + 1, rules)
    BY <1>3, <1>4
  <2>2. H(k)[k] = H(k + 1)[k]
    BY <1>4, <2>1, RoundsAgree
  <2>3. H(k + 1)[k + 1] = AnalysisStep(rules, H(k + 1)[(k + 1) - 1])
    BY <1>4, <2>1 DEF IsRounds
  <2>4. F[k + 1] = H(k + 1)[k + 1] /\ F[k] = H(k)[k] /\ (k + 1) - 1 = k
    BY <1>4
  <2> HIDE DEF F
  <2> QED BY <2>2, <2>3, <2>4
<1>5. F[0] = {}
  BY <1>3 DEF IsRounds
<1>6. IsF(F)
  <2> DEFINE G == [k \in Nat |-> IF k = 0 THEN {} ELSE UNION {AnalysisStep(rules, y) : y \in {F[k-1]}}]
  <2>1. ASSUME NEW k \in Nat PROVE F[k] = G[k]
    <3>1. CASE k = 0
      BY <1>5, <3>1
    <3>2. CASE k # 0
      <4>1. k - 1 \in Nat /\ (k - 1) + 1 = k
        BY <2>1, <3>2
      <4>2. F[k] = AnalysisStep(rules, F[k-1])
        <5> HIDE DEF F
        <5> QED BY <1>4, <4>1
      <4> HIDE DEF F
      <4>3. UNION {AnalysisStep(rules, y) : y \in {F[k-1]}} = AnalysisStep(rules, F[k-1])
        OBVIOUS
      <4> QED BY <2>1, <3>2, <4>2, <4>3
    <3> QED BY <3>1, <3>2
  <2>2. F = [k \in Nat |-> F[k]] /\ G = [k \in Nat |-> G[k]]
    OBVIOUS
  <2>3. F = G
    <3> HIDE DEF F, G
    <3> QED BY <2>1, <2>2
  <2> QED BY <2>3
<1>7. IsF(f)
  <2> HIDE DEF F, IsF
  <2> QED BY <1>6
<1>8. f[0] = {} /\ \A k \in Nat : f[k + 1] = AnalysisStep(rules, f[k])
  <2> HIDE DEF f
  <2>1. f[0] = {}
    BY <1>7
  <2>2. ASSUME NEW k \in Nat PROVE f[k + 1] = AnalysisStep(rules, f[k])
    <3>1. k + 1 \in Nat /\ k + 1 # 0 /\ (k + 1) - 1 = k
      BY <2>2
    <3>2. f[k + 1] = UNION {AnalysisStep(rules, y) : y \in {f[(k + 1) - 1]}}
      BY <1>7, <3>1
    <3>3. f[k + 1] = UNION {AnalysisStep(rules, y) : y \in {f[k]}}
      BY <3>1, <3>2
    <3> QED BY <3>3
  <2> QED BY <2>1, <2>2
<1> HIDE DEF f, F, IsF
<1> DEFINE h == [i \in 0..m |-> f[i]]
<1>9. h = [i \in 0..m |-> h[i]] /\ h[0] = {} /\ h[m] = f[m]
  BY <1>2, <1>8
<1>10. ASSUME NEW i \in 1..m PROVE h[i] = AnalysisStep(rules, h[i-1])
  <2>1. i - 1 \in Nat /\ (i - 1) + 1 = i /\ i \in 0..m /\ i - 1 \in 0..m
    BY <1>2, <1>10
  <2>2. f[i] = AnalysisStep(rules, f[i-1])
    BY <1>8, <2>1
  <2> QED BY <2>1, <2>2
<1> HIDE DEF h
<1>11. IsRounds(h, m, rules)
  BY <1>9, <1>10 DEF IsRounds
<1> QED BY <1>1, <1>2, <1>9, <1>11
-----------------------------------------------------------------------------
\* what is found is derived under the guards it names
FoundRight(a) == \A r \in a : r.nt \in Walkables /\ r.guards \subseteq enabled

\* What the walk enters is a rule, and each of its conjuncts one literal.
LEMMA WalkablesApart ==
  ASSUME NEW nt \in Walkables
  PROVE  /\ nt \in Nts /\ nt \notin Chars /\ nt \notin DOMAIN cls
         /\ \A p \in SourceOf(nt) : \A c \in p.conjs : Len(c.lits) = 1
BY NamesAssumption DEF Walkables, Walkable

\* What is known of a literal is of that literal.
LEMMA InfoFacts ==
  ASSUME cls \in ClassLists, NEW a, FoundRight(a), NEW l, Known(a, l)
  PROVE  \/ l \in Chars /\ Info(a, l) = Leaf({l})
         \/ l \notin Chars /\ l \in DOMAIN cls /\ Info(a, l) = Leaf(cls[l])
         \/ l \notin Chars /\ l \notin DOMAIN cls /\ Info(a, l) \in a /\ Info(a, l).nt = l
<1>1. \A x \in DOMAIN cls : x \notin Chars
  BY NamesAssumption
<1>2. CASE l \in Chars
  BY <1>1, <1>2 DEF Info
<1>3. CASE l \in DOMAIN cls
  BY <1>1, <1>3 DEF Info
<1>4. CASE l \notin Chars /\ l \notin DOMAIN cls
  <2>1. \E r \in a : r.nt = l
    BY <1>4 DEF Known, IsLeaf, Found
  <2>2. Info(a, l) = CHOOSE r \in a : r.nt = l
    BY <1>4 DEF Info
  <2> QED BY <1>4, <2>1, <2>2
<1> QED BY <1>2, <1>3, <1>4

\* A rule is found out with what its productions say (single_char_rule).
LEMMA StepIs ==
  ASSUME NEW a, NEW r \in AnalysisStep(Walkables, a)
  PROVE  /\ r.nt \in Walkables /\ r.guards = GuardsOf(a, r.nt)
         /\ r.chars = UNION {Accepts(a, p) : p \in SourceOf(r.nt)}
         /\ \A p \in SourceOf(r.nt) : \A l \in Symbols(p) : Known(a, l)
<1>1. PICK nt \in Ready(Walkables, a) : r = SingleCharRule(a, nt)
  BY DEF AnalysisStep
<1> QED BY <1>1 DEF SingleCharRule, Ready

\* A round finds rules that are read under enabled guards only.
LEMMA StepRight ==
  ASSUME cls \in ClassLists, NEW a, FoundRight(a)
  PROVE  FoundRight(AnalysisStep(Walkables, a))
<1> SUFFICES ASSUME NEW r \in AnalysisStep(Walkables, a), NEW x \in r.guards
             PROVE  x \in enabled
  BY StepIs DEF FoundRight
<1>1. x \in GuardsOf(a, r.nt)
  BY StepIs
<1>2. CASE x \in {p.guard : p \in SourceOf(r.nt)} \ {None}
  BY <1>2 DEF SourceOf, Source, On
<1>3. ASSUME NEW p \in SourceOf(r.nt), NEW l \in Symbols(p), x \in Info(a, l).guards
      PROVE  x \in enabled
  <2>1. Known(a, l)
    BY <1>3, StepIs
  <2>2. Info(a, l) \in a
    BY <1>3, <2>1, InfoFacts DEF Leaf
  <2> QED BY <1>3, <2>2 DEF FoundRight
<1> QED BY <1>1, <1>2, <1>3 DEF GuardsOf

\* what is known under the guards gs
Under(a, gs) == {<<r.nt, r.chars>> : r \in {x \in a : x.guards \subseteq gs}}

\* A round derives a rule from the rules of the round before that need no
\* other guards.
LEMMA StepFollows ==
  ASSUME grammar \in Grammars, cls \in ClassLists, NEW a, FoundRight(a), NEW gs \in SUBSET enabled,
         NEW r \in AnalysisStep(Walkables, a), r.guards \subseteq gs
  PROVE  Follows(r.nt, r.chars, Under(a, gs), gs)
<1> DEFINE P == SourceOf(r.nt)
           L == UNION {Symbols(p) : p \in P}
           val == [l \in L |-> Info(a, l).chars]
<1>1. GuardsOf(a, r.nt) \subseteq gs /\ r.nt \in Walkables
  BY StepIs
<1>2. RulesUnder(r.nt, gs) = P
  <2>1. ASSUME NEW p \in P PROVE p \in RulesUnder(r.nt, gs)
    BY <1>1, <2>1 DEF GuardsOf, SourceOf, Source, RulesUnder
  <2>2. ASSUME NEW p \in RulesUnder(r.nt, gs) PROVE p \in P
    BY <2>2 DEF SourceOf, Source, RulesUnder, On
  <2> HIDE DEF P
  <2> QED BY <2>1, <2>2
<1>3. ASSUME NEW p \in P, NEW c \in p.conjs
      PROVE  c.lits[1] \in L /\ c.lits[1] \in Symbols(p)
  <2>1. Len(c.lits) = 1 /\ DOMAIN c.lits = 1..Len(c.lits)
    BY <1>1, <1>3, WalkablesApart, SourceAssumption DEF SourceOf, Source
  <2>2. c.lits[1] \in Range(c.lits)
    BY <2>1 DEF Range
  <2> QED BY <1>3, <2>2 DEF Symbols
<1>4. ASSUME NEW l \in L PROVE HasChars(Under(a, gs), l, Info(a, l).chars)
  <2>1. PICK p \in P : l \in Symbols(p)
    BY <1>4
  <2>2. Known(a, l)
    BY <2>1, StepIs
  <2>3. Info(a, l).guards \subseteq GuardsOf(a, r.nt)
    BY <2>1 DEF GuardsOf
  <2>4. CASE l \in Chars /\ Info(a, l) = Leaf({l})
    BY <2>4 DEF HasChars, Leaf
  <2>5. CASE l \notin Chars /\ l \in DOMAIN cls /\ Info(a, l) = Leaf(cls[l])
    BY <2>5 DEF HasChars, Leaf
  <2>6. CASE l \notin Chars /\ l \notin DOMAIN cls /\ Info(a, l) \in a /\ Info(a, l).nt = l
    <3>1. <<l, Info(a, l).chars>> \in Under(a, gs)
      BY <1>1, <2>3, <2>6 DEF Under
    <3> QED BY <2>6, <3>1 DEF HasChars
  <2> QED BY <2>2, <2>4, <2>5, <2>6, InfoFacts
<1>5. ASSUME NEW p \in P, NEW c \in p.conjs
      PROVE  HasChars(Under(a, gs), c.lits[1], val[c.lits[1]])
  <2>1. val[c.lits[1]] = Info(a, c.lits[1]).chars
    BY <1>3, <1>5
  <2>2. HasChars(Under(a, gs), c.lits[1], Info(a, c.lits[1]).chars)
    BY <1>3, <1>4, <1>5
  <2> QED BY <2>1, <2>2
<1>6. ASSUME NEW p \in P
      PROVE  Accepts(a, p) = {ch \in Chars : \A c \in p.conjs : ch \in val[c.lits[1]] <=> ~c.neg}
  <2>1. \A c \in p.conjs : val[c.lits[1]] = Info(a, c.lits[1]).chars
    BY <1>3, <1>6
  <2> HIDE DEF val
  <2> QED BY <2>1 DEF Accepts
<1>7. r.chars = UNION {{ch \in Chars : \A c \in p.conjs : ch \in val[c.lits[1]] <=> ~c.neg} : p \in P}
  <2>1. r.chars = UNION {Accepts(a, p) : p \in P}
    BY StepIs
  <2> HIDE DEF val, P
  <2> QED BY <1>6, <2>1
<1> HIDE DEF val, P
<1> QED BY <1>2, <1>5, <1>7 DEF Follows

\* What the analysis finds has a derivation under the guards it was read from.
LEMMA AnalysisAccepted ==
  ASSUME grammar \in Grammars, cls \in ClassLists, NEW r \in AnalysisOf(Walkables)
  PROVE  r.nt \in Walkables /\ Accepted(r.nt, r.guards, r.chars)
<1>1. PICK k \in Nat : \E h : IsRounds(h, k, Walkables) /\ AnalysisOf(Walkables) = h[k]
  BY AnalysisIsRound
<1>2. PICK h : IsRounds(h, k, Walkables) /\ AnalysisOf(Walkables) = h[k]
  BY <1>1
<1> DEFINE N == {i \in Nat : i <= k => FoundRight(h[i])}
<1>3. 0 \in N
  BY <1>2 DEF IsRounds, FoundRight
<1>4. ASSUME NEW i \in Nat, i \in N PROVE i + 1 \in N
  <2>1. SUFFICES ASSUME i + 1 <= k PROVE FoundRight(h[i + 1])
    BY <1>4
  <2>2. i + 1 \in 1..k /\ (i + 1) - 1 = i /\ FoundRight(h[i])
    BY <1>4, <2>1
  <2>3. h[i + 1] = AnalysisStep(Walkables, h[(i + 1) - 1])
    BY <1>2, <2>2 DEF IsRounds
  <2> QED BY <2>2, <2>3, StepRight
<1>5. Nat \subseteq N
  <2> HIDE DEF N
  <2> QED BY <1>3, <1>4, NatSetInduction
<1>6. \A i \in 0..k : FoundRight(h[i])
  BY <1>5
<1>7. r \in h[k] /\ r.nt \in Walkables /\ r.guards \in SUBSET enabled
  BY <1>2, <1>6 DEF FoundRight
<1> DEFINE g == [i \in 0..k |-> Under(h[i], r.guards)]
<1>8. g[0] = {}
  BY <1>2 DEF IsRounds, Under
<1>9. ASSUME NEW i \in 1..k, NEW x \in g[i]
      PROVE  \E nt, cs : x = <<nt, cs>> /\ Follows(nt, cs, g[i-1], r.guards)
  <2>1. i - 1 \in 0..k /\ i \in 0..k
    BY <1>9
  <2>2. h[i] = AnalysisStep(Walkables, h[i-1]) /\ FoundRight(h[i-1])
    BY <1>2, <1>6, <1>9, <2>1 DEF IsRounds
  <2>3. g[i] = Under(h[i], r.guards) /\ g[i-1] = Under(h[i-1], r.guards)
    BY <2>1
  <2>4. PICK s \in h[i] : s.guards \subseteq r.guards /\ x = <<s.nt, s.chars>>
    BY <1>9, <2>3 DEF Under
  <2>5. Follows(s.nt, s.chars, Under(h[i-1], r.guards), r.guards)
    BY <1>7, <2>2, <2>4, StepFollows
  <2> QED BY <2>3, <2>4, <2>5
<1>10. <<r.nt, r.chars>> \in g[k]
  BY <1>7 DEF Under
<1> HIDE DEF g
<1>11. Derivation(g, k, r.guards)
  BY <1>8, <1>9 DEF Derivation
<1> QED BY <1>7, <1>10, <1>11 DEF Accepted

\* Each class that is derived accepts what its rules derive under its guards.
Fitting(new) ==
  \A nt \in DOMAIN new.fns :
    nt \in Nts /\ nt \notin DOMAIN cls /\ Accepted(nt, new.active[nt], new.fns[nt])

\* So have the classes that are made of it (apply_derived_char_classes).
LEMMA OutcomesFit ==
  grammar \in Grammars /\ cls \in ClassLists => \A new \in Outcomes : Fitting(new)
<1> SUFFICES ASSUME grammar \in Grammars, cls \in ClassLists, NEW new \in Outcomes,
                    NEW nt \in DOMAIN new.fns
             PROVE  nt \in Nts /\ nt \notin DOMAIN cls /\ Accepted(nt, new.active[nt], new.fns[nt])
  BY DEF Fitting
<1> DEFINE a == AnalysisOf(Walkables)
<1>1. new = OutcomeOf(a)
  BY DEF Outcomes
<1> HIDE DEF a
<1>2. DOMAIN new.fns = IF derive THEN DerivedOf(a) ELSE {}
  BY <1>1 DEF OutcomeOf
<1>3. nt \in Found(a)
  BY <1>2 DEF DerivedOf
<1>4. new.fns[nt] = Info(a, nt).chars /\ new.active[nt] = Info(a, nt).guards
  BY <1>1, <1>2 DEF OutcomeOf
<1>5. PICK r \in a : r.nt = nt
  BY <1>3 DEF Found
<1>6. nt \in Walkables
  BY <1>5, AnalysisAccepted DEF a
<1>7. nt \in Nts /\ nt \notin Chars /\ nt \notin DOMAIN cls
  BY <1>6, WalkablesApart
<1>8. Info(a, nt) = CHOOSE q \in a : q.nt = nt
  BY <1>7 DEF Info
<1>9. Info(a, nt) \in a /\ Info(a, nt).nt = nt
  BY <1>5, <1>8
<1>10. Accepted(nt, Info(a, nt).guards, Info(a, nt).chars)
  BY <1>9, AnalysisAccepted DEF a
<1> QED BY <1>4, <1>7, <1>10

\* The same after a step.
LEMMA OutcomesFitNext ==
  (grammar \in Grammars /\ cls \in ClassLists => \A new \in Outcomes : Fitting(new))'
BY OutcomesFit, PTL

-----------------------------------------------------------------------------
\* a memory of nt for the guards gs
Fits(m, nt, gs) == \A ch \in DOMAIN m : \E cs : Accepted(nt, gs, cs) /\ ch \in cs

MemInv ==
  /\ cls \in ClassLists
  /\ \A nt \in derived :
       /\ nt \in Nts /\ nt \notin DOMAIN cls
       /\ Accepted(nt, active[nt], fns[nt]) /\ DOMAIN ps[nt] \subseteq fns[nt]
  /\ \A nt \in Nts \cap DOMAIN cls : DOMAIN ps[nt] \subseteq cls[nt]
  /\ \A nt \in Nts : \A gs \in DOMAIN aside[nt] : Fits(aside[nt][gs], nt, gs)

\* What is accepted is told by the rules and the class list alone.
LEMMA AcceptedLasts ==
  ASSUME grammar' = grammar, cls' = cls
  PROVE  \A nt, gs, cs : Accepted(nt, gs, cs) <=> Accepted(nt, gs, cs)'
<1>1. \A nt, gs : RulesUnder(nt, gs)' = RulesUnder(nt, gs)
  BY DEF RulesUnder
<1>2. \A H, l, cs : HasChars(H, l, cs)' <=> HasChars(H, l, cs)
  BY DEF HasChars
<1>3. \A nt, cs, H, gs : Follows(nt, cs, H, gs)' <=> Follows(nt, cs, H, gs)
  BY <1>1, <1>2 DEF Follows
<1>4. \A h, k, gs : Derivation(h, k, gs)' <=> Derivation(h, k, gs)
  BY <1>3 DEF Derivation
<1> QED BY <1>4 DEF Accepted

\* AcceptedOnce in one formula, and the same after a step.
LEMMA AcceptedOneSet == \A nt, gs, b, d : Accepted(nt, gs, b) /\ Accepted(nt, gs, d) => b = d
BY AcceptedOnce

LEMMA AcceptedOneSetNext == (\A nt, gs, b, d : Accepted(nt, gs, b) /\ Accepted(nt, gs, d) => b = d)'
BY AcceptedOneSet, PTL

\* Whatever was set aside, the classes that the analysis finds begin with
\* memories that fit them (apply_derived_char_classes).
LEMMA ApplyFits ==
  ASSUME grammar' \in Grammars, cls' \in ClassLists, NEW STATE kept, NEW STATE cache,
         ApplyDerivedCharClasses(kept, cache),
         \A nt \in Nts \cap DOMAIN cls' : DOMAIN cache[nt] \subseteq cls'[nt],
         \A nt \in Nts : \A gs \in DOMAIN kept[nt] : \A ch \in DOMAIN kept[nt][gs] :
            \E cs : Accepted(nt, gs, cs)' /\ ch \in cs
  PROVE  MemInv'
<1>1. PICK new \in Outcomes' :
        /\ fns' = new.fns /\ active' = new.active
        /\ ps' = [nt \in Nts |->
                    IF nt \in DOMAIN new.fns
                    THEN Resume(cache, kept, nt, new.active[nt]) ELSE cache[nt]]
  BY DEF ApplyDerivedCharClasses
<1>2. aside' = kept
  BY DEF ApplyDerivedCharClasses
<1>3. ASSUME NEW nt \in derived'
      PROVE  nt \in Nts /\ nt \notin DOMAIN cls' /\ Accepted(nt, active[nt], fns[nt])'
  <2>1. Fitting(new)'
    BY <1>1, OutcomesFitNext
  <2>2. nt \in DOMAIN new.fns
    BY <1>1, <1>3 DEF derived
  <2>3. nt \in Nts /\ nt \notin DOMAIN cls' /\ Accepted(nt, new.active[nt], new.fns[nt])'
    BY <2>1, <2>2 DEF Fitting
  <2> QED BY <1>1, <2>3
<1>4. ASSUME NEW nt \in derived' PROVE DOMAIN ps'[nt] \subseteq fns'[nt]
  <2>1. ps'[nt] = Resume(cache, kept, nt, active'[nt])
    BY <1>1, <1>3, <1>4 DEF derived
  <2>2. CASE active'[nt] \in DOMAIN kept[nt]
    <3>1. ps'[nt] = kept[nt][active'[nt]]
      BY <2>1, <2>2 DEF Resume
    <3>2. ASSUME NEW ch \in DOMAIN ps'[nt] PROVE ch \in fns'[nt]
      <4>1. PICK cs : Accepted(nt, active[nt], cs)' /\ ch \in cs
        BY <1>3, <1>4, <2>2, <3>1, <3>2
      <4>2. cs = fns'[nt]
        BY <1>3, <1>4, <4>1, AcceptedOneSetNext
      <4> QED BY <4>1, <4>2
    <3> QED BY <3>2
  <2>3. CASE active'[nt] \notin DOMAIN kept[nt]
    <3>1. ps'[nt] = << >>
      BY <2>1, <2>3 DEF Resume
    <3> QED BY <3>1
  <2> QED BY <2>2, <2>3
<1>5. ASSUME NEW nt \in Nts \cap DOMAIN cls' PROVE DOMAIN ps'[nt] \subseteq cls'[nt]
  <2>1. nt \notin DOMAIN new.fns
    BY <1>1, <1>3, <1>5 DEF derived
  <2>2. ps'[nt] = cache[nt]
    BY <1>1, <1>5, <2>1
  <2> QED BY <1>5, <2>2
<1>6. ASSUME NEW nt \in Nts, NEW gs \in DOMAIN aside'[nt] PROVE Fits(aside[nt][gs], nt, gs)'
  BY <1>2, <1>6 DEF Fits
<1> QED BY <1>3, <1>4, <1>5, <1>6 DEF MemInv

\* What is set aside fits the rules under the guards it is kept for.
LEMMA SetAsideFits ==
  ASSUME MemInv, NEW nt \in Nts, NEW gs \in DOMAIN SetAside[nt]
  PROVE  Fits(SetAside[nt][gs], nt, gs)
<1>1. CASE nt \in derived
  <2>1. SetAside[nt] = [aside[nt] EXCEPT ![active[nt]] = ps[nt]]
    BY <1>1 DEF SetAside
  <2>2. gs \in DOMAIN aside[nt]
    BY <2>1
  <2>3. CASE gs = active[nt]
    <3>1. SetAside[nt][gs] = ps[nt]
      BY <2>1, <2>2, <2>3
    <3>2. Accepted(nt, gs, fns[nt]) /\ DOMAIN ps[nt] \subseteq fns[nt]
      BY <1>1, <2>3 DEF MemInv
    <3> QED BY <3>1, <3>2 DEF Fits
  <2>4. CASE gs # active[nt]
    <3>1. SetAside[nt][gs] = aside[nt][gs]
      BY <2>1, <2>2, <2>4
    <3> QED BY <2>2, <3>1 DEF MemInv
  <2> QED BY <2>3, <2>4
<1>2. CASE nt \notin derived
  <2>1. SetAside[nt] = aside[nt]
    BY <1>2 DEF SetAside
  <2> QED BY <2>1 DEF MemInv
<1> QED BY <1>1, <1>2

\* A rebuild under the same rules and classes (set_enabled_productions).
LEMMA RebuildKeepsFitting ==
  ASSUME grammar \in Grammars, MemInv, Rebuild, grammar' = grammar, cls' = cls
  PROVE  MemInv'
<1>1. ApplyDerivedCharClasses(SetAside, ps)
  BY DEF Rebuild
<1>2. cls' \in ClassLists /\ \A nt \in Nts \cap DOMAIN cls' : DOMAIN ps[nt] \subseteq cls'[nt]
  BY DEF MemInv
<1>3. ASSUME NEW nt \in Nts, NEW gs \in DOMAIN SetAside[nt], NEW ch \in DOMAIN SetAside[nt][gs]
      PROVE  \E cs : Accepted(nt, gs, cs)' /\ ch \in cs
  <2>1. PICK cs : Accepted(nt, gs, cs) /\ ch \in cs
    BY <1>3, SetAsideFits DEF Fits
  <2> QED BY <2>1, AcceptedLasts
<1> QED BY <1>1, <1>2, <1>3, ApplyFits

\* New classes begin with nothing (drop_char_class_caches).
LEMMA ClassesFit ==
  ASSUME grammar \in Grammars, NEW c \in ClassLists, WriteClasses(c)
  PROVE  MemInv'
<1>1. grammar' = grammar /\ cls' = c /\ ApplyDerivedCharClasses(Dropped, NoCache)
  BY DEF WriteClasses
<1>2. \A nt \in Nts : DOMAIN NoCache[nt] = {}
  BY DEF NoCache
<1>3. \A nt \in Nts : \A gs \in DOMAIN Dropped[nt] : DOMAIN Dropped[nt][gs] = {}
  BY DEF Dropped, NoMemory
<1> QED BY <1>1, <1>2, <1>3, ApplyFits

\* A scan remembers a character the class accepts (get_char_class_production).
LEMMA ScanFits ==
  ASSUME IInv, MemInv, NEW nt \in Nts, NEW ch \in Chars, ScanCcFunction(nt, ch)
  PROVE  MemInv'
<1>1. /\ AddCharClassProduction(nt, ch) /\ ch \in Predicate(nt) /\ nt \in derived \cup DOMAIN cls
      /\ grammar' = grammar /\ cls' = cls /\ fns' = fns /\ active' = active /\ aside' = aside
  BY DEF ScanCcFunction, Scans, settings
<1>2. \E p : ps' = Remember(ps, nt, ch, p)
  BY <1>1 DEF AddCharClassProduction
<1>3. DOMAIN ps = Nts
  BY DEF IInv, Memories
<1>4. /\ \A n \in Nts \ {nt} : ps'[n] = ps[n]
      /\ DOMAIN ps'[nt] = DOMAIN ps[nt] \cup {ch}
  BY <1>2, <1>3 DEF Remember
<1>5. derived' = derived
  BY <1>1 DEF derived
<1>6. ASSUME NEW n \in derived' PROVE DOMAIN ps'[n] \subseteq fns'[n]
  <2>1. n \in Nts /\ DOMAIN ps[n] \subseteq fns[n]
    BY <1>5, <1>6 DEF MemInv
  <2>2. n = nt => ch \in fns[n]
    BY <1>1, <1>5, <1>6 DEF Predicate
  <2> QED BY <1>1, <1>4, <2>1, <2>2
<1>7. ASSUME NEW n \in Nts \cap DOMAIN cls' PROVE DOMAIN ps'[n] \subseteq cls'[n]
  <2>1. n \in DOMAIN cls /\ n \notin derived /\ DOMAIN ps[n] \subseteq cls[n]
    BY <1>1, <1>7 DEF MemInv
  <2>2. n = nt => ch \in cls[n]
    BY <1>1, <2>1 DEF Predicate
  <2> QED BY <1>1, <1>4, <1>7, <2>1, <2>2
<1>8. ASSUME NEW n \in derived' PROVE n \in Nts /\ n \notin DOMAIN cls' /\ Accepted(n, active[n], fns[n])'
  <2>1. n \in Nts /\ n \notin DOMAIN cls /\ Accepted(n, active[n], fns[n])
    BY <1>5, <1>8 DEF MemInv
  <2> QED BY <1>1, <2>1, AcceptedLasts
<1>9. ASSUME NEW n \in Nts, NEW gs \in DOMAIN aside'[n] PROVE Fits(aside[n][gs], n, gs)'
  <2>1. Fits(aside[n][gs], n, gs)
    BY <1>1, <1>9 DEF MemInv
  <2> QED BY <1>1, <2>1, AcceptedLasts DEF Fits
<1> QED BY <1>1, <1>6, <1>7, <1>8, <1>9 DEF MemInv

\* Nothing that the memories are about changes.
LEMMA StaysFitting ==
  ASSUME MemInv, grammar' = grammar, cls' = cls, fns' = fns, active' = active,
         ps' = ps, aside' = aside
  PROVE  MemInv'
<1>1. derived' = derived
  BY DEF derived
<1>2. ASSUME NEW n \in derived' PROVE Accepted(n, active[n], fns[n])'
  <2>1. Accepted(n, active[n], fns[n])
    BY <1>1, <1>2 DEF MemInv
  <2> QED BY <2>1, AcceptedLasts
<1>3. ASSUME NEW n \in Nts, NEW gs \in DOMAIN aside'[n] PROVE Fits(aside[n][gs], n, gs)'
  <2>1. Fits(aside[n][gs], n, gs)
    BY <1>3 DEF MemInv
  <2> QED BY <2>1, AcceptedLasts DEF Fits
<1> QED BY <1>1, <1>2, <1>3 DEF MemInv

\* The start: nothing is remembered (grammar::grammar).
LEMMA InitFits == Init => MemInv
<1> SUFFICES ASSUME Init PROVE MemInv
  OBVIOUS
<1>1. /\ grammar \in Grammars /\ cls \in ClassLists /\ ps = NoCache
      /\ aside = [nt \in Nts |-> NoMemory]
  BY DEF Init
<1>2. PICK new \in Outcomes : fns = new.fns /\ active = new.active
  BY DEF Init
<1>3. \A nt \in derived : nt \in Nts /\ nt \notin DOMAIN cls /\ Accepted(nt, active[nt], fns[nt])
  BY <1>1, <1>2, OutcomesFit DEF Fitting, derived
<1>4. \A nt \in Nts : DOMAIN ps[nt] = {}
  BY <1>1 DEF NoCache
<1>5. \A nt \in Nts : \A gs \in DOMAIN aside[nt] : DOMAIN aside[nt][gs] = {}
  BY <1>1 DEF NoMemory
<1>6. \A nt \in Nts : \A gs \in DOMAIN aside[nt] : Fits(aside[nt][gs], nt, gs)
  BY <1>5 DEF Fits
<1> QED BY <1>1, <1>3, <1>4, <1>6 DEF MemInv

\* Every write, every parse and every scan leaves memories that fit.
LEMMA NextKeepsFitting == IInv /\ MemInv /\ [Next]_vars => MemInv'
<1> SUFFICES ASSUME IInv, MemInv, [Next]_vars PROVE MemInv'
  OBVIOUS
<1> grammar \in Grammars
  BY DEF IInv
<1>1. ASSUME NEW gs \in SUBSET Guards, SetEnabledProductions(gs) PROVE MemInv'
  BY <1>1, RebuildKeepsFitting DEF SetEnabledProductions
<1>2. ASSUME NEW b \in BOOLEAN, DeriveCharClasses(b) PROVE MemInv'
  BY <1>2, RebuildKeepsFitting DEF DeriveCharClasses
<1>3. ASSUME NEW s \in Starts, WriteStart(s) PROVE MemInv'
  BY <1>3, RebuildKeepsFitting DEF WriteStart
<1>4. ASSUME NEW c \in ClassLists, WriteClasses(c) PROVE MemInv'
  BY <1>4, ClassesFit
<1>5. ASSUME NEW e \in grammar.entries, AddDynamic(e) PROVE MemInv'
  BY <1>5, RebuildKeepsFitting DEF AddDynamic
<1>6. ASSUME NEW e \in grammar.entries, Grow(e) PROVE MemInv'
  BY <1>6, StaysFitting DEF Grow, classes
<1>7. CASE ClearDynamic
  BY <1>7, RebuildKeepsFitting DEF ClearDynamic
<1>8. CASE Retire
  BY <1>8, StaysFitting DEF Retire, classes
<1>9. ASSUME NEW children \in grammar.parsers, NewParser(children) PROVE MemInv'
  BY <1>9, RebuildKeepsFitting DEF NewParser
<1>10. ASSUME NEW nt \in Nts, NEW ch \in Chars, ScanCcFunction(nt, ch) PROVE MemInv'
  BY <1>10, ScanFits
<1>11. CASE UNCHANGED vars
  BY <1>11, StaysFitting DEF vars, settings, classes
<1> QED BY <1>1, <1>2, <1>3, <1>4, <1>5, <1>6, <1>7, <1>8, <1>9, <1>10, <1>11 DEF Next

\* A class accepts every character it remembers: no memory that is set aside
\* for a state of the guards comes back under other rules, for every grammar,
\* class list and order of writes and scans (get_char_class_production).
THEOREM MemoriesFit == Spec => []MemoryFits
<1>1. MemInv => MemoryFits
  BY DEF MemInv, MemoryFits
<1>2. IInv /\ MemInv /\ [Next]_vars => IInv' /\ MemInv'
  BY NextKeepsIInv, NextKeepsFitting
<1> QED BY <1>1, <1>2, InitIInv, InitFits, PTL DEF Spec
-----------------------------------------------------------------------------
(***************************************************************************)
(* The tree of a character.  The rounds of the analysis only add, and a    *)
(* rule is found with characters that are, one round later, exactly the    *)
(* words of its nonterminal.                                               *)
(***************************************************************************)
\* a rule is found in one way
One(a) == \A r, s \in a : r.nt = s.nt => r = s

\* Each round reads a rule once (single_char_rule).
LEMMA StepOnce ==
  ASSUME NEW rules, NEW a
  PROVE  One(AnalysisStep(rules, a))
<1>1. ASSUME NEW r \in AnalysisStep(rules, a) PROVE r = SingleCharRule(a, r.nt)
  <2>1. PICK nt \in Ready(rules, a) : r = SingleCharRule(a, nt)
    BY <1>1 DEF AnalysisStep
  <2>2. r.nt = nt
    BY <2>1 DEF SingleCharRule
  <2> QED BY <2>1, <2>2
<1> QED BY <1>1, Zenon DEF One

\* The literal of a conjunct is a symbol of the production.
LEMMA LiteralIsSymbol ==
  ASSUME grammar \in Grammars, NEW nt \in Walkables, NEW p \in SourceOf(nt), NEW c \in p.conjs
  PROVE  Len(c.lits) = 1 /\ DOMAIN c.lits = 1..1 /\ c.lits[1] \in Symbols(p)
<1>1. Len(c.lits) = 1 /\ DOMAIN c.lits = 1..Len(c.lits)
  BY WalkablesApart, SourceAssumption DEF SourceOf, Source
<1>2. c.lits[1] \in Range(c.lits)
  BY <1>1 DEF Range
<1> QED BY <1>1, <1>2 DEF Symbols

\* What is known of a literal stays when more rules are found.
LEMMA InfoStays ==
  ASSUME cls \in ClassLists, NEW a, NEW b, a \subseteq b, One(b), NEW l, Known(a, l)
  PROVE  Known(b, l) /\ Info(b, l) = Info(a, l)
<1>1. Known(b, l)
  BY DEF Known, Found
<1>2. CASE l \in Chars
  BY <1>1, <1>2 DEF Info
<1>3. CASE l \notin Chars /\ l \in DOMAIN cls
  BY <1>1, <1>3 DEF Info
<1>4. CASE l \notin Chars /\ l \notin DOMAIN cls
  <2>1. PICK r \in a : r.nt = l
    BY <1>4 DEF Known, IsLeaf, Found
  <2>2. Info(a, l) = (CHOOSE q \in a : q.nt = l) /\ Info(b, l) = (CHOOSE q \in b : q.nt = l)
    BY <1>4 DEF Info
  <2>3. Info(a, l) \in a /\ Info(a, l).nt = l
    BY <2>1, <2>2
  <2>4. Info(b, l) \in b /\ Info(b, l).nt = l
    BY <2>1, <2>2
  <2> QED BY <1>1, <2>3, <2>4, Zenon DEF One
<1> QED BY <1>2, <1>3, <1>4

\* So does the rule that is read from it.
LEMMA RuleStays ==
  ASSUME grammar \in Grammars, cls \in ClassLists, NEW a, NEW b, a \subseteq b, One(b),
         NEW nt \in Ready(Walkables, a)
  PROVE  nt \in Ready(Walkables, b) /\ SingleCharRule(b, nt) = SingleCharRule(a, nt)
<1>1. nt \in Walkables /\ \A p \in SourceOf(nt) : \A l \in Symbols(p) : Known(a, l)
  BY DEF Ready
<1>2. ASSUME NEW p \in SourceOf(nt), NEW l \in Symbols(p)
      PROVE  Known(b, l) /\ Info(b, l) = Info(a, l)
  BY <1>1, <1>2, InfoStays
<1>3. nt \in Ready(Walkables, b)
  BY <1>1, <1>2 DEF Ready
<1>4. ASSUME NEW p \in SourceOf(nt), NEW c \in p.conjs
      PROVE  Info(b, c.lits[1]) = Info(a, c.lits[1])
  BY <1>1, <1>2, <1>4, LiteralIsSymbol
<1>5. \A p \in SourceOf(nt) : Accepts(b, p) = Accepts(a, p)
  BY <1>4 DEF Accepts
<1>6. GuardsOf(b, nt) = GuardsOf(a, nt)
  <2> DEFINE L == UNION {Symbols(p) : p \in SourceOf(nt)}
  <2>1. \A l \in L : Info(b, l) = Info(a, l)
    BY <1>2
  <2> HIDE DEF L
  <2>2. {Info(b, l).guards : l \in L} = {Info(a, l).guards : l \in L}
    BY <2>1
  <2> QED BY <2>2 DEF GuardsOf, L
<1>7. NodesOf(b, nt) = NodesOf(a, nt)
  <2> DEFINE Row(x, p) == [c \in p.conjs |-> Info(x, c.lits[1]).nodes + (IF c.neg THEN 1 ELSE 0)]
             Table(x) == [p \in SourceOf(nt) |-> 1 + SumOf(Row(x, p))]
  <2>1. \A p \in SourceOf(nt) : Row(b, p) = Row(a, p)
    BY <1>4
  <2> HIDE DEF Row
  <2>2. \A p \in SourceOf(nt) : 1 + SumOf(Row(b, p)) = 1 + SumOf(Row(a, p))
    BY <2>1
  <2>3. Table(b) = Table(a)
    BY <2>2
  <2>4. NodesOf(b, nt) = 1 + SumOf(Table(b)) /\ NodesOf(a, nt) = 1 + SumOf(Table(a))
    BY DEF NodesOf, Row
  <2> HIDE DEF Table
  <2> QED BY <2>3, <2>4
<1>8. UNION {Accepts(b, p) : p \in SourceOf(nt)} = UNION {Accepts(a, p) : p \in SourceOf(nt)}
  BY <1>5
<1> QED BY <1>3, <1>6, <1>7, <1>8 DEF SingleCharRule

\* The rounds only add rules, each of them once and under enabled guards.
LEMMA RoundsGrow ==
  ASSUME grammar \in Grammars, cls \in ClassLists, NEW k \in Nat, NEW h, IsRounds(h, k, Walkables)
  PROVE  /\ \A i \in 0..k : FoundRight(h[i]) /\ One(h[i])
         /\ \A i \in 1..k : h[i-1] \subseteq h[i]
<1> DEFINE N == {i \in Nat : i <= k => FoundRight(h[i]) /\ One(h[i]) /\ (i = 0 \/ h[i-1] \subseteq h[i])}
<1>1. 0 \in N
  BY DEF IsRounds, FoundRight, One
<1>2. ASSUME NEW i \in Nat, i \in N PROVE i + 1 \in N
  <2>1. SUFFICES ASSUME i + 1 <= k
                 PROVE  FoundRight(h[i+1]) /\ One(h[i+1]) /\ h[i] \subseteq h[i+1]
    BY <1>2
  <2>2. i + 1 \in 1..k /\ (i + 1) - 1 = i /\ FoundRight(h[i]) /\ One(h[i])
    BY <1>2, <2>1
  <2>3. h[i+1] = AnalysisStep(Walkables, h[i])
    BY <2>2 DEF IsRounds
  <2>4. FoundRight(h[i+1]) /\ One(h[i+1])
    BY <2>2, <2>3, StepRight, StepOnce
  <2>5. CASE i = 0
    BY <2>4, <2>5 DEF IsRounds
  <2>6. CASE i # 0
    <3>1. i \in 1..k /\ h[i-1] \subseteq h[i]
      BY <1>2, <2>1, <2>6
    <3>2. h[i] = AnalysisStep(Walkables, h[i-1])
      BY <3>1 DEF IsRounds
    <3>3. ASSUME NEW r \in h[i] PROVE r \in h[i+1]
      <4>1. PICK nt \in Ready(Walkables, h[i-1]) : r = SingleCharRule(h[i-1], nt) /\ r.nodes =< MaxNodes
        BY <3>2, <3>3 DEF AnalysisStep
      <4>2. nt \in Ready(Walkables, h[i]) /\ SingleCharRule(h[i], nt) = SingleCharRule(h[i-1], nt)
        BY <2>2, <3>1, RuleStays
      <4> QED BY <2>3, <4>1, <4>2 DEF AnalysisStep
    <3> QED BY <2>4, <3>3
  <2> QED BY <2>4, <2>5, <2>6
<1>3. Nat \subseteq N
  <2> HIDE DEF N
  <2> QED BY <1>1, <1>2, NatSetInduction
<1> QED BY <1>3

\* The last round has what every round has.
LEMMA RoundsLast ==
  ASSUME grammar \in Grammars, cls \in ClassLists, NEW k \in Nat, NEW h, IsRounds(h, k, Walkables)
  PROVE  One(h[k]) /\ \A i \in 0..k : h[i] \subseteq h[k]
<1> DEFINE N == {j \in Nat : j <= k => h[k - j] \subseteq h[k]}
<1>1. 0 \in N
  BY DEF N
<1>2. ASSUME NEW j \in Nat, j \in N PROVE j + 1 \in N
  <2>1. SUFFICES ASSUME j + 1 <= k PROVE h[k - (j + 1)] \subseteq h[k]
    BY <1>2
  <2>2. k - j \in 1..k /\ (k - j) - 1 = k - (j + 1) /\ h[k - j] \subseteq h[k]
    BY <1>2, <2>1
  <2>3. h[(k - j) - 1] \subseteq h[k - j]
    BY <2>2, RoundsGrow
  <2> QED BY <2>2, <2>3
<1>3. Nat \subseteq N
  <2> HIDE DEF N
  <2> QED BY <1>1, <1>2, NatSetInduction
<1>4. ASSUME NEW i \in 0..k PROVE h[i] \subseteq h[k]
  <2>1. k - i \in Nat /\ k - i <= k /\ k - (k - i) = i
    BY <1>4
  <2>2. h[k - (k - i)] \subseteq h[k]
    BY <1>3, <2>1
  <2> QED BY <2>1, <2>2
<1>5. One(h[k])
  <2>1. k \in 0..k
    OBVIOUS
  <2> QED BY <2>1, RoundsGrow
<1> QED BY <1>4, <1>5

\* h holds the first k rounds of the words
IsReadings(h, k) ==
  /\ h = [i \in 0..k |-> h[i]] /\ h[0] = {}
  /\ \A i \in 1..k : h[i] = Plain(h[i-1])

\* As many of them as are asked for.
LEMMA ReadingsExist == \A k \in Nat : \E h : IsReadings(h, k)
<1> DEFINE N == {k \in Nat : \E h : IsReadings(h, k)}
<1>1. 0 \in N
  <2>1. IsReadings([i \in 0..0 |-> {}], 0)
    BY DEF IsReadings
  <2> QED BY <2>1
<1>2. ASSUME NEW k \in Nat, k \in N PROVE k + 1 \in N
  <2>1. PICK h : IsReadings(h, k)
    BY <1>2
  <2> DEFINE g == [i \in 0..(k+1) |-> IF i <= k THEN h[i] ELSE Plain(h[k])]
  <2>2. g[0] = {} /\ g = [i \in 0..(k+1) |-> g[i]]
    BY <1>2, <2>1 DEF IsReadings
  <2>3. ASSUME NEW i \in 1..(k+1) PROVE g[i] = Plain(g[i-1])
    <3>1. CASE i <= k
      <4>1. i \in 1..k /\ i - 1 <= k /\ i - 1 \in 0..(k+1)
        BY <1>2, <2>3, <3>1
      <4>2. g[i] = h[i] /\ g[i-1] = h[i-1]
        BY <3>1, <4>1
      <4>3. h[i] = Plain(h[i-1])
        BY <2>1, <4>1 DEF IsReadings
      <4> QED BY <4>2, <4>3
    <3>2. CASE i = k + 1
      BY <1>2, <3>2
    <3> QED BY <1>2, <2>3, <3>1, <3>2
  <2>4. IsReadings(g, k + 1)
    <3> HIDE DEF g
    <3> QED BY <2>2, <2>3 DEF IsReadings
  <2> QED BY <1>2, <2>4
<1>3. Nat \subseteq N
  <2> HIDE DEF N
  <2> QED BY <1>1, <1>2, NatSetInduction
<1> QED BY <1>3

\* More of them begin with the same ones.
LEMMA ReadingsAgree ==
  ASSUME NEW k \in Nat, NEW g, NEW h, IsReadings(g, k), IsReadings(h, k + 1)
  PROVE  g[k] = h[k]
<1> DEFINE N == {i \in Nat : i <= k => g[i] = h[i]}
<1>1. 0 \in N
  BY DEF IsReadings
<1>2. ASSUME NEW i \in Nat, i \in N PROVE i + 1 \in N
  <2>1. SUFFICES ASSUME i + 1 <= k PROVE g[i + 1] = h[i + 1]
    BY <1>2
  <2>2. i + 1 \in 1..k /\ i + 1 \in 1..(k+1) /\ (i + 1) - 1 = i /\ g[i] = h[i]
    BY <1>2, <2>1
  <2>3. g[i + 1] = Plain(g[(i+1)-1]) /\ h[i + 1] = Plain(h[(i+1)-1])
    BY <2>2 DEF IsReadings
  <2> QED BY <2>2, <2>3
<1>3. Nat \subseteq N
  <2> HIDE DEF N
  <2> QED BY <1>1, <1>2, NatSetInduction
<1> QED BY <1>3

\* The meaning of the rules is one of its rounds (Meaning).
LEMMA MeaningIsReading ==
  /\ Cardinality(Nts) + 1 \in Nat
  /\ \E h : IsReadings(h, Cardinality(Nts) + 1) /\ Meaning = h[Cardinality(Nts) + 1]
<1> DEFINE IsF(f) == f = [k \in Nat |-> IF k = 0 THEN {}
                                       ELSE UNION {Plain(y) : y \in {f[k-1]}}]
           H(k) == CHOOSE h : IsReadings(h, k)
           F == [k \in Nat |-> H(k)[k]]
           f == CHOOSE x : IsF(x)
           m == Cardinality(Nts) + 1
<1>1. Meaning = f[m]
  BY DEF Meaning, Rounds
<1>2. m \in Nat
  BY NamesAssumption, FS_CardinalityType
<1>3. \A k \in Nat : IsReadings(H(k), k)
  BY ReadingsExist
<1> HIDE DEF H
<1>4. ASSUME NEW k \in Nat PROVE F[k + 1] = Plain(F[k])
  <2>1. IsReadings(H(k), k) /\ IsReadings(H(k + 1), k + 1)
    BY <1>3, <1>4
  <2>2. H(k)[k] = H(k + 1)[k]
    BY <1>4, <2>1, ReadingsAgree
  <2>3. H(k + 1)[k + 1] = Plain(H(k + 1)[(k + 1) - 1])
    BY <1>4, <2>1 DEF IsReadings
  <2>4. F[k + 1] = H(k + 1)[k + 1] /\ F[k] = H(k)[k] /\ (k + 1) - 1 = k
    BY <1>4
  <2> HIDE DEF F
  <2> QED BY <2>2, <2>3, <2>4
<1>5. F[0] = {}
  BY <1>3 DEF IsReadings
<1>6. IsF(F)
  <2> DEFINE G == [k \in Nat |-> IF k = 0 THEN {} ELSE UNION {Plain(y) : y \in {F[k-1]}}]
  <2>1. ASSUME NEW k \in Nat PROVE F[k] = G[k]
    <3>1. CASE k = 0
      BY <1>5, <3>1
    <3>2. CASE k # 0
      <4>1. k - 1 \in Nat /\ (k - 1) + 1 = k
        BY <2>1, <3>2
      <4>2. F[k] = Plain(F[k-1])
        <5> HIDE DEF F
        <5> QED BY <1>4, <4>1
      <4> HIDE DEF F
      <4>3. UNION {Plain(y) : y \in {F[k-1]}} = Plain(F[k-1])
        OBVIOUS
      <4> QED BY <2>1, <3>2, <4>2, <4>3
    <3> QED BY <3>1, <3>2
  <2>2. F = [k \in Nat |-> F[k]] /\ G = [k \in Nat |-> G[k]]
    OBVIOUS
  <2>3. F = G
    <3> HIDE DEF F, G
    <3> QED BY <2>1, <2>2
  <2> QED BY <2>3
<1>7. IsF(f)
  <2> HIDE DEF F, IsF
  <2> QED BY <1>6
<1>8. f[0] = {} /\ \A k \in Nat : f[k + 1] = Plain(f[k])
  <2> HIDE DEF f
  <2>1. f[0] = {}
    BY <1>7
  <2>2. ASSUME NEW k \in Nat PROVE f[k + 1] = Plain(f[k])
    <3>1. k + 1 \in Nat /\ k + 1 # 0 /\ (k + 1) - 1 = k
      BY <2>2
    <3>2. f[k + 1] = UNION {Plain(y) : y \in {f[(k + 1) - 1]}}
      BY <1>7, <3>1
    <3>3. f[k + 1] = UNION {Plain(y) : y \in {f[k]}}
      BY <3>1, <3>2
    <3> QED BY <3>3
  <2> QED BY <2>1, <2>2
<1> HIDE DEF f, F, IsF
<1> DEFINE h == [i \in 0..m |-> f[i]]
<1>9. h = [i \in 0..m |-> h[i]] /\ h[0] = {} /\ h[m] = f[m]
  BY <1>2, <1>8
<1>10. ASSUME NEW i \in 1..m PROVE h[i] = Plain(h[i-1])
  <2>1. i - 1 \in Nat /\ (i - 1) + 1 = i /\ i \in 0..m /\ i - 1 \in 0..m
    BY <1>2, <1>10
  <2>2. f[i] = Plain(f[i-1])
    BY <1>8, <2>1
  <2> QED BY <2>1, <2>2
<1> HIDE DEF h
<1>11. IsReadings(h, m)
  BY <1>9, <1>10 DEF IsReadings
<1> QED BY <1>1, <1>2, <1>9, <1>11

-----------------------------------------------------------------------------
\* words of nonterminals
Pairs(sem) == \A y \in sem : y = <<y[1], y[2]>> /\ y[2] \in Words

\* nt has the words of one character of cs
Exact(sem, nt, cs) == \A w : <<nt, w>> \in sem <=> \E ch \in cs \cap Chars : w = <<ch>>

\* the classes and the rules that were found match what they are said to match
Good(a, sem) ==
  /\ Pairs(sem)
  /\ \A nt \in DOMAIN cls : Exact(sem, nt, cls[nt])
  /\ \A r \in a : Exact(sem, r.nt, r.chars)

\* A character is a word.
LEMMA CharIsWord ==
  ASSUME NEW ch \in Chars
  PROVE  <<ch>> \in Words
<1>1. <<ch>> \in [1..1 -> Chars] /\ 1 \in 0..MaxWord
  BY WordAssumption
<1> QED BY <1>1 DEF Words

\* The words of a nonterminal (Of).
LEMMA OfIs ==
  ASSUME NEW sem, Pairs(sem), NEW l \in Nts, NEW w
  PROVE  w \in Of(sem, l) <=> <<l, w>> \in sem
<1>1. ASSUME NEW x \in sem, x[1] = l, w = x[2] PROVE <<l, w>> \in sem
  BY <1>1 DEF Pairs
<1>2. Of(sem, l) = {x[2] : x \in {y \in sem : y[1] = l}}
  BY DEF Of
<1>3. ASSUME <<l, w>> \in sem PROVE w \in Of(sem, l)
  <2>1. <<l, w>>[1] = l /\ <<l, w>>[2] = w
    OBVIOUS
  <2> QED BY <1>2, <1>3, <2>1
<1> QED BY <1>1, <1>2, <1>3

\* A conjunct of one literal has the words of the literal.
LEMMA SpelledOne ==
  ASSUME NEW sem, Pairs(sem), NEW lits, Len(lits) = 1, NEW w \in Words,
         lits[1] \in Nts \cup Chars
  PROVE  w \in Spelled(sem, lits) <=> w \in Of(sem, lits[1])
<1> DEFINE l == lits[1]
           Next1(ws) == {u \o v : u \in ws, v \in Of(sem, lits[1])} \cap Words
           Value(x, k) == IF k = 0 THEN {<<>>}
                          ELSE {u \o v : u \in x[k-1], v \in Of(sem, lits[k])} \cap Words
           IsF(x) == x = [k \in 0..Len(lits) |-> Value(x, k)]
           f == CHOOSE x : IsF(x)
           g == [k \in 0..1 |-> IF k = 0 THEN {<<>>} ELSE Next1({<<>>})]
<1>1. Spelled(sem, lits) = f[1]
  BY DEF Spelled
<1>2. IsF(g)
  <2> DEFINE G == [k \in 0..Len(lits) |->
                     IF k = 0 THEN {<<>>}
                     ELSE {u \o v : u \in g[k-1], v \in Of(sem, lits[k])} \cap Words]
  <2>1. g[0] = {<<>>} /\ g[1] = Next1({<<>>}) /\ g = [k \in 0..1 |-> g[k]]
    OBVIOUS
  <2>2. G[0] = {<<>>} /\ G[1] = Next1(g[0]) /\ G = [k \in 0..1 |-> G[k]]
    BY DEF g
  <2>3. \A k \in 0..1 : k = 0 \/ k = 1
    OBVIOUS
  <2>4. g = G
    <3> HIDE DEF g, G, Next1
    <3> QED BY <2>1, <2>2, <2>3
  <2> QED BY <2>4
<1>3. IsF(f)
  <2> HIDE DEF g, IsF
  <2> QED BY <1>2
<1>4. f[0] = {<<>>} /\ f[1] = Next1(f[0])
  <2> HIDE DEF f, Next1
  <2>1. 0 \in 0..Len(lits) /\ 1 \in 0..Len(lits) /\ 1 - 1 = 0
    OBVIOUS
  <2>2. \A k \in 0..Len(lits) : f[k] = Value(f, k)
    <3> HIDE DEF Value
    <3> QED BY <1>3
  <2>3. f[0] = {<<>>}
    BY <2>1, <2>2
  <2>4. f[1] = Value(f, 1)
    BY <2>1, <2>2
  <2>5. Value(f, 1) = Next1(f[0])
    <3> HIDE DEF f
    <3> QED BY <2>1 DEF Next1
  <2> HIDE DEF Value
  <2> QED BY <2>3, <2>4, <2>5
<1>5. Spelled(sem, lits) = {u \o v : u \in {<<>>}, v \in Of(sem, l)} \cap Words
  <2> HIDE DEF f
  <2> QED BY <1>1, <1>4
<1>6. \A v \in Of(sem, l) : << >> \o v = v
  <2>1. CASE l \in Nts
    <3>1. ASSUME NEW v \in Of(sem, l) PROVE << >> \o v = v
      <4>1. v \in Words
        <5>1. <<l, v>> \in sem
          BY <2>1, <3>1, OfIs
        <5> QED BY <5>1 DEF Pairs
      <4>2. PICK n \in 0..MaxWord : v \in [1..n -> Chars]
        BY <4>1 DEF Words
      <4>3. n \in Nat
        BY <4>2, WordAssumption
      <4>4. v \in Seq(Chars)
        BY <4>2, <4>3
      <4> QED BY <4>4
    <3> QED BY <3>1
  <2>2. CASE l \notin Nts
    BY <2>2 DEF Of
  <2> QED BY <2>1, <2>2
<1> HIDE DEF l
<1>7. w \in Spelled(sem, lits) <=> w \in Of(sem, l)
  BY <1>5, <1>6
<1> QED BY <1>7 DEF l

\* A literal that is known has the words it is known to match.
LEMMA InfoExact ==
  ASSUME cls \in ClassLists, NEW a, FoundRight(a), NEW sem, Good(a, sem), NEW l, Known(a, l), NEW w
  PROVE  /\ l \in Nts \cup Chars
         /\ w \in Of(sem, l) <=> \E ch \in Info(a, l).chars \cap Chars : w = <<ch>>
<1> USE DEF Good
<1>1. CASE l \in Chars /\ Info(a, l) = Leaf({l})
  <2>1. l \notin Nts
    BY <1>1, NamesAssumption
  <2>2. Of(sem, l) = {<<l>>}
    BY <2>1 DEF Of
  <2>3. Info(a, l).chars = {l}
    BY <1>1 DEF Leaf
  <2> QED BY <1>1, <2>2, <2>3
<1>2. CASE l \notin Chars /\ l \in DOMAIN cls /\ Info(a, l) = Leaf(cls[l])
  <2>1. l \in Nts
    BY <1>2, NamesAssumption
  <2>2. Info(a, l).chars = cls[l]
    BY <1>2 DEF Leaf
  <2>3. Exact(sem, l, cls[l])
    BY <1>2
  <2> QED BY <2>1, <2>2, <2>3, OfIs DEF Exact
<1>3. CASE l \notin Chars /\ l \notin DOMAIN cls /\ Info(a, l) \in a /\ Info(a, l).nt = l
  <2>1. l \in Nts
    BY <1>3, WalkablesApart DEF FoundRight
  <2>2. Exact(sem, l, Info(a, l).chars)
    BY <1>3
  <2> QED BY <2>1, <2>2, OfIs DEF Exact
<1> QED BY <1>1, <1>2, <1>3, InfoFacts

\* A production matches the characters it accepts, and no other word
\* (single_char_rule).
LEMMA ProdExact ==
  ASSUME grammar \in Grammars, cls \in ClassLists, NEW a, FoundRight(a), NEW sem, Good(a, sem),
         NEW nt \in Walkables, NEW p \in SourceOf(nt), \A l \in Symbols(p) : Known(a, l),
         NEW w \in Words
  PROVE  Derives(sem, p, w) <=> \E ch \in Accepts(a, p) : w = <<ch>>
<1>1. ASSUME NEW c \in p.conjs
      PROVE  w \in Spelled(sem, c.lits) <=> \E ch \in Info(a, c.lits[1]).chars \cap Chars : w = <<ch>>
  <2> DEFINE l == c.lits[1]
  <2>1. Len(c.lits) = 1 /\ Known(a, l)
    BY <1>1, LiteralIsSymbol
  <2>2. /\ l \in Nts \cup Chars
        /\ w \in Of(sem, l) <=> \E ch \in Info(a, l).chars \cap Chars : w = <<ch>>
    BY <2>1, InfoExact
  <2>3. w \in Spelled(sem, c.lits) <=> w \in Of(sem, l)
    BY <2>1, <2>2, SpelledOne DEF Good
  <2> QED BY <2>2, <2>3
<1>2. ASSUME NEW ch \in Accepts(a, p), w = <<ch>>
      PROVE  Derives(sem, p, w)
  <2>1. ch \in Chars /\ \A c \in p.conjs : ch \in Info(a, c.lits[1]).chars <=> ~c.neg
    BY <1>2 DEF Accepts
  <2>2. \A d : w = <<d>> => d = ch
    BY <1>2
  <2>3. \A c \in p.conjs : w \in Spelled(sem, c.lits) <=> ch \in Info(a, c.lits[1]).chars
    BY <1>1, <1>2, <2>1, <2>2
  <2> QED BY <2>1, <2>3 DEF Derives
<1>3. ASSUME Derives(sem, p, w)
      PROVE  \E ch \in Accepts(a, p) : w = <<ch>>
  <2>1. PICK c \in p.conjs : ~c.neg
    BY DEF Walkables, Walkable, Positive
  <2>2. w \in Spelled(sem, c.lits)
    BY <1>3, <2>1 DEF Derives
  <2>3. PICK ch \in Chars : w = <<ch>>
    BY <1>1, <2>1, <2>2
  <2>4. \A d : w = <<d>> => d = ch
    BY <2>3
  <2>5. \A d \in p.conjs : w \in Spelled(sem, d.lits) <=> ch \in Info(a, d.lits[1]).chars
    BY <1>1, <2>3, <2>4
  <2>6. \A d \in p.conjs : ch \in Info(a, d.lits[1]).chars <=> ~d.neg
    BY <1>3, <2>5 DEF Derives
  <2> QED BY <2>3, <2>6 DEF Accepts
<1> QED BY <1>2, <1>3

\* the words R of the nonterminals: those of the rules, and of a class its characters
ReadsAs(R, rules, names, leaf, sem) ==
  /\ Pairs(R)
  /\ \A nt, w : nt \notin names =>
       (<<nt, w>> \in R <=> w \in Words /\ \E p \in rules : p.head = nt /\ Derives(sem, p, w))
  /\ \A nt, w : nt \in names =>
       (<<nt, w>> \in R <=> \E ch \in Chars : <<nt, ch>> \in leaf /\ w = <<ch>>)

\* What is read are words of these (Reading).
LEMMA ReadingIs ==
  ASSUME NEW STATE rules, NEW STATE names, NEW STATE leaf, leaf \subseteq names \X Chars, NEW sem
  PROVE  ReadsAs(Reading(rules, names, leaf, sem), rules, names, leaf, sem)
<1> DEFINE R == Reading(rules, names, leaf, sem)
           Read == {q \in rules : q.head \notin names}
<1>1. \A y : y \in R <=> \/ \E x \in leaf : y = <<x[1], <<x[2]>> >>
                         \/ \E p \in Read : \E w \in Words : Derives(sem, p, w) /\ y = <<p.head, w>>
  BY DEF Reading
<1>2. ASSUME NEW y \in R PROVE y = <<y[1], y[2]>> /\ y[2] \in Words
  <2>1. CASE \E x \in leaf : y = <<x[1], <<x[2]>> >>
    <3>1. PICK x \in leaf : y = <<x[1], <<x[2]>> >>
      BY <2>1
    <3>2. <<x[2]>> \in Words
      BY CharIsWord
    <3> QED BY <3>1, <3>2
  <2>2. CASE \E p \in Read : \E w \in Words : Derives(sem, p, w) /\ y = <<p.head, w>>
    BY <2>2
  <2> QED BY <1>1, <2>1, <2>2
<1>3. ASSUME NEW nt, NEW w, nt \notin names
      PROVE  <<nt, w>> \in R <=> w \in Words /\ \E p \in rules : p.head = nt /\ Derives(sem, p, w)
  <2>1. ~ \E x \in leaf : <<nt, w>> = <<x[1], <<x[2]>> >>
    BY <1>3
  <2>2. <<nt, w>> \in R <=> \E p \in Read : \E v \in Words : Derives(sem, p, v) /\ <<nt, w>> = <<p.head, v>>
    <3> HIDE DEF R, Read
    <3> QED BY <1>1, <2>1
  <2>3. \A p, v : <<nt, w>> = <<p.head, v>> <=> nt = p.head /\ w = v
    OBVIOUS
  <2> HIDE DEF R
  <2> QED BY <1>3, <2>2, <2>3
<1>4. ASSUME NEW nt, NEW w, nt \in names
      PROVE  <<nt, w>> \in R <=> \E ch \in Chars : <<nt, ch>> \in leaf /\ w = <<ch>>
  <2>1. ~ \E p \in Read : \E v \in Words : Derives(sem, p, v) /\ <<nt, w>> = <<p.head, v>>
    <3>1. \A p, v : <<nt, w>> = <<p.head, v>> <=> nt = p.head /\ w = v
      OBVIOUS
    <3> QED BY <1>4, <3>1
  <2>2. <<nt, w>> \in R <=> \E x \in leaf : <<nt, w>> = <<x[1], <<x[2]>> >>
    <3> HIDE DEF R, Read
    <3> QED BY <1>1, <2>1
  <2>3. ASSUME NEW x \in leaf, <<nt, w>> = <<x[1], <<x[2]>> >>
        PROVE  \E ch \in Chars : <<nt, ch>> \in leaf /\ w = <<ch>>
    <3>1. x = <<x[1], x[2]>> /\ x[2] \in Chars /\ nt = x[1] /\ w = <<x[2]>>
      BY <2>3
    <3> QED BY <3>1
  <2>4. ASSUME NEW ch \in Chars, <<nt, ch>> \in leaf, w = <<ch>>
        PROVE  \E x \in leaf : <<nt, w>> = <<x[1], <<x[2]>> >>
    <3>1. <<nt, w>> = << <<nt, ch>>[1], << <<nt, ch>>[2] >> >>
      BY <2>4
    <3> QED BY <2>4, <3>1
  <2> QED BY <2>2, <2>3, <2>4
<1> HIDE DEF R
<1>5. Pairs(R)
  BY <1>2 DEF Pairs
<1>6. ReadsAs(R, rules, names, leaf, sem)
  BY <1>3, <1>4, <1>5 DEF ReadsAs
<1> QED BY <1>6 DEF R

\* No alternative grows a rule that is walked into (classify_cc_walk).
LEMMA AlternativeApart ==
  ASSUME live \subseteq known, NEW nt \in Walkables, NEW e \in live
  PROVE  Alternative(e).head # nt
<1>1. e[1] # nt
  BY DEF Walkables, Walkable, Heads
<1> QED BY <1>1 DEF Alternative, Prod

\* The plain reading of a class are its characters, that of every other rule its
\* productions and alternatives, which a rule that is walked into has none of.
LEMMA PlainIs ==
  ASSUME cls \in ClassLists, live \subseteq known, NEW sem
  PROVE  /\ Pairs(Plain(sem))
         /\ \A nt \in DOMAIN cls : Exact(Plain(sem), nt, cls[nt])
         /\ \A nt, w : nt \notin DOMAIN cls =>
              (<<nt, w>> \in Plain(sem)
                 <=> /\ w \in Words
                     /\ \E p \in Source \cup {Alternative(e) : e \in live} :
                           p.head = nt /\ Derives(sem, p, w))
         /\ \A nt \in Walkables : \A w : <<nt, w>> \in Plain(sem)
               <=> w \in Words /\ \E p \in SourceOf(nt) : Derives(sem, p, w)
<1> DEFINE rules   == Source \cup {Alternative(e) : e \in live}
           leaves  == DOMAIN cls
           leafSet == {x \in leaves \X Chars : x[2] \in cls[x[1]]}
<1>1. Plain(sem) = Reading(rules, leaves, leafSet, sem) /\ leafSet \subseteq leaves \X Chars
  BY DEF Plain
<1>2. ASSUME NEW nt \in Walkables
      PROVE  {p \in rules : p.head = nt} = SourceOf(nt)
  BY <1>2, AlternativeApart DEF SourceOf
<1>3. \A nt \in leaves, ch \in Chars : <<nt, ch>> \in leafSet <=> ch \in cls[nt]
  OBVIOUS
<1>4. \A nt \in Walkables : nt \notin leaves
  BY WalkablesApart
<1> HIDE DEF rules, leaves, leafSet
<1>5. ReadsAs(Plain(sem), rules, leaves, leafSet, sem)
  <2>1. ReadsAs(Reading(rules, leaves, leafSet, sem), rules, leaves, leafSet, sem)
    BY <1>1, ReadingIs
  <2> QED BY <1>1, <2>1
<1>6. Pairs(Plain(sem))
  BY <1>5 DEF ReadsAs
<1>7. ASSUME NEW nt \in leaves PROVE Exact(Plain(sem), nt, cls[nt])
  <2>1. \A w : <<nt, w>> \in Plain(sem) <=> \E ch \in Chars : <<nt, ch>> \in leafSet /\ w = <<ch>>
    BY <1>5, <1>7 DEF ReadsAs
  <2> QED BY <1>3, <1>7, <2>1 DEF Exact
<1>8. \A nt, w : nt \notin leaves =>
        (<<nt, w>> \in Plain(sem)
           <=> w \in Words /\ \E p \in rules : p.head = nt /\ Derives(sem, p, w))
  BY <1>5 DEF ReadsAs
<1>9. ASSUME NEW nt \in Walkables, NEW w
      PROVE  <<nt, w>> \in Plain(sem) <=> w \in Words /\ \E p \in SourceOf(nt) : Derives(sem, p, w)
  <2>1. <<nt, w>> \in Plain(sem) <=> w \in Words /\ \E p \in rules : p.head = nt /\ Derives(sem, p, w)
    BY <1>4, <1>8, <1>9
  <2> QED BY <1>2, <1>9, <2>1
<1> QED BY <1>6, <1>7, <1>8, <1>9 DEF rules, leaves

\* A rule that is found has the words of its characters.
LEMMA RuleExact ==
  ASSUME grammar \in Grammars, cls \in ClassLists, NEW a, FoundRight(a), NEW sem, Good(a, sem),
         NEW r \in AnalysisStep(Walkables, a), NEW w
  PROVE  (w \in Words /\ \E p \in SourceOf(r.nt) : Derives(sem, p, w))
           <=> \E ch \in r.chars \cap Chars : w = <<ch>>
<1>1. /\ r.nt \in Walkables /\ r.chars = UNION {Accepts(a, p) : p \in SourceOf(r.nt)}
      /\ \A p \in SourceOf(r.nt) : \A l \in Symbols(p) : Known(a, l)
  BY StepIs
<1>2. r.chars \subseteq Chars
  BY <1>1 DEF Accepts
<1>3. \A ch \in r.chars : <<ch>> \in Words
  BY <1>2, CharIsWord
<1>4. w \in Words => \A p \in SourceOf(r.nt) :
                       Derives(sem, p, w) <=> \E ch \in Accepts(a, p) : w = <<ch>>
  BY <1>1, ProdExact
<1>5. \A ch : ch \in r.chars <=> \E p \in SourceOf(r.nt) : ch \in Accepts(a, p)
  BY <1>1
<1> QED BY <1>2, <1>3, <1>4, <1>5

\* A round of the analysis is exact one round of the words later.
LEMMA StepExact ==
  ASSUME grammar \in Grammars, cls \in ClassLists, live \subseteq known,
         NEW a, FoundRight(a), NEW sem, Good(a, sem)
  PROVE  Good(AnalysisStep(Walkables, a), Plain(sem))
<1> SUFFICES ASSUME NEW r \in AnalysisStep(Walkables, a), NEW w
             PROVE  <<r.nt, w>> \in Plain(sem) <=> \E ch \in r.chars \cap Chars : w = <<ch>>
  BY PlainIs DEF Good, Exact
<1>1. r.nt \in Walkables
  BY StepIs
<1>2. <<r.nt, w>> \in Plain(sem) <=> w \in Words /\ \E p \in SourceOf(r.nt) : Derives(sem, p, w)
  BY <1>1, PlainIs
<1> QED BY <1>2, RuleExact

\* What the analysis ends with is exact in the meaning of the rules.
LEMMA MeaningGood ==
  ASSUME grammar \in Grammars, cls \in ClassLists, live \subseteq known,
         NEW n \in Nat, n = Cardinality(Nts), NEW h, IsRounds(h, n, Walkables)
  PROVE  Good(h[n], Meaning)
<1>1. PICK g : IsReadings(g, n + 1) /\ Meaning = g[n + 1]
  BY MeaningIsReading
<1> DEFINE N == {i \in Nat : i <= n => Good(h[i], g[i+1])}
<1>2. 0 \in N
  <2> 1 \in 1..(n+1) /\ 1 - 1 = 0
    OBVIOUS
  <2>1. h[0] = {} /\ g[1] = Plain(g[1-1])
    BY <1>1 DEF IsRounds, IsReadings
  <2>2. Good(h[0], g[1])
    BY <2>1, PlainIs DEF Good
  <2> QED BY <2>2
<1>3. ASSUME NEW i \in Nat, i \in N PROVE i + 1 \in N
  <2>1. SUFFICES ASSUME i + 1 <= n PROVE Good(h[i+1], g[(i+1)+1])
    BY <1>3
  <2>2. i + 1 \in 1..n /\ (i + 1) - 1 = i /\ (i+1)+1 \in 1..(n+1) /\ ((i+1)+1)-1 = i+1 /\ i \in 0..n
    BY <1>3, <2>1
  <2>3. Good(h[i], g[i+1]) /\ FoundRight(h[i])
    BY <1>3, <2>1, <2>2, RoundsGrow
  <2>4. h[i+1] = AnalysisStep(Walkables, h[i])
    BY <2>2 DEF IsRounds
  <2>5. g[(i+1)+1] = Plain(g[i+1])
    BY <1>1, <2>2 DEF IsReadings
  <2> QED BY <2>3, <2>4, <2>5, StepExact
<1>4. Nat \subseteq N
  <2> HIDE DEF N
  <2> QED BY <1>2, <1>3, NatSetInduction
<1> QED BY <1>1, <1>4

\* the classes are what the analysis of the settings gives
IsOutcome(h) ==
  /\ IsRounds(h, Cardinality(Nts), Walkables)
  /\ fns = OutcomeOf(h[Cardinality(Nts)]).fns
  /\ inner = OutcomeOf(h[Cardinality(Nts)]).inner
  /\ exprs = OutcomeOf(h[Cardinality(Nts)]).exprs

Analysed == \E h : IsOutcome(h)

\* A rule that was found was read from literals that are known.
LEMMA FoundKnown ==
  ASSUME grammar \in Grammars, cls \in ClassLists, NEW n \in Nat, NEW h, IsRounds(h, n, Walkables),
         NEW r \in h[n]
  PROVE  /\ n - 1 \in 0..n /\ n \in 1..n /\ r \in AnalysisStep(Walkables, h[n-1])
         /\ r.nt \in Walkables
         /\ \A p \in SourceOf(r.nt) : \A l \in Symbols(p) : Known(h[n], l)
<1>1. n # 0
  BY DEF IsRounds
<1>2. n - 1 \in 0..n /\ n \in 1..n /\ n \in 0..n
  BY <1>1
<1>3. h[n] = AnalysisStep(Walkables, h[n-1])
  BY <1>2 DEF IsRounds
<1>4. h[n-1] \subseteq h[n] /\ One(h[n])
  BY <1>2, RoundsGrow
<1>5. r.nt \in Walkables /\ \A p \in SourceOf(r.nt) : \A l \in Symbols(p) : Known(h[n-1], l)
  BY <1>3, StepIs
<1>6. \A p \in SourceOf(r.nt) : \A l \in Symbols(p) : Known(h[n], l)
  BY <1>4, <1>5, InfoStays
<1> QED BY <1>2, <1>3, <1>5, <1>6

\* The recipe of a character goes to the literals its rule goes to, and each is
\* a character, a class or a rule with a recipe (derived_class_packs).
LEMMA RecipesRight ==
  ASSUME grammar \in Grammars, cls \in ClassLists, live \subseteq known, Analysed
  PROVE  RecipesExact
<1> DEFINE n == Cardinality(Nts)
<1>1. n \in Nat
  BY NamesAssumption, FS_CardinalityType
<1>2. PICK h : IsOutcome(h)
  BY DEF Analysed
<1>3. IsRounds(h, n, Walkables) /\ n = Cardinality(Nts)
  BY <1>2 DEF IsOutcome
<1> DEFINE a == h[n]
<1>4. /\ fns = OutcomeOf(a).fns /\ inner = OutcomeOf(a).inner /\ exprs = OutcomeOf(a).exprs
  BY <1>2 DEF IsOutcome
<1> HIDE DEF n
<1>5. Good(a, Meaning) /\ FoundRight(a)
  BY <1>1, <1>3, MeaningGood, RoundsGrow
<1>6. SUFFICES ASSUME NEW nt \in derived \cup inner, NEW ch \in Chars
               PROVE  /\ Packs(nt, ch) = Derivations(nt, ch)
                      /\ Packs(nt, ch) \subseteq Chars \cup DOMAIN cls \cup derived \cup inner
  BY DEF RecipesExact
<1>7. /\ derive = TRUE /\ derived = DerivedOf(a) /\ inner = InnerOf(a)
      /\ exprs = [p \in {q \in Source : q.head \in derived \cup inner} |-> Accepts(a, p)]
  <2>1. derived = IF derive THEN DerivedOf(a) ELSE {}
    BY <1>4 DEF OutcomeOf, derived
  <2>2. inner = IF derive THEN InnerOf(a) ELSE {}
    BY <1>4 DEF OutcomeOf
  <2>3. derive
    BY <1>6, <2>1, <2>2
  <2> QED BY <1>4, <2>1, <2>2, <2>3 DEF OutcomeOf
<1>8. nt \in Found(a)
  BY <1>6, <1>7 DEF DerivedOf, InnerOf
<1>9. PICK r \in a : r.nt = nt
  BY <1>8 DEF Found
<1>10. nt \in Walkables /\ \A p \in SourceOf(nt) : \A l \in Symbols(p) : Known(a, l)
  BY <1>1, <1>3, <1>9, FoundKnown
<1>11. ASSUME NEW p \in SourceOf(nt)
       PROVE  ch \in exprs[p] <=> Derives(Meaning, p, <<ch>>)
  <2>1. exprs[p] = Accepts(a, p)
    BY <1>6, <1>7, <1>11 DEF SourceOf
  <2>2. <<ch>> \in Words
    BY CharIsWord
  <2>3. Derives(Meaning, p, <<ch>>) <=> \E d \in Accepts(a, p) : <<ch>> = <<d>>
    BY <1>5, <1>10, <1>11, <2>2, ProdExact
  <2> QED BY <2>1, <2>3
<1>12. Packs(nt, ch) = Derivations(nt, ch)
  <2>1. {q \in SourceOf(nt) : ch \in exprs[q]} = {q \in SourceOf(nt) : Derives(Meaning, q, <<ch>>)}
    BY <1>11
  <2> QED BY <2>1 DEF Packs, Derivations
<1>13. ASSUME NEW l \in Packs(nt, ch)
       PROVE  l \in Chars \cup DOMAIN cls \cup derived \cup inner
  <2>1. PICK p \in SourceOf(nt) : \E c \in Positive(p) : l = c.lits[1]
    BY DEF Packs
  <2>2. l \in Symbols(p)
    BY <1>10, <2>1, LiteralIsSymbol DEF Positive
  <2>3. CASE IsLeaf(l)
    BY <2>3 DEF IsLeaf
  <2>4. CASE l \in Found(a)
    <3>1. nt \in Users(l)
      BY <2>2 DEF Users, SourceOf
    <3>2. l \in DerivedOf(a) \/ l \in InnerOf(a)
      BY <2>4, <3>1 DEF InnerOf
    <3> QED BY <1>7, <3>2
  <2> QED BY <1>10, <2>2, <2>3, <2>4 DEF Known
<1> QED BY <1>12, <1>13

-----------------------------------------------------------------------------
\* the index is that of the settings, and its class productions are leaves
Indexed ==
  /\ linked = Linkable
  /\ \A p \in made \ unlinked : p.head \in DOMAIN cls

\* A class scans what it accepts: what it remembers is a part of it.
LEMMA ScansIs ==
  ASSUME MemInv, NEW nt \in derived \cup DOMAIN cls, NEW ch
  PROVE  Scans(nt, ch) <=> ch \in Predicate(nt)
<1>1. DOMAIN ps[nt] \subseteq Predicate(nt)
  <2>1. CASE nt \in derived
    BY <2>1 DEF MemInv, Predicate
  <2>2. CASE nt \notin derived
    <3>1. nt \in Nts \cap DOMAIN cls
      BY <2>2, NamesAssumption DEF MemInv
    <3> QED BY <2>2, <3>1 DEF MemInv, Predicate
  <2> QED BY <2>1, <2>2
<1> QED BY <1>1 DEF Scans

\* What the recogniser reads: of a class the characters of its predicate, of
\* every other rule its productions and alternatives.
LEMMA ScannedIs ==
  ASSUME MemInv, Indexed, NEW sem
  PROVE  /\ Pairs(Scanned(sem))
         /\ \A nt \in derived \cup DOMAIN cls : Exact(Scanned(sem), nt, Predicate(nt))
         /\ \A nt, w : nt \notin derived \cup DOMAIN cls =>
              (<<nt, w>> \in Scanned(sem)
                 <=> /\ w \in Words
                     /\ \E p \in Source \cup {Alternative(e) : e \in live} :
                           p.head = nt /\ Derives(sem, p, w))
<1> DEFINE leaves  == derived \cup DOMAIN cls
           leafSet == {x \in leaves \X Chars : Scans(x[1], x[2])}
<1>1. Scanned(sem) = Reading(linked, leaves, leafSet, sem) /\ leafSet \subseteq leaves \X Chars
  BY DEF Scanned
<1>2. \A nt \in leaves, ch \in Chars : <<nt, ch>> \in leafSet <=> Scans(nt, ch)
  OBVIOUS
<1>3. \A p \in linked : p.head \notin leaves => p \in Source \cup {Alternative(e) : e \in live}
  BY DEF Indexed, Linkable
<1>4. Source \cup {Alternative(e) : e \in live} \subseteq linked
  BY DEF Indexed, Linkable
<1>5. \A nt \in leaves : \A ch : Scans(nt, ch) <=> ch \in Predicate(nt)
  BY ScansIs
<1> HIDE DEF leaves, leafSet
<1>6. ReadsAs(Scanned(sem), linked, leaves, leafSet, sem)
  <2>1. ReadsAs(Reading(linked, leaves, leafSet, sem), linked, leaves, leafSet, sem)
    BY <1>1, ReadingIs
  <2> QED BY <1>1, <2>1
<1>7. ASSUME NEW nt \in leaves PROVE Exact(Scanned(sem), nt, Predicate(nt))
  <2>1. \A w : <<nt, w>> \in Scanned(sem) <=> \E ch \in Chars : <<nt, ch>> \in leafSet /\ w = <<ch>>
    BY <1>6, <1>7 DEF ReadsAs
  <2> QED BY <1>2, <1>5, <1>7, <2>1 DEF Exact
<1>8. ASSUME NEW nt, NEW w, nt \notin leaves
      PROVE  <<nt, w>> \in Scanned(sem)
               <=> /\ w \in Words
                   /\ \E p \in Source \cup {Alternative(e) : e \in live} :
                         p.head = nt /\ Derives(sem, p, w)
  <2>1. <<nt, w>> \in Scanned(sem) <=> w \in Words /\ \E p \in linked : p.head = nt /\ Derives(sem, p, w)
    BY <1>6, <1>8 DEF ReadsAs
  <2> QED BY <1>3, <1>4, <1>8, <2>1
<1>9. Pairs(Scanned(sem))
  BY <1>6 DEF ReadsAs
<1> QED BY <1>7, <1>8, <1>9 DEF leaves

\* Words that are good for the analysis are read on in the same way with the
\* classes and without them.
LEMMA SameStep ==
  ASSUME grammar \in Grammars, MemInv, Indexed, live \subseteq known,
         NEW n \in Nat, n = Cardinality(Nts), NEW h, IsOutcome(h),
         NEW sem, Pairs(sem), \A i \in 0..n : Good(h[i], sem)
  PROVE  Scanned(sem) = Plain(sem)
<1> DEFINE a == h[n]
<1> cls \in ClassLists
  BY DEF MemInv
<1>1. IsRounds(h, n, Walkables) /\ fns = OutcomeOf(a).fns
  BY DEF IsOutcome
<1>2. FoundRight(a)
  BY <1>1, RoundsGrow
<1>3. ASSUME NEW nt \in derived, NEW w
      PROVE  <<nt, w>> \in Scanned(sem) <=> <<nt, w>> \in Plain(sem)
  <2>1. nt \in Found(a) /\ fns[nt] = Info(a, nt).chars
    BY <1>1, <1>3 DEF OutcomeOf, DerivedOf, derived
  <2>2. PICK q \in a : q.nt = nt
    BY <2>1 DEF Found
  <2>3. nt \in Walkables
    BY <1>2, <2>2 DEF FoundRight
  <2>4. Info(a, nt) = CHOOSE r \in a : r.nt = nt
    BY <2>3, WalkablesApart DEF Info
  <2>5. PICK r \in a : r.nt = nt /\ fns[nt] = r.chars
    BY <2>1, <2>2, <2>4
  <2>6. n - 1 \in 0..n /\ r \in AnalysisStep(Walkables, h[n-1])
    BY <1>1, <2>5, FoundKnown
  <2>7. FoundRight(h[n-1]) /\ Good(h[n-1], sem)
    BY <1>1, <2>6, RoundsGrow
  <2>8. (w \in Words /\ \E p \in SourceOf(nt) : Derives(sem, p, w))
          <=> \E ch \in fns[nt] \cap Chars : w = <<ch>>
    BY <2>5, <2>6, <2>7, RuleExact
  <2>9. <<nt, w>> \in Plain(sem) <=> w \in Words /\ \E p \in SourceOf(nt) : Derives(sem, p, w)
    BY <2>3, PlainIs
  <2>10. <<nt, w>> \in Scanned(sem) <=> \E ch \in Predicate(nt) \cap Chars : w = <<ch>>
    BY <1>3, ScannedIs DEF Exact
  <2> QED BY <1>3, <2>8, <2>9, <2>10 DEF Predicate
<1>4. ASSUME NEW nt \in DOMAIN cls, NEW w
      PROVE  <<nt, w>> \in Scanned(sem) <=> <<nt, w>> \in Plain(sem)
  <2>1. Predicate(nt) = cls[nt]
    BY <1>4 DEF MemInv, Predicate
  <2>2. <<nt, w>> \in Scanned(sem) <=> \E ch \in Predicate(nt) \cap Chars : w = <<ch>>
    BY <1>4, ScannedIs DEF Exact
  <2>3. <<nt, w>> \in Plain(sem) <=> \E ch \in cls[nt] \cap Chars : w = <<ch>>
    BY <1>4, PlainIs DEF Exact
  <2> QED BY <2>1, <2>2, <2>3
<1>5. ASSUME NEW nt, NEW w, nt \notin derived \cup DOMAIN cls
      PROVE  <<nt, w>> \in Scanned(sem) <=> <<nt, w>> \in Plain(sem)
  <2>1. <<nt, w>> \in Scanned(sem)
          <=> /\ w \in Words
              /\ \E p \in Source \cup {Alternative(e) : e \in live} : p.head = nt /\ Derives(sem, p, w)
    BY <1>5, ScannedIs
  <2>2. <<nt, w>> \in Plain(sem)
          <=> /\ w \in Words
              /\ \E p \in Source \cup {Alternative(e) : e \in live} : p.head = nt /\ Derives(sem, p, w)
    BY <1>5, PlainIs
  <2> QED BY <2>1, <2>2
<1>6. Pairs(Scanned(sem)) /\ Pairs(Plain(sem))
  BY ScannedIs, PlainIs
<1>7. \A nt, w : <<nt, w>> \in Scanned(sem) <=> <<nt, w>> \in Plain(sem)
  BY <1>3, <1>4, <1>5
<1>8. ASSUME NEW y PROVE y \in Scanned(sem) <=> y \in Plain(sem)
  BY <1>6, <1>7 DEF Pairs
<1> QED BY <1>8

\* the rules as equations between sets of words, with classes and without them
SameMeaning == \A sem : sem = Plain(sem) <=> sem = Scanned(sem)

\* A solution without the classes is good for every round of the analysis, as
\* each round of the rules leaves it as it is.
LEMMA PlainGood ==
  ASSUME grammar \in Grammars, cls \in ClassLists, live \subseteq known, NEW n \in Nat,
         NEW h, IsRounds(h, n, Walkables), NEW sem, sem = Plain(sem)
  PROVE  \A i \in 0..n : Good(h[i], sem)
<1> DEFINE N == {i \in Nat : i <= n => Good(h[i], sem)}
<1>1. 0 \in N
  <2>1. h[0] = {}
    BY DEF IsRounds
  <2>2. Good({}, Plain(sem))
    BY PlainIs DEF Good
  <2> QED BY <2>1, <2>2
<1>2. ASSUME NEW i \in Nat, i \in N PROVE i + 1 \in N
  <2>1. SUFFICES ASSUME i + 1 <= n PROVE Good(h[i+1], sem)
    BY <1>2
  <2>2. i + 1 \in 1..n /\ (i + 1) - 1 = i /\ i \in 0..n /\ Good(h[i], sem)
    BY <1>2, <2>1
  <2>3. h[i+1] = AnalysisStep(Walkables, h[i]) /\ FoundRight(h[i])
    BY <2>2, RoundsGrow DEF IsRounds
  <2>4. Good(h[i+1], Plain(sem))
    BY <2>2, <2>3, StepExact
  <2> QED BY <2>4
<1>3. Nat \subseteq N
  <2> HIDE DEF N
  <2> QED BY <1>1, <1>2, NatSetInduction
<1> QED BY <1>3

\* So is a solution with them: a class is scanned as the rule it was found for.
LEMMA ScannedGood ==
  ASSUME grammar \in Grammars, MemInv, Indexed, live \subseteq known,
         NEW n \in Nat, n = Cardinality(Nts), NEW h, IsOutcome(h), NEW sem, sem = Scanned(sem)
  PROVE  \A i \in 0..n : Good(h[i], sem)
<1> DEFINE N == {i \in Nat : i <= n => Good(h[i], sem)}
<1> cls \in ClassLists
  BY DEF MemInv
<1>1. IsRounds(h, n, Walkables) /\ fns = OutcomeOf(h[n]).fns
  BY DEF IsOutcome
<1>2. Pairs(sem) /\ \A nt \in DOMAIN cls : Exact(sem, nt, cls[nt])
  <2>1. Pairs(Scanned(sem)) /\ \A nt \in DOMAIN cls : Exact(Scanned(sem), nt, Predicate(nt))
    BY ScannedIs
  <2>2. \A nt \in DOMAIN cls : Predicate(nt) = cls[nt]
    BY DEF MemInv, Predicate
  <2> QED BY <2>1, <2>2
<1>3. 0 \in N
  BY <1>1, <1>2 DEF IsRounds, Good
<1>4. ASSUME NEW i \in Nat, i \in N PROVE i + 1 \in N
  <2>1. SUFFICES ASSUME i + 1 <= n PROVE Good(h[i+1], sem)
    BY <1>4
  <2>2. i + 1 \in 1..n /\ (i + 1) - 1 = i /\ i \in 0..n /\ Good(h[i], sem)
    BY <1>4, <2>1
  <2>3. h[i+1] = AnalysisStep(Walkables, h[i]) /\ FoundRight(h[i])
    BY <1>1, <2>2, RoundsGrow DEF IsRounds
  <2>4. SUFFICES ASSUME NEW r \in h[i+1] PROVE Exact(sem, r.nt, r.chars)
    BY <1>2 DEF Good
  <2>5. r.nt \in Walkables
    BY <2>3, <2>4, StepIs
  <2>6. CASE r.nt \in derived
    <3>1. r \in h[n] /\ One(h[n])
      BY <1>1, <2>1, <2>4, RoundsLast
    <3>2. Info(h[n], r.nt) = CHOOSE q \in h[n] : q.nt = r.nt
      BY <2>5, WalkablesApart DEF Info
    <3>3. Info(h[n], r.nt) \in h[n] /\ Info(h[n], r.nt).nt = r.nt
      BY <3>1, <3>2
    <3>4. Info(h[n], r.nt) = r
      BY <3>1, <3>3 DEF One
    <3>5. fns[r.nt] = r.chars
      BY <1>1, <2>6, <3>4 DEF OutcomeOf, derived
    <3>6. Predicate(r.nt) = r.chars
      BY <2>6, <3>5 DEF Predicate
    <3>7. Exact(Scanned(sem), r.nt, Predicate(r.nt))
      BY <2>6, ScannedIs
    <3> QED BY <3>6, <3>7
  <2>7. CASE r.nt \notin derived
    <3>1. r.nt \notin derived \cup DOMAIN cls
      BY <2>5, <2>7, WalkablesApart
    <3>2. ASSUME NEW w
          PROVE  <<r.nt, w>> \in sem <=> \E ch \in r.chars \cap Chars : w = <<ch>>
      <4>1. <<r.nt, w>> \in sem
              <=> /\ w \in Words
                  /\ \E p \in Source \cup {Alternative(e) : e \in live} :
                        p.head = r.nt /\ Derives(sem, p, w)
        BY <3>1, ScannedIs
      <4>2. \A e \in live : Alternative(e).head # r.nt
        BY <2>5, AlternativeApart
      <4>3. <<r.nt, w>> \in sem <=> w \in Words /\ \E p \in SourceOf(r.nt) : Derives(sem, p, w)
        BY <4>1, <4>2 DEF SourceOf
      <4> QED BY <2>2, <2>3, <4>3, RuleExact
    <3> QED BY <3>2 DEF Exact
  <2> QED BY <2>6, <2>7
<1>5. Nat \subseteq N
  <2> HIDE DEF N
  <2> QED BY <1>3, <1>4, NatSetInduction
<1> QED BY <1>5

-----------------------------------------------------------------------------
(***************************************************************************)
(* Between the writes that analyse the rules again a parse grows and       *)
(* retires alternatives.  The analysis stays right as long as what grows   *)
(* is excluded from it, that is, as long as a grammar has one parser with  *)
(* children.                                                               *)
(***************************************************************************)
OneParser == \A g \in Grammars : \A c, d \in g.parsers : c = d

Settled ==
  /\ host \subseteq live /\ live \subseteq known /\ live \subseteq grammar.entries
  /\ parsers \subseteq grammar.parsers
  /\ parsers # {} => excluded \in parsers
  /\ Indexed /\ Analysed

\* Every outcome is one of the last round of the analysis.
LEMMA OutcomesAnalysed ==
  \A new \in Outcomes :
    \E h : IsRounds(h, Cardinality(Nts), Walkables) /\ new = OutcomeOf(h[Cardinality(Nts)])
<1> SUFFICES ASSUME NEW new \in Outcomes
             PROVE  \E h : IsRounds(h, Cardinality(Nts), Walkables) /\ new = OutcomeOf(h[Cardinality(Nts)])
  OBVIOUS
<1>1. new = OutcomeOf(AnalysisOf(Walkables))
  BY DEF Outcomes
<1>2. PICK h : IsRounds(h, Cardinality(Nts), Walkables) /\ AnalysisOf(Walkables) = h[Cardinality(Nts)]
  BY AnalysisIsRound
<1>3. new = OutcomeOf(h[Cardinality(Nts)])
  BY <1>1, <1>2
<1> QED BY <1>2, <1>3

\* The same after a step.
LEMMA OutcomesAnalysedNext ==
  (\A new \in Outcomes :
     \E h : IsRounds(h, Cardinality(Nts), Walkables) /\ new = OutcomeOf(h[Cardinality(Nts)]))'
BY OutcomesAnalysed, PTL

\* A rebuild makes the index and the classes those of the settings
\* (set_enabled_productions, apply_derived_char_classes).
LEMMA ApplyAnalyses ==
  ASSUME NEW STATE kept, NEW STATE cache, ApplyDerivedCharClasses(kept, cache)
  PROVE  Analysed' /\ linked' = Linkable'
<1>1. PICK new \in Outcomes' : fns' = new.fns /\ inner' = new.inner /\ exprs' = new.exprs
  BY DEF ApplyDerivedCharClasses
<1>2. PICK h : (IsRounds(h, Cardinality(Nts), Walkables))' /\ new = (OutcomeOf(h[Cardinality(Nts)]))'
  BY OutcomesAnalysedNext
<1>3. IsOutcome(h)'
  BY <1>1, <1>2 DEF IsOutcome
<1> QED BY <1>3 DEF Analysed, ApplyDerivedCharClasses

\* What the analysis reads has not changed.
LEMMA AnalysisStays ==
  ASSUME UNCHANGED <<grammar, enabled, derive, cls, excluded, fns, inner, exprs>>,
         Walkables' = Walkables, Analysed
  PROVE  Analysed'
<1>1. Source' = Source /\ \A nt : SourceOf(nt)' = SourceOf(nt)
  <2>1. \A p : On(p)' <=> On(p)
    BY DEF On
  <2>2. Source' = Source
    BY <2>1 DEF Source
  <2> QED BY <2>2 DEF SourceOf
<1>2. \A a, l : Known(a, l)' <=> Known(a, l)
  <2>1. \A l : IsLeaf(l)' <=> IsLeaf(l)
    BY DEF IsLeaf
  <2> QED BY <2>1 DEF Known
<1>3. \A a, l : Info(a, l)' = Info(a, l)
  BY DEF Info
<1>4. \A a, p : Accepts(a, p)' = Accepts(a, p)
  BY <1>3 DEF Accepts
<1>5. \A a, nt : GuardsOf(a, nt)' = GuardsOf(a, nt)
  BY <1>1, <1>3 DEF GuardsOf
<1>6. \A a, nt : NodesOf(a, nt)' = NodesOf(a, nt)
  BY <1>1, <1>3 DEF NodesOf
<1>7. \A a, nt : SingleCharRule(a, nt)' = SingleCharRule(a, nt)
  BY <1>1, <1>4, <1>5, <1>6 DEF SingleCharRule
<1>8. \A rules, a : AnalysisStep(rules, a)' = AnalysisStep(rules, a)
  <2>1. \A rules, a : Ready(rules, a)' = Ready(rules, a)
    BY <1>1, <1>2 DEF Ready
  <2> QED BY <1>7, <2>1 DEF AnalysisStep
<1>9. \A h, k, rules : IsRounds(h, k, rules)' <=> IsRounds(h, k, rules)
  BY <1>8 DEF IsRounds
<1>10. \A a : DerivedOf(a)' = DerivedOf(a) /\ InnerOf(a)' = InnerOf(a)
  <2>1. \A nt : Users(nt)' = Users(nt)
    BY <1>1 DEF Users
  <2>2. \A a, nt : Rejected(a, nt)' <=> Rejected(a, nt)
    BY <1>2 DEF Rejected
  <2>3. \A a : DerivedOf(a)' = DerivedOf(a)
    BY <2>1, <2>2 DEF DerivedOf
  <2> QED BY <2>1, <2>3 DEF InnerOf
<1>11. \A a : OutcomeOf(a)' = OutcomeOf(a)
  BY <1>1, <1>3, <1>4, <1>10 DEF OutcomeOf
<1>12. PICK h : IsOutcome(h)
  BY DEF Analysed
<1>13. IsOutcome(h)'
  <2>1. (IsRounds(h, Cardinality(Nts), Walkables))'
    BY <1>9, <1>12 DEF IsOutcome
  <2>2. (OutcomeOf(h[Cardinality(Nts)]))' = OutcomeOf(h[Cardinality(Nts)])
    BY <1>11
  <2> QED BY <1>12, <2>1, <2>2 DEF IsOutcome
<1> QED BY <1>13 DEF Analysed

\* The walk enters the same rules when only excluded ones grow.
LEMMA WalkablesStay ==
  ASSUME UNCHANGED <<grammar, enabled, start, cls, excluded, host>>,
         Heads(known) \subseteq Heads(known)', Heads(known)' \subseteq Heads(known) \cup excluded
  PROVE  Walkables' = Walkables
<1>1. Nullables' = Nullables
  BY DEF Nullables
<1>2. \A nt : SourceOf(nt)' = SourceOf(nt)
  <2>1. \A p : On(p)' <=> On(p)
    BY DEF On
  <2> QED BY <2>1 DEF Source, SourceOf
<1>3. Heads(host)' = Heads(host)
  BY DEF Heads
<1>4. \A nt : Walkable(nt)' <=> Walkable(nt)
  BY <1>2, <1>3 DEF Walkable
<1> QED BY <1>1, <1>4 DEF Walkables

\* A write that analyses the rules again, and unlinks no class production that
\* it does not keep apart.
LEMMA RebuildSettles ==
  ASSUME Settled, NEW STATE kept, NEW STATE cache, ApplyDerivedCharClasses(kept, cache),
         (host \subseteq live)', (live \subseteq known)', (live \subseteq grammar.entries)',
         (parsers \subseteq grammar.parsers)', (parsers # {} => excluded \in parsers)',
         \/ cls' = cls /\ made' = made /\ unlinked' = unlinked
         \/ made' = made /\ unlinked' = unlinked \cup made
  PROVE  Settled'
<1>1. Analysed' /\ linked' = Linkable'
  BY ApplyAnalyses
<1>2. \A p \in made' \ unlinked' : p.head \in DOMAIN cls'
  BY DEF Settled, Indexed
<1> QED BY <1>1, <1>2 DEF Settled, Indexed

\* An alternative is that of its entry, no rule of the source and none of a class.
LEMMA AlternativeOfEntry ==
  ASSUME IInv, Settled
  PROVE  /\ \A e, d \in live : Alternative(e) = Alternative(d) => e = d
         /\ \A e \in live : Alternative(e) \notin Source \cup made
<1>1. \A e \in live : e = <<e[1], e[2]>>
  BY SourceAssumption DEF IInv, Settled
<1>2. \A e, d \in live : Alternative(e) = Alternative(d) => e = d
  <2>1. ASSUME NEW e \in live, NEW d \in live, Alternative(e) = Alternative(d) PROVE e = d
    <3>1. Alternative(e).head = e[1] /\ Alternative(d).head = d[1]
      BY DEF Alternative, Prod
    <3>2. /\ Alternative(e).conjs = {[neg |-> FALSE, lits |-> e[2]]}
          /\ Alternative(d).conjs = {[neg |-> FALSE, lits |-> d[2]]}
      BY DEF Alternative, Prod
    <3>3. [neg |-> FALSE, lits |-> e[2]] = [neg |-> FALSE, lits |-> d[2]]
      BY <2>1, <3>2
    <3>4. e[2] = d[2]
      BY <3>3
    <3>5. e[1] = d[1]
      BY <2>1, <3>1
    <3> QED BY <1>1, <3>4, <3>5
  <2> QED BY <2>1
<1>3. \A e \in live : Alternative(e).origin = "dynamic"
  BY DEF Alternative, Prod
<1>4. \A p \in Source \cup made : p.origin # "dynamic"
  BY SourceAssumption DEF IInv, Numbered, Source
<1> QED BY <1>2, <1>3, <1>4

\* A child that grows was excluded from the analysis when its parser was made
\* (set_dynamic_grow, add_dynamic_production_from).
LEMMA GrowSettles ==
  ASSUME OneParser, grammar \in Grammars, Settled, NEW e \in grammar.entries, Grow(e)
  PROVE  Settled'
<1>1. /\ UNCHANGED <<grammar, enabled, derive, start, cls, excluded, host, parsers>>
      /\ UNCHANGED <<fns, inner, exprs, made, unlinked>>
      /\ e[1] \in UNION parsers
      /\ live' = live \cup {e} /\ known' = known \cup {e} /\ linked' = linked \cup {Alternative(e)}
  BY DEF Grow, classes
<1>2. e[1] \in excluded
  <2>1. PICK c \in parsers : e[1] \in c
    BY <1>1
  <2>2. c \in grammar.parsers /\ excluded \in grammar.parsers
    BY <2>1 DEF Settled
  <2> QED BY <2>1, <2>2 DEF OneParser
<1>3. Heads(known)' = Heads(known) \cup {e[1]}
  BY <1>1 DEF Heads
<1>4. Walkables' = Walkables
  BY <1>1, <1>2, <1>3, WalkablesStay
<1>5. Analysed'
  BY <1>1, <1>4, AnalysisStays DEF Settled
<1>6. Source' = Source
  <2>1. \A p : On(p)' <=> On(p)
    BY <1>1 DEF On
  <2> QED BY <1>1, <2>1 DEF Source
<1>7. linked' = Linkable'
  <2>1. Linkable' = Source \cup {Alternative(d) : d \in live \cup {e}} \cup (made \ unlinked)
    BY <1>1, <1>6 DEF Linkable
  <2>2. linked = Source \cup {Alternative(d) : d \in live} \cup (made \ unlinked)
    BY DEF Settled, Indexed, Linkable
  <2> QED BY <1>1, <2>1, <2>2
<1> QED BY <1>1, <1>5, <1>7 DEF Settled, Indexed

\* What a parse grew and nothing else leaves the index (rollback_dynamic).
LEMMA RetireSettles ==
  ASSUME IInv, Settled, Retire
  PROVE  Settled'
<1>1. /\ UNCHANGED <<grammar, enabled, derive, start, cls, excluded, host, known, parsers>>
      /\ UNCHANGED <<fns, inner, exprs, made, unlinked>>
      /\ live' = host /\ linked' = linked \ {Alternative(e) : e \in live \ host}
  BY DEF Retire, classes
<1>2. Walkables' = Walkables
  <2>1. Heads(known)' = Heads(known)
    BY <1>1 DEF Heads
  <2> QED BY <1>1, <2>1, WalkablesStay
<1>3. Analysed'
  BY <1>1, <1>2, AnalysisStays DEF Settled
<1>4. Source' = Source
  <2>1. \A p : On(p)' <=> On(p)
    BY <1>1 DEF On
  <2> QED BY <1>1, <2>1 DEF Source
<1>5. linked' = Linkable'
  <2>1. Linkable' = Source \cup {Alternative(e) : e \in host} \cup (made \ unlinked)
    BY <1>1, <1>4 DEF Linkable
  <2>2. linked = Source \cup {Alternative(e) : e \in live} \cup (made \ unlinked)
    BY DEF Settled, Indexed, Linkable
  <2>3. host \subseteq live
    BY DEF Settled
  <2> QED BY <1>1, <2>1, <2>2, <2>3, AlternativeOfEntry
<1> QED BY <1>1, <1>3, <1>5 DEF Settled, Indexed

\* A production that a scan makes is linked when its class is a predefined one
\* (add_char_class_production).
LEMMA ScanSettles ==
  ASSUME IInv, Settled, NEW nt \in Nts, NEW ch \in Chars, ScanCcFunction(nt, ch)
  PROVE  Settled'
<1>1. /\ UNCHANGED <<grammar, enabled, derive, start, cls, excluded, host, live, known, parsers>>
      /\ UNCHANGED <<fns, inner, exprs>>
      /\ nt \in derived \cup DOMAIN cls
      /\ AddCharClassProduction(nt, ch)
  BY DEF ScanCcFunction, settings
<1>2. Walkables' = Walkables
  <2>1. Heads(known)' = Heads(known)
    BY <1>1 DEF Heads
  <2> QED BY <1>1, <2>1, WalkablesStay
<1>3. Analysed'
  BY <1>1, <1>2, AnalysisStays DEF Settled
<1>4. Source' = Source
  <2>1. \A p : On(p)' <=> On(p)
    BY <1>1 DEF On
  <2> QED BY <1>1, <2>1 DEF Source
<1>5. Linkable' = Source \cup {Alternative(e) : e \in live} \cup (made' \ unlinked')
  BY <1>1, <1>4 DEF Linkable
<1>6. linked = Source \cup {Alternative(e) : e \in live} \cup (made \ unlinked)
  BY DEF Settled, Indexed, Linkable
<1>7. /\ NewCopy(nt, ch) \notin made /\ NewCopy(nt, ch).head = nt /\ unlinked \subseteq made
  BY NewCopyIsNew DEF IInv, LinkedApart
<1>8. Indexed'
  <2>1. CASE made' = made /\ unlinked' = unlinked /\ linked' = linked
    BY <1>1, <1>5, <1>6, <2>1 DEF Settled, Indexed
  <2>2. CASE /\ made' = made \cup {NewCopy(nt, ch)}
             /\ unlinked' = unlinked \cup {NewCopy(nt, ch)} /\ linked' = linked
    <3>1. made' \ unlinked' = made \ unlinked
      BY <1>7, <2>2
    <3> QED BY <1>1, <1>5, <1>6, <2>2, <3>1 DEF Settled, Indexed
  <2>3. CASE /\ nt \notin derived /\ made' = made \cup {NewCopy(nt, ch)}
             /\ unlinked' = unlinked /\ linked' = linked \cup {NewCopy(nt, ch)}
    <3>1. made' \ unlinked' = (made \ unlinked) \cup {NewCopy(nt, ch)}
      BY <1>7, <2>3
    <3>2. linked' = Linkable'
      BY <1>5, <1>6, <2>3, <3>1
    <3>3. nt \in DOMAIN cls'
      BY <1>1, <2>3
    <3> QED BY <1>1, <1>7, <3>1, <3>2, <3>3 DEF Settled, Indexed
  <2> QED BY <1>1, <2>1, <2>2, <2>3 DEF AddCharClassProduction
<1> QED BY <1>1, <1>3, <1>8 DEF Settled

\* The start: nothing was grown (grammar::grammar).
LEMMA InitSettles == Init => Settled
<1> SUFFICES ASSUME Init PROVE Settled
  OBVIOUS
<1>1. /\ host = {} /\ live = {} /\ known = {} /\ parsers = {} /\ made = {} /\ unlinked = {}
      /\ linked = Linkable
  BY DEF Init
<1>2. PICK new \in Outcomes : fns = new.fns /\ inner = new.inner /\ exprs = new.exprs
  BY DEF Init
<1>3. PICK h : IsRounds(h, Cardinality(Nts), Walkables) /\ new = OutcomeOf(h[Cardinality(Nts)])
  BY OutcomesAnalysed
<1>4. IsOutcome(h)
  BY <1>2, <1>3 DEF IsOutcome
<1> QED BY <1>1, <1>4 DEF Settled, Indexed, Analysed

\* Every write, every parse and every scan leaves the classes of the settings.
LEMMA NextSettles ==
  ASSUME OneParser, IInv, Settled, [Next]_vars
  PROVE  Settled'
<1> grammar \in Grammars
  BY DEF IInv
<1>1. ASSUME NEW gs \in SUBSET Guards, SetEnabledProductions(gs) PROVE Settled'
  BY <1>1, RebuildSettles DEF SetEnabledProductions, Rebuild, Settled
<1>2. ASSUME NEW b \in BOOLEAN, DeriveCharClasses(b) PROVE Settled'
  BY <1>2, RebuildSettles DEF DeriveCharClasses, Rebuild, Settled
<1>3. ASSUME NEW s \in Starts, WriteStart(s) PROVE Settled'
  BY <1>3, RebuildSettles DEF WriteStart, Rebuild, Settled
<1>4. ASSUME NEW c \in ClassLists, WriteClasses(c) PROVE Settled'
  BY <1>4, RebuildSettles DEF WriteClasses, Settled
<1>5. ASSUME NEW e \in grammar.entries, AddDynamic(e) PROVE Settled'
  BY <1>5, RebuildSettles DEF AddDynamic, Rebuild, Settled
<1>6. ASSUME NEW e \in grammar.entries, Grow(e) PROVE Settled'
  BY <1>6, GrowSettles
<1>7. CASE ClearDynamic
  BY <1>7, RebuildSettles DEF ClearDynamic, Rebuild, Settled
<1>8. CASE Retire
  BY <1>8, RetireSettles
<1>9. ASSUME NEW children \in grammar.parsers, NewParser(children) PROVE Settled'
  BY <1>9, RebuildSettles DEF NewParser, Rebuild, Settled
<1>10. ASSUME NEW nt \in Nts, NEW ch \in Chars, ScanCcFunction(nt, ch) PROVE Settled'
  BY <1>10, ScanSettles
<1>11. CASE UNCHANGED vars
  <2>1. UNCHANGED <<settings, classes, made, unlinked, linked>>
    BY <1>11 DEF vars
  <2>2. Heads(known)' = Heads(known)
    BY <2>1 DEF settings, Heads
  <2>3. Walkables' = Walkables
    BY <2>1, <2>2, WalkablesStay DEF settings
  <2>4. Analysed'
    BY <2>1, <2>3, AnalysisStays DEF Settled, settings, classes
  <2>5. \A p : On(p)' <=> On(p)
    BY <2>1 DEF On, settings
  <2>6. Source' = Source
    BY <2>1, <2>5 DEF Source, settings
  <2>7. Linkable' = Linkable
    BY <2>1, <2>6 DEF Linkable, settings
  <2> QED BY <2>1, <2>4, <2>7 DEF Settled, Indexed, settings
<1> QED BY <1>1, <1>2, <1>3, <1>4, <1>5, <1>6, <1>7, <1>8, <1>9, <1>10, <1>11 DEF Next

\* With one parser the tree of a character of a class is the tree without the
\* class, for every grammar and order of writes, parses and scans
\* (derived_class_packs, uses_derived_recipe).
THEOREM RecipesHold ==
  ASSUME OneParser
  PROVE  Spec => []RecipesExact
<1>1. IInv /\ MemInv /\ Settled => RecipesExact
  BY RecipesRight DEF IInv, MemInv, Settled
<1>2. IInv /\ MemInv /\ Settled /\ [Next]_vars => IInv' /\ MemInv' /\ Settled'
  BY NextKeepsIInv, NextKeepsFitting, NextSettles
<1> QED BY <1>1, <1>2, InitIInv, InitFits, InitSettles, PTL DEF Spec

\* What the recogniser reads with the classes and what the rules say without
\* them are equations with the same solutions, so with the same least one: a
\* class that is derived, remembered, set aside or dropped changes no language
\* (apply_derived_char_classes, get_char_class_production).
THEOREM ClassesKeepMeaning ==
  ASSUME OneParser
  PROVE  Spec => []SameMeaning
<1>1. IInv /\ MemInv /\ Settled => SameMeaning
  <2> SUFFICES ASSUME IInv, MemInv, Settled, NEW sem
               PROVE  sem = Plain(sem) <=> sem = Scanned(sem)
    BY DEF SameMeaning
  <2>1. /\ grammar \in Grammars /\ cls \in ClassLists /\ live \subseteq known /\ Indexed
    BY DEF IInv, MemInv, Settled
  <2>2. PICK h : IsOutcome(h)
    BY DEF Settled, Analysed
  <2>3. PICK n \in Nat : n = Cardinality(Nts)
    BY NamesAssumption, FS_CardinalityType
  <2>4. IsRounds(h, n, Walkables)
    BY <2>2, <2>3 DEF IsOutcome
  <2>5. ASSUME sem = Plain(sem) PROVE sem = Scanned(sem)
    <3>1. Pairs(sem) /\ \A i \in 0..n : Good(h[i], sem)
      BY <2>1, <2>3, <2>4, <2>5, PlainGood, PlainIs
    <3>2. Scanned(sem) = Plain(sem)
      BY <2>1, <2>2, <2>3, <3>1, SameStep
    <3> QED BY <2>5, <3>2
  <2>6. ASSUME sem = Scanned(sem) PROVE sem = Plain(sem)
    <3>1. Pairs(sem) /\ \A i \in 0..n : Good(h[i], sem)
      BY <2>1, <2>2, <2>3, <2>6, ScannedGood, ScannedIs
    <3>2. Scanned(sem) = Plain(sem)
      BY <2>1, <2>2, <2>3, <3>1, SameStep
    <3> QED BY <2>6, <3>2
  <2> QED BY <2>5, <2>6
<1>2. IInv /\ MemInv /\ Settled /\ [Next]_vars => IInv' /\ MemInv' /\ Settled'
  BY NextKeepsIInv, NextKeepsFitting, NextSettles
<1> QED BY <1>1, <1>2, InitIInv, InitFits, InitSettles, PTL DEF Spec
=============================================================================
