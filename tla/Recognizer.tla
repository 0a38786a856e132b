------------------------------ MODULE Recognizer ------------------------------
(***************************************************************************)
(* What parser::parse promises its caller: one answer, given in finite     *)
(* time, and it tells whether the input belongs to the language.           *)
(***************************************************************************)
VARIABLES
  InLanguage,  \* whether the input belongs to the language of the grammar
  answer       \* "none" until the parse returns

Init == InLanguage \in BOOLEAN /\ answer = "none"

\* parse() returns: parser_result.found
Decide ==
  /\ answer = "none"
  /\ answer' = IF InLanguage THEN "accept" ELSE "reject"
  /\ UNCHANGED InLanguage

Spec == Init /\ [][Decide]_<<InLanguage, answer>>

\* every parse returns
Answers == <>(answer # "none")
===============================================================================
