----------------------------- MODULE MCInstall -----------------------------
(***************************************************************************)
(* Two kinds of grammars: Wide, whose classes have their ends at the ends  *)
(* of the code space, each called once; and a few Varied ones that fail,   *)
(* compile to other things than their classes, or do neither, called in    *)
(* every order.                                                            *)
(***************************************************************************)
EXTENDS Install

CONSTANTS MaxMembers

Ends == {0, 1, MAX_CP - 1, MAX_CP}
MCPoints == Ends \cup {2, MAX_CP - 2, 97, 98}

Members_ ==
  {Member(lo, hi, TRUE) : lo \in Ends, hi \in Ends} \cup {Member(c, c, FALSE) : c \in Ends}
Upward == {m \in Members_ : m.lo <= m.hi}
PatternOf(negated, ms) == Emitted(negated, ms).pattern
Classes == {PatternOf(n, ms) : n \in BOOLEAN, ms \in BoundedSeq(Upward, MaxMembers) \ {<< >>}}
Probes ==
  {PatternOf(FALSE, <<Member(0, 0, FALSE)>>), PatternOf(FALSE, <<Member(MAX_CP, MAX_CP, FALSE)>>),
   PatternOf(TRUE, <<Member(1, MAX_CP - 1, TRUE)>>)}

ClassIn(p) == [kind |-> "regex", pattern |-> p]
Literal_(cp) == [kind |-> "term", head |-> cp]
Sound(terminals) ==
  [terminals |-> terminals, faults |-> << >>, parses |-> TRUE, compiles |-> TRUE, panics |-> FALSE]

\* Two classes, or a class and a literal.
Wide ==
  {Sound({ClassIn(p), ClassIn(q)}) : p \in Classes, q \in Probes}
    \cup {Sound({ClassIn(p), Literal_(c)}) : p \in Classes, c \in {0, MAX_CP}}

A == PatternOf(FALSE, <<Member(97, 97, FALSE)>>)
Foreign == Bracketed(<<Raw(97)>>)
Varied ==
  {Sound({ClassIn(A), Literal_(0)}), Sound({ClassIn(A), Literal_(97)}), Sound({Literal_(97)}),
   Sound({ClassIn(A), ClassIn(AnyChar)}), Sound({ClassIn(Foreign), Literal_(0)}),
   [Sound({}) EXCEPT !.faults = <<"first", "second">>],
   [Sound({}) EXCEPT !.faults = <<"other">>, !.panics = TRUE],
   [Sound({}) EXCEPT !.parses = FALSE], [Sound({}) EXCEPT !.compiles = FALSE]}

\* A wide grammar is the only call.
MCGrammars == Wide \cup Varied
MCCallable(n, g) == IF n = 0 THEN MCGrammars ELSE IF g \in Wide THEN {} ELSE Varied

\* The classes become tokens, marked or not; one of them may be split into atoms
\* that a token set names, and a keyword's guard may join them.
Emitted_(tokens, sets, empty) ==
  [NoSpec EXCEPT !.tokens = tokens, !.sets = sets, !.empty = empty]
MCEmissions(g) ==
  LET ps == Patterns(g)
      atom == <<Raw(0)>>
  IN IF g \in Wide THEN {Emitted_([p \in ps |-> TRUE], << >>, Unset)}
     ELSE {Emitted_([p \in ps |-> e], << >>, n) : e \in BOOLEAN, n \in {"accepts", "rejects"}}
          \cup {Emitted_([p \in ps \cup {atom} |-> TRUE], [C |-> "atoms"], "rejects")}
=============================================================================
