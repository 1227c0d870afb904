---------------------------- MODULE MCMetaGrammar ----------------------------
(***************************************************************************)
(* The token sequences TLC parses: every sequence of up to MaxAny tokens;  *)
(* every continuation of `NM ::=` (anything else fails at its first token) *)
(* by up to MaxBody tokens; and, for deeper nesting, one production whose  *)
(* body is up to MaxDeep terminals, groups, alternatives and repetitions.  *)
(***************************************************************************)
EXTENDS MetaGrammarProps

CONSTANTS MaxAny, MaxBody, MaxDeep

Plain(k) == [k |-> k, ops |-> << >>]
Post(ops) == [k |-> "POST", ops |-> ops]

\* Runs that wrap once, leave the element alone, and are refused.
Alphabet == {Plain(k) : k \in Kinds \ {"POST"}}
              \cup {Post(ops) : ops \in {<<"wrap">>, <<"keep">>, <<"wrap", "bad">>}}
Nesting == {Plain(k) : k \in {"LP", "RP", "TERM", "ALT"}} \cup {Post(<<"wrap">>)}

Production(bodies) == {<<Plain("NM"), Plain("DEF")>> \o body : body \in bodies}

MCInputs ==
  BoundedSeq(Alphabet, MaxAny)
    \cup Production(BoundedSeq(Alphabet, MaxBody))
    \cup Production(BoundedSeq(Nesting, MaxDeep))
=============================================================================
