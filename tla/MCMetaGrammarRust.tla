-------------------------- MODULE MCMetaGrammarRust --------------------------
(***************************************************************************)
(* The sources TLC gives the Rust port: one production with a body of up   *)
(* to MaxBody tokens of every kind a body can hold, and one of up to       *)
(* MaxDeep tokens that only nest, where both caps are met; then each of    *)
(* the short bodies again with a second production behind it, which meets  *)
(* the registers an abandoned group left.                                  *)
(***************************************************************************)
EXTENDS MetaGrammarRustProps, SequencesExt

CONSTANTS MaxBody, MaxDeep, MaxFirst

Plain(k) == [k |-> k, ops |-> << >>]
Post(ops) == [k |-> "POST", ops |-> ops]

Alphabet == {Plain(k) : k \in Kinds \ {"POST"}}
              \cup {Post(ops) : ops \in {<<"wrap">>, <<"keep">>, <<"wrap", "count">>,
                                         <<"count", "bad">>, <<"bad", "wrap">>}}
Nesting == {Plain(k) : k \in {"LP", "RP", "TERM"}} \cup {Post(<<"wrap">>), Post(<<"count">>)}

Production(body) == <<Plain("NM"), Plain("DEF")>> \o body
Second == Production(<<Plain("LP"), Plain("TERM"), Plain("RP"), Post(<<"wrap">>)>>)

MCInputs ==
  {Production(body) : body \in BoundedSeq(Alphabet, MaxBody) \cup BoundedSeq(Nesting, MaxDeep)}
    \cup {Production(body) \o Second : body \in BoundedSeq(Nesting, MaxFirst)}
=============================================================================
