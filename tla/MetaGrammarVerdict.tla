------------------------- MODULE MetaGrammarVerdict -------------------------
(***************************************************************************)
(* Which token sequences the meta-grammar parse accepts, where it stops    *)
(* and why, stated over the tokens alone, without a stack.                 *)
(***************************************************************************)
EXTENDS MetaGrammar, FiniteSetsExt

-----------------------------------------------------------------------------
(* Where each token stands, read off the tokens to its left.               *)

Positions == 1 .. Len(input)
Count(kind, from, to) == Cardinality({j \in from .. to : KindAt(j) = kind})

\* Where the production holding token i begins.
ProdStart(i) == Max({0} \cup {j \in 1 .. i : ProdAt(j)})

\* The groups still open just before token i.
OpenBefore(i) == Count("LP", ProdStart(i), i - 1) - Count("RP", ProdStart(i), i - 1)

\* A token no GBNF rule has a place for, given a well-placed prefix.
Misplaced(i) ==
  \/ i = 1 /\ ~ProdAt(1)
  \/ KindAt(i) = "DEF" /\ ~ProdAt(i - 1)
  \/ KindAt(i) = "POST" /\ KindAt(i - 1) \notin {"NM", "TERM", "EMPTY", "BADTERM", "RP"}
  \/ KindAt(i) = "RP" /\ OpenBefore(i) = 0

\* A token whose decoder fails: a repetition is decoded only when there is
\* an element for it to wrap.
Undecodable(i) ==
  \/ KindAt(i) = "BADTERM"
  \/ /\ KindAt(i) = "POST" /\ BadRun(input[i].ops)
     /\ KindAt(i - 1) \notin {"EMPTY", "BADTERM"}

\* The first position in 1 .. Len(input) satisfying P, or Len(input) + 1.
First(P(_)) == Min({Len(input) + 1} \cup {i \in Positions : P(i)})

\* How the parse must end: the first fault met from the left decides.
Verdict ==
  LET fault == First(Misplaced)
      bad == First(Undecodable)
  IN CASE bad < fault -> [kind |-> "decode", at |-> bad]
       [] bad >= fault /\ fault \in Positions -> [kind |-> "unexpected", at |-> fault]
       [] input = << >> -> [kind |-> "empty", at |-> 1]
       [] OTHER -> [kind |-> "ok", at |-> Len(input) + 1]

\* The parse ends as the tokens say it must: accepted exactly when every
\* token is in place and decodes, otherwise at the first fault from the left,
\* a decoder's fault before an engine complaint further on; whether the
\* decoder throws (parseGbnf, converter.ts) or its error is kept for the end
\* of the parse (ParseGbnf and failAt in Go, parse_gbnf_raw in Rust).
VerdictExact == ~Running => outcome = Verdict
=============================================================================
