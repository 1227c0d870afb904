-------------------------- MODULE MetaGrammarProps --------------------------
(***************************************************************************)
(* Which tokens the tree of an accepted source holds, and in which order.  *)
(***************************************************************************)
EXTENDS MetaGrammarVerdict, SequencesExt

-----------------------------------------------------------------------------
(* Which tokens the tree holds.                                            *)

ProdEnd(i) == Min({Len(input) + 1} \cup {j \in i + 1 .. Len(input) : ProdAt(j)}) - 1

\* A `(` whose production ends before the `)` that would close it.
Unclosed(i) ==
  /\ KindAt(i) = "LP"
  /\ \A j \in i .. ProdEnd(i) : Count("LP", i, j) > Count("RP", i, j)

\* Inside an unclosed group, from its `(` to the end of the production.
Abandoned(i) == \E j \in ProdStart(i) .. i : Unclosed(j)

\* What makes or wraps an element, or sets elements apart.
Spelled(i) ==
  /\ KindAt(i) \notin {"DEF", "EMPTY"}
  /\ KindAt(i) = "POST" => Wraps(input[i].ops) > 0 /\ KindAt(i - 1) # "EMPTY"

Kept(i) == Spelled(i) /\ ~Abandoned(i)

\* `|` leaves no span in the tree, so it is compared as 0.
Mark(i) == IF KindAt(i) = "ALT" THEN 0 ELSE i

\* The first n tokens, without those that are not in K.
Sift(K, n) == FlattenSeq([i \in 1 .. n |-> IF i \in K THEN <<Mark(i)>> ELSE << >>])

ExpectedYield == Sift({i \in Positions : Kept(i)}, Len(input))

\* The cells kids, in order, where y spells each of them.
Joined(y, kids, separator) ==
  FlattenSeq([i \in 1 .. Len(kids) |-> IF i = 1 THEN y[kids[i]] ELSE separator \o y[kids[i]]])

\* Cell r of h written back out, as token positions, where y does so for the
\* cells it is made of.
YieldOf(h, y, r) ==
  LET c == h[r] IN
  CASE c.kind = "term" -> <<c.tok>>
    [] c.kind = "rep" -> y[c.kids[1]] \o <<c.tok>>
    [] c.kind = "group" -> <<c.tok>> \o y[c.kids[1]] \o <<c.end>>
    [] c.kind = "prod" -> <<c.tok>> \o y[c.kids[1]]
    [] c.kind = "alts" -> Joined(y, c.kids, <<0>>)
    [] OTHER -> Joined(y, c.kids, << >>)
Yield[r \in DOMAIN heap] == YieldOf(heap, Yield, r)

-----------------------------------------------------------------------------
(* Properties.                                                             *)

\* The productions an accepted source yields hold every token of it, once,
\* in source order and under the right parentheses, but for the empty
\* literals (with the repetitions on them), the repetitions {1}, and what an
\* unclosed group abandons.
YieldExact == outcome.kind = "ok" => Yield[1] = ExpectedYield

\* Every parse returns: no rule cycle of the table runs without consuming.
Terminates == <>(~Running)

\* rs/tests/untrusted_test.rs:157 names what it tests
\* `an_unbalanced_paren_is_refused_rather_than_looping`: a source that is
\* accepted has no group left open.
UnbalancedParenRefused == outcome.kind = "ok" => \A i \in Positions : ~Unclosed(i)
=============================================================================
