------------------------ MODULE MetaGrammarRustProps ------------------------
(***************************************************************************)
(* What the Rust port's depth caps refuse, read off the token sequence     *)
(* alone, without the stack, the tree or the registers.                    *)
(***************************************************************************)
EXTENDS MetaGrammarRust, MetaGrammarVerdict

-----------------------------------------------------------------------------
(* How deep elements nest, read off the tokens: TokenHeight[i] is the      *)
(* depth of the element that ends with token i, 0 where none ends.         *)

\* The last `(` that is not closed before i and is by i, 0 if there is none.
Opener(i) ==
  Max({0} \cup {j \in 1 .. i : KindAt(j) = "LP" /\ Count("LP", j, i) = Count("RP", j, i)})

\* The same at token i, where h gives it for the tokens before.
TokenHeightOf(h, i) ==
  CASE KindAt(i) \in {"TERM", "NM"} -> 1
    [] KindAt(i) = "POST" -> IF h[i - 1] = 0 THEN 0 ELSE h[i - 1] + Wraps(input[i].ops)
    [] KindAt(i) = "RP" -> 1 + Tallest({h[j] : j \in Opener(i) + 1 .. i - 1})
    [] OTHER -> 0
TokenHeight[i \in 0 .. Len(input)] == TokenHeightOf(TokenHeight, i)

\* What the caps refuse: the group after the last one allowed, counting four
\* rules each, and an element too deep.
OverGroups(i) == KindAt(i) = "LP" /\ MaxGroupDepth < 4 * OpenBefore(i) + 5
OverNested(i) ==
  \/ KindAt(i) = "RP" /\ MaxNestDepth < TokenHeight[i]
  \/ /\ KindAt(i) = "POST" /\ TokenHeight[i - 1] > 0
     /\ LET ops == input[i].ops
            bad == Min({Len(ops) + 1} \cup {n \in 1 .. Len(ops) : ops[n] = "bad"})
        IN MaxNestDepth < TokenHeight[i - 1] + Wraps(SubSeq(ops, 1, bad - 1))

\* What stops the parse, and what is only kept for its end.
RustFault(i) == Misplaced(i) \/ OverGroups(i) \/ OverNested(i)
RustUndecodable(i) == Undecodable(i) /\ ~RustFault(i)

\* How the parse must end: the first fault from the left stops it, unless a
\* decoder complained about an earlier token.
RustVerdict ==
  LET stop == First(RustFault)
      bad == First(RustUndecodable)
  IN CASE bad < stop -> [kind |-> "decode", at |-> bad]
       [] bad >= stop /\ stop \in Positions ->
            [kind |-> IF Misplaced(stop) THEN "unexpected"
                      ELSE IF OverGroups(stop) THEN "depth" ELSE "nest", at |-> stop]
       [] input = << >> -> [kind |-> "empty", at |-> 1]
       [] OTHER -> [kind |-> "ok", at |-> Len(input) + 1]

-----------------------------------------------------------------------------
(* Properties.                                                             *)

\* A source is refused for its depth exactly when it is too deep, at the
\* token that makes it so, and otherwise ends as in the other ports.
RustVerdictExact == ~Running => outcome = RustVerdict
=============================================================================
