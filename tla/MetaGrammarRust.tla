--------------------------- MODULE MetaGrammarRust ---------------------------
(***************************************************************************)
(* The Rust port of the meta-grammar (rs/src/parser_gbnf.rs): the same     *)
(* rule table, decoder errors recorded rather than thrown, and two caps on *)
(* depth. MAX_GROUP_DEPTH bounds the engine's stack of rules, counted by   *)
(* `rule.d` when a group opens; MAX_NEST_DEPTH bounds the nesting of the   *)
(* elements built, counted in two registers on the parse context:          *)
(*   nest   NEST_KEY, the depth of the element that just completed;        *)
(*   level  LEVEL_KEY, the deepest element completed in the current group; *)
(*   outer  `u.outerMax` of every group on the stack, the outermost first: *)
(*          the enclosing level, put back when the group closes.           *)
(* `*`, `+` and `?` are charged before their wrapper is built, {m,n} after *)
(* (rs/src/terminal.rs:355, 361-363), so a run that is refused may have    *)
(* built one wrapper past the cap. It is dropped at once and never hangs   *)
(* in the tree, so it is not kept in the heap but measured:                *)
(*   dropped  the tallest element a refused run built and threw away.      *)
(***************************************************************************)
EXTENDS MetaGrammar

CONSTANTS MaxGroupDepth, MaxNestDepth

ASSUME DepthAssumption == MaxGroupDepth \in Nat \ {0} /\ MaxNestDepth \in Nat \ {0}
ASSUME RustDefersAssumption == DeferDecode

VARIABLES nest, level, outer, dropped

registers == <<nest, level, outer, dropped>>
rustVars == <<input, pos, stack, heap, decodeErr, outcome, nest, level, outer, dropped>>

\* `rule.d` of the current frame: the outermost rule has depth 0.
Depth == Len(stack) - 1
\* Not in the code: groups counted where the cap counts rules.
MTooManyGroupsCounted == MaxGroupDepth < Len(outer)
\* Not in the code: the last depth allowed is refused.
MTooManyGroupsOff == MaxGroupDepth <= Depth
TooManyGroups == MaxGroupDepth < Depth

\* The run of operators ahead, applied from the left to an element nested
\* nest deep: how deep its first n nest, the refused counts, and the operators
\* that nest too deep.
Ahead == input[pos].ops
Bad(n) == Ahead[n] = "bad"
\* Not in the code: a depth one past the cap is built.
MDeepOff(n) == MaxNestDepth + 1 < nest + Wraps(SubSeq(Ahead, 1, n))
Deep(n) == MaxNestDepth < nest + Wraps(SubSeq(Ahead, 1, n))
Sound == \A n \in 1 .. Len(Ahead) : ~Bad(n) /\ ~Deep(n)
FirstIs(P(_), Q(_)) ==
  \E n \in 1 .. Len(Ahead) : P(n) /\ \A m \in 1 .. n : ~Q(m) /\ (m < n => ~P(m))
FirstDeep(n) == Deep(n) /\ \A m \in 1 .. n - 1 : ~Deep(m)

\* What is built when operator n is refused: the wrappers before it, and its
\* own when it is a {m,n} that is too deep.
\* Not in the code: every wrapper is built before it is charged.
MBuiltBeforeCharged(n) == n
BuiltBefore(n) == IF Ahead[n] = "count" THEN n ELSE n - 1
Drop(n) ==
  LET height == nest + Wraps(SubSeq(Ahead, 1, BuiltBefore(n))) IN
  dropped' = IF dropped < height THEN height ELSE dropped

Refuse(kind) ==
  /\ outcome' = Ended(kind, pos)
  /\ UNCHANGED <<input, pos, stack, heap, decodeErr>>

\* note_level: the element that just completed counts in its group.
NoteLevel(depth) == level' = IF level < depth THEN depth ELSE level

-----------------------------------------------------------------------------
RustInit == Init /\ nest = 0 /\ level = 0 /\ outer = << >> /\ dropped = 0

\* Steps that touch no register.
Unguarded ==
  /\ \/ OpenGbnf \/ OpenProd \/ OpenAlts \/ OpenSeq \/ OpenElem
     \/ CloseSeq \/ CloseAlts \/ CloseProd \/ CloseGbnf
  /\ UNCHANGED registers

\* @atom-bo: an atom nests one deep until its group closes.
RustAtom ==
  /\ AtomTerm \/ AtomEmpty \/ AtomBad
  /\ nest' = 1
  /\ UNCHANGED <<level, outer, dropped>>

\* Not in the code: the new level starts from what the enclosing one holds.
MRustAtomGroupKeepsLevel ==
  /\ AtomGroup
  /\ ~TooManyGroups
  /\ nest' = 1
  /\ outer' = Append(outer, level)
  /\ UNCHANGED <<level, dropped>>

\* @atom-lp: a group is refused before its rules are pushed; otherwise it
\* becomes the current level.
RustAtomGroup ==
  /\ AtomGroup
  /\ ~TooManyGroups
  /\ nest' = 1
  /\ level' = 0
  /\ outer' = Append(outer, level)
  /\ UNCHANGED dropped

RefuseGroup ==
  /\ At("atom", "open")
  /\ KindAt(pos) = "LP"
  /\ TooManyGroups
  /\ Refuse("depth")
  /\ nest' = 1
  /\ UNCHANGED <<level, outer, dropped>>

\* @atom-group-close: one deeper than the deepest element inside.
RustCloseGroup ==
  /\ CloseGroup
  /\ level < MaxNestDepth
  /\ nest' = level + 1
  /\ level' = outer[Len(outer)]
  /\ outer' = SubSeq(outer, 1, Len(outer) - 1)
  /\ UNCHANGED dropped

RefuseCloseGroup ==
  /\ At("atom", "close")
  /\ GroupAhead
  /\ level >= MaxNestDepth
  /\ Refuse("nest")
  /\ level' = outer[Len(outer)]
  /\ UNCHANGED <<nest, outer, dropped>>

\* A group left open leaves without putting the enclosing level back: only
\* its own `u` bag goes.
RustCloseAtom ==
  /\ CloseAtom
  /\ outer' = IF Top.grouped THEN SubSeq(outer, 1, Len(outer) - 1) ELSE outer
  /\ UNCHANGED <<nest, level, dropped>>

RustElemPlain ==
  /\ ElemPlain
  /\ IF Top.child = Undef THEN level' = level ELSE NoteLevel(nest)
  /\ UNCHANGED <<nest, outer, dropped>>

\* @elem-post. A run that wraps nothing, on an atom that left no node,
\* changes nothing; otherwise each operator that wraps is charged.
RustElemPost ==
  /\ ElemPost
  /\ \/ Top.child = Undef /\ UNCHANGED <<nest, level>>
     \/ /\ Top.child # Undef /\ Sound
        /\ nest' = nest + Wraps(Ahead)
        /\ NoteLevel(nest + Wraps(Ahead))
  /\ UNCHANGED <<outer, dropped>>

\* A count is refused before it is charged or built.
RustElemPostBad ==
  /\ ElemPostBad
  /\ FirstIs(Bad, Deep)
  /\ \E n \in 1 .. Len(Ahead) : Bad(n) /\ (\A m \in 1 .. n - 1 : ~Bad(m)) /\ Drop(n)
  /\ UNCHANGED <<nest, level, outer>>

\* A wrapper that is too deep comes before any refused count.
RefusePost ==
  /\ At("elem", "close")
  /\ KindAt(pos) = "POST"
  /\ Top.child # Undef
  /\ FirstIs(Deep, Bad)
  /\ Refuse("nest")
  /\ \E n \in 1 .. Len(Ahead) : FirstDeep(n) /\ Drop(n)
  /\ UNCHANGED <<nest, level, outer>>

\* The bo hook of an atom runs before its alternatives are tried.
RustUnexpected ==
  /\ Unexpected
  /\ nest' = IF Top.rule = "atom" THEN 1 ELSE nest
  /\ UNCHANGED <<level, outer, dropped>>

Refusal == RefuseGroup \/ RefuseCloseGroup \/ RefusePost

RustStep ==
  \/ Unguarded \/ RustAtom \/ RustAtomGroup \/ RustCloseGroup \/ RustCloseAtom
  \/ RustElemPlain \/ RustElemPost \/ RustElemPostBad \/ RustUnexpected
  \/ Refusal

RustNext == RustStep \/ (~Running /\ UNCHANGED rustVars)

RustSpec == RustInit /\ [][RustNext]_rustVars

-----------------------------------------------------------------------------
(* How deep elements nest, measured on the tree and not by the registers.  *)

Elements == {r \in DOMAIN heap : heap[r].kind \in {"term", "rep", "group"}}
Kids(h, r) == {h[r].kids[i] : i \in DOMAIN h[r].kids}
\* What hangs from a group's array of alternatives.
Members(h, alts) == UNION {Kids(h, seq) : seq \in Kids(h, alts)}
Tallest(S) == CHOOSE n \in S \cup {0} : \A m \in S : m <= n

\* The height of a cell in h, where d gives those of the cells under it.
HeightOf(h, d, r) ==
  LET c == h[r] IN
  CASE c.kind = "term" -> 1
    [] c.kind = "rep" -> c.levels + d[c.kids[1]]
    [] c.kind = "group" -> 1 + Tallest({d[m] : m \in Members(h, c.kids[1])})
    [] OTHER -> 0
Height[r \in DOMAIN heap] == HeightOf(heap, Height, r)

(* Properties.                                                             *)

\* MAX_GROUP_DEPTH keeps the engine's stack of rules within a constant of
\* the cap (rs/tests/untrusted_test.rs: refused before it can overflow).
StackBounded == Len(stack) <= MaxGroupDepth + 5

\* NEST_KEY is the true depth of the element elem is about to wrap or push,
\* whatever groups closed, were left open or were empty on the way
\* (@atom-group-close, note_level).
NestExact ==
  Running /\ Top.rule = "elem" /\ Top.phase = "close" /\ Top.child # Undef
    => nest = Height[Top.child]

\* No element of the tree is deeper than MAX_NEST_DEPTH.
TreeBounded == \A r \in Elements : Height[r] <= MaxNestDepth

\* What is thrown away is at most one deeper, and only when the parse ends
\* there: on the first operator of a run that is too deep, and a {m,n}.
DropBounded ==
  /\ dropped <= MaxNestDepth + 1
  /\ MaxNestDepth < dropped =>
       /\ outcome = Ended("nest", pos)
       /\ \E n \in 1 .. Len(Ahead) : FirstDeep(n) /\ Ahead[n] = "count"

\* No value, kept or thrown away, is so deep that a walk over it overflows:
\* every one recurses, the drop included (apply_postfix, check_nest). The
\* tree stays within MAX_NEST_DEPTH; a value dropped on the way is within it
\* too, except the one wrapper a refused {m,n} builds before it is charged.
DepthBounded == TreeBounded /\ DropBounded
=============================================================================
