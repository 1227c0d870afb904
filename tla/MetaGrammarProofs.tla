-------------------------- MODULE MetaGrammarProofs --------------------------
(***************************************************************************)
(* Proofs about the meta-grammar parse, for every set of inputs: which     *)
(* rules its stack runs, that its heap is a forest, and that it ends as    *)
(* its tokens say, for every source of any length.                         *)
(***************************************************************************)
EXTENDS MetaGrammarVerdict, SequenceTheorems, FiniteSetTheorems, TLAPS

-----------------------------------------------------------------------------
(* Which rule may stand on which.                                          *)

\* A frame's depth fixes its rule, and the rule its child's.
LEMMA NextRule ==
  ASSUME NEW n \in Nat, n > 0
  PROVE  /\ RuleAt(n) = "gbnf" <=> n = 1
         /\ RuleAt(n) = "prod" <=> n = 2
         /\ RuleAt(n) = "gbnf" => RuleAt(n + 1) = "prod"
         /\ RuleAt(n) = "prod" => RuleAt(n + 1) = "alts"
         /\ RuleAt(n) = "alts" => RuleAt(n + 1) = "seq"
         /\ RuleAt(n) = "seq" => RuleAt(n + 1) = "elem"
         /\ RuleAt(n) = "elem" => RuleAt(n + 1) = "atom"
         /\ RuleAt(n) = "atom" => RuleAt(n + 1) = "alts"
BY SMT DEF RuleAt

-----------------------------------------------------------------------------
(* The three ways a step leaves the stack.                                 *)

LEMMA StayProperties ==
  ASSUME stack \in Seq(Frames), Shaped(stack),
         NEW f \in Frames, f.rule = Top.rule, f.grouped => f.rule = "atom"
  PROVE  /\ Stay(f) \in Seq(Frames)
         /\ Len(Stay(f)) = Len(stack)
         /\ \A i \in 1 .. Len(stack) :
              Stay(f)[i] = IF i = Len(stack) THEN [f EXCEPT !.phase = "close"] ELSE stack[i]
         /\ Shaped(Stay(f))
<1> DEFINE g == [f EXCEPT !.phase = "close"]
<1>1. Len(stack) \in 1 .. Len(stack)
  BY LenProperties DEF Shaped
<1>2. g \in Frames
  BY DEF Frames
<1>3. /\ Stay(f) \in Seq(Frames)
      /\ Len(Stay(f)) = Len(stack)
      /\ \A i \in 1 .. Len(stack) : Stay(f)[i] = IF i = Len(stack) THEN g ELSE stack[i]
  BY <1>1, <1>2, ExceptSeq DEF Stay
<1>4. g.rule = RuleAt(Len(stack)) /\ (g.grouped => g.rule = "atom")
  BY <1>1 DEF Shaped, ShapedAt, Top, Frames
<1>5. ASSUME NEW i \in 1 .. Len(stack) PROVE ShapedAt(Stay(f), i)
  <2>1. CASE i = Len(stack)
    <3>1. Stay(f)[i] = g
      BY <1>1, <1>3, <2>1
    <3> QED BY <1>1, <1>3, <1>4, <2>1, <3>1 DEF ShapedAt
  <2>2. CASE i < Len(stack)
    <3>1. Stay(f)[i] = stack[i] /\ ShapedAt(stack, i)
      BY <1>1, <1>3, <2>2 DEF Shaped
    <3> QED BY <1>3, <2>2, <3>1 DEF ShapedAt
  <2> QED BY <1>1, <2>1, <2>2
<1>6. Shaped(Stay(f))
  BY <1>1, <1>3, <1>5 DEF Shaped
<1> QED BY <1>3, <1>6

LEMMA PushProperties ==
  ASSUME stack \in Seq(Frames), Shaped(stack),
         NEW f \in Frames, f.rule = Top.rule,
         f.grouped <=> f.rule = "atom",
         NEW rule \in Rules, rule = RuleAt(Len(stack) + 1)
  PROVE  /\ PushRule(f, rule) \in Seq(Frames)
         /\ Len(PushRule(f, rule)) = Len(stack) + 1
         /\ Shaped(PushRule(f, rule))
<1> DEFINE g == NewFrame(rule, f.node)
           s == Stay(f)
<1>1. /\ s \in Seq(Frames)
      /\ Len(s) = Len(stack)
      /\ Shaped(s)
      /\ s[Len(stack)] = [f EXCEPT !.phase = "close"]
      /\ Len(stack) \in Nat \ {0}
  <2>1. Len(stack) \in Nat \ {0}
    BY LenProperties DEF Shaped
  <2> QED BY <2>1, StayProperties
<1>2. g \in Frames /\ g.rule = rule /\ g.grouped = FALSE
  BY DEF NewFrame, Frames, Undef
<1>3. /\ Append(s, g) \in Seq(Frames)
      /\ Len(Append(s, g)) = Len(stack) + 1
      /\ \A i \in 1 .. Len(stack) : Append(s, g)[i] = s[i]
      /\ Append(s, g)[Len(stack) + 1] = g
  BY <1>1, <1>2, AppendProperties
<1>4. s[Len(stack)].phase = "close"
      /\ (s[Len(stack)].rule = "atom" => s[Len(stack)].grouped)
  BY <1>1 DEF Frames
<1>5. ASSUME NEW i \in 1 .. Len(stack) + 1 PROVE ShapedAt(Append(s, g), i)
  <2>1. CASE i = Len(stack) + 1
    BY <1>2, <1>3, <2>1 DEF ShapedAt
  <2>2. CASE i \in 1 .. Len(stack)
    <3>1. Append(s, g)[i] = s[i] /\ ShapedAt(s, i)
      BY <1>1, <1>3, <2>2 DEF Shaped
    <3>2. CASE i = Len(stack)
      BY <1>3, <1>4, <2>2, <3>1, <3>2 DEF ShapedAt
    <3>3. CASE i < Len(stack)
      BY <1>1, <1>3, <2>2, <3>1, <3>3 DEF ShapedAt
    <3> QED BY <1>1, <2>2, <3>2, <3>3
  <2> QED BY <1>1, <2>1, <2>2
<1>6. Shaped(Append(s, g))
  BY <1>1, <1>3, <1>5 DEF Shaped
<1> QED BY <1>3, <1>6 DEF PushRule

LEMMA PopProperties ==
  ASSUME stack \in Seq(Frames), Shaped(stack), Top.rule # "gbnf", NEW node \in Nat
  PROVE  /\ PopRule(node) \in Seq(Frames)
         /\ Len(PopRule(node)) = Len(stack) - 1
         /\ Shaped(PopRule(node))
<1> DEFINE n == Len(stack) - 1
           s == PopRule(node)
<1>1. Len(stack) \in Nat \ {0}
  BY LenProperties DEF Shaped
<1>2. n \in Nat \ {0}
  BY <1>1 DEF Shaped, ShapedAt, Top, RuleAt
<1>3. \A i \in 1 .. n : stack[i] \in Frames
  BY <1>1, ElementOfSeq
<1>4. s \in [1 .. n -> Frames]
  BY <1>3 DEF PopRule, Frames
<1>5. s \in Seq(Frames) /\ Len(s) = n
  BY <1>2, <1>4, LenProperties, SeqDef
<1>6. \A i \in 1 .. n : /\ s[i].rule = stack[i].rule
                        /\ s[i].phase = stack[i].phase
                        /\ s[i].grouped = stack[i].grouped
  BY <1>3 DEF PopRule, Frames
<1>7. ASSUME NEW i \in 1 .. n PROVE ShapedAt(s, i)
  <2>1. ShapedAt(stack, i) /\ i < Len(stack)
    BY <1>1 DEF Shaped
  <2> QED BY <1>5, <1>6, <2>1 DEF ShapedAt
<1>8. Shaped(s)
  BY <1>2, <1>5, <1>7 DEF Shaped
<1> QED BY <1>5, <1>8

LEMMA TopFrame ==
  ASSUME stack \in Seq(Frames), Shaped(stack)
  PROVE  /\ Len(stack) \in Nat \ {0}
         /\ Top \in Frames
         /\ Top.rule = RuleAt(Len(stack))
         /\ Top.grouped => Top.rule = "atom"
<1>1. Len(stack) \in Nat \ {0}
  BY LenProperties DEF Shaped
<1>2. Top \in Frames
  BY <1>1, ElementOfSeq DEF Top
<1>3. ShapedAt(stack, Len(stack))
  BY <1>1 DEF Shaped
<1> QED BY <1>1, <1>2, <1>3 DEF ShapedAt, Top

-----------------------------------------------------------------------------
(* The heap.                                                               *)

LEMMA PushNodeType ==
  ASSUME NEW h \in Seq(Cells), NEW list \in Nat, NEW ref \in Nat
  PROVE  PushNode(h, list, ref) \in Seq(Cells)
<1> DEFINE c == [h[list] EXCEPT !.kids = Append(h[list].kids, ref)]
<1>1. CASE list \in 1 .. Len(h)
  <2>1. h[list] \in Cells
    BY <1>1, ElementOfSeq
  <2>2. h[list].kids \in Seq(Nat)
    BY <2>1 DEF Cells
  <2>3. Append(h[list].kids, ref) \in Seq(Nat)
    BY <2>2, AppendProperties
  <2>4. c \in Cells
    BY <2>1, <2>3 DEF Cells
  <2> QED BY <1>1, <2>4, ExceptSeq DEF PushNode
<1>2. CASE list \notin 1 .. Len(h)
  <2>1. h \in [1 .. Len(h) -> Cells]
    BY LenProperties
  <2>2. [h EXCEPT ![list] = c] = h
    BY <1>2, <2>1
  <2> QED BY <2>2 DEF PushNode
<1> QED BY <1>1, <1>2

\* A run of operators builds a natural number of wrappers.
LEMMA WrapsType == ASSUME NEW ops \in Seq(Ops) PROVE Wraps(ops) \in Nat
<1>1. Len(ops) \in Nat
  BY LenProperties
<1>2. IsFiniteSet(1 .. Len(ops))
  BY <1>1, FS_Interval
<1>3. IsFiniteSet({i \in 1 .. Len(ops) : ops[i] \in Wrappers})
  BY <1>2, FS_Subset
<1> QED BY <1>3, FS_CardinalityType DEF Wraps

-----------------------------------------------------------------------------
(* Tokens ahead.                                                           *)

LEMMA Lookahead ==
  ASSUME TypeOK
  PROVE  /\ Len(input) \in Nat
         /\ KindAt(pos) # "ZZ" => pos \in 1 .. Len(input) /\ pos + 1 \in 1 .. Len(input) + 1
         /\ ProdAt(pos) => pos \in 1 .. Len(input) /\ pos + 2 \in 1 .. Len(input) + 1
         /\ pos \in 1 .. Len(input) => input[pos].ops \in Seq(Ops)
<1>1. Len(input) \in Nat /\ pos \in Nat
  BY LenProperties DEF TypeOK
<1>2. ASSUME pos \in 1 .. Len(input) PROVE input[pos].ops \in Seq(Ops)
  <2>1. input[pos] \in Tokens
    BY <1>2, ElementOfSeq DEF TypeOK
  <2> QED BY <2>1 DEF Tokens
<1> QED BY <1>1, <1>2 DEF KindAt, ProdAt, TypeOK

-----------------------------------------------------------------------------
(* The inductive invariant: the types, and the shape of the stack, without *)
(* which a rule might be popped from under the last one.                   *)

IInv == TypeOK /\ StackShape

LEMMA InitIInv == Init => IInv
<1> SUFFICES ASSUME Init PROVE IInv
  OBVIOUS
<1> DEFINE f == NewFrame("gbnf", Undef)
<1>1. f \in Frames /\ f.rule = "gbnf" /\ ~f.grouped
  BY DEF NewFrame, Frames, Rules, Undef
<1>2. stack \in Seq(Frames) /\ Len(stack) = 1 /\ stack[1] = f
  BY <1>1 DEF Init
<1>3. ShapedAt(stack, 1)
  BY <1>1, <1>2 DEF ShapedAt, RuleAt
<1>4. StackShape
  BY <1>2, <1>3 DEF StackShape, Shaped
<1>5. input \in Seq(Tokens)
  BY InputsAssumption DEF Init
<1>6. Len(input) \in Nat
  BY <1>5, LenProperties
<1>7. heap \in Seq(Cells)
  BY EmptySeq DEF Init
<1>8. TypeOK
  BY <1>2, <1>5, <1>6, <1>7 DEF Init, TypeOK, Outcomes
<1> QED BY <1>4, <1>8 DEF IInv

LEMMA StepIInv == IInv /\ [Next]_vars => IInv'
<1> SUFFICES ASSUME TypeOK, StackShape, [Next]_vars
             PROVE  TypeOK' /\ StackShape'
  BY DEF IInv
<1> USE DEF StackShape
<1>a. stack \in Seq(Frames) /\ Shaped(stack) /\ heap \in Seq(Cells)
  BY DEF TypeOK
<1>b. /\ Len(stack) \in Nat \ {0}
      /\ Top \in Frames
      /\ Top.rule = RuleAt(Len(stack))
      /\ Top.grouped => Top.rule = "atom"
  BY <1>a, TopFrame
<1>len. Len(input) \in Nat
  BY LenProperties DEF TypeOK
<1>c. Fresh \in Nat
  BY <1>a, LenProperties DEF Fresh
\* What each way of leaving the stack preserves, in one fact each.
<1>pos. pos \in Nat
  BY <1>len DEF TypeOK
<1>stay. ASSUME NEW f \in Frames, f.rule = Top.rule, f.grouped => f.rule = "atom",
                stack' = Stay(f)
         PROVE  stack' \in Seq(Frames) /\ Shaped(stack')
  BY <1>a, <1>stay, StayProperties
<1>push. ASSUME NEW f \in Frames, f.rule = Top.rule, f.grouped <=> f.rule = "atom",
                NEW rule \in Rules, rule = RuleAt(Len(stack) + 1),
                stack' = PushRule(f, rule)
         PROVE  stack' \in Seq(Frames) /\ Shaped(stack')
  BY <1>a, <1>push, PushProperties
<1>pop. ASSUME NEW node \in Nat, Top.rule # "gbnf", stack' = PopRule(node)
        PROVE  stack' \in Seq(Frames) /\ Shaped(stack')
  BY <1>a, <1>pop, PopProperties
<1>rules. /\ Top.rule = "gbnf" => RuleAt(Len(stack) + 1) = "prod"
          /\ Top.rule = "prod" => RuleAt(Len(stack) + 1) = "alts"
          /\ Top.rule = "alts" => RuleAt(Len(stack) + 1) = "seq"
          /\ Top.rule = "seq" => RuleAt(Len(stack) + 1) = "elem"
          /\ Top.rule = "elem" => RuleAt(Len(stack) + 1) = "atom"
          /\ Top.rule = "atom" => RuleAt(Len(stack) + 1) = "alts"
  BY <1>b, NextRule
\* The current frame with a new node, token or mark.
<1>frame. ASSUME NEW n \in Nat
          PROVE  /\ [Top EXCEPT !.node = n] \in Frames
                 /\ [Top EXCEPT !.node = n].rule = Top.rule
                 /\ [Top EXCEPT !.node = n].grouped = Top.grouped
  BY <1>b DEF Frames
<1>node. Top.node \in Nat /\ Top.child \in Nat /\ Top.tok \in Nat /\ Top.grouped \in BOOLEAN
  BY <1>b DEF Frames
<1>cell. ASSUME NEW c \in Cells PROVE Append(heap, c) \in Seq(Cells)
  BY <1>a, AppendProperties
<1>list. ASSUME NEW k \in CellKinds PROVE List(k) \in Cells
  BY EmptySeq DEF List, Cells
<1>made. ASSUME NEW k \in CellKinds, NEW t \in Nat, NEW e \in Nat, NEW l \in Nat, NEW kids \in Seq(Nat)
         PROVE  Node(k, t, e, l, kids) \in Cells
  BY DEF Node, Cells
<1>kid. /\ <<Top.child>> \in Seq(Nat)
        /\ << >> \in Seq(Nat)
  BY <1>node
<1>pushed. PushChild \in Seq(Cells)
  BY <1>a, <1>node, PushNodeType DEF PushChild
<1>ahead. /\ Len(input) \in Nat
          /\ KindAt(pos) # "ZZ" => pos \in 1 .. Len(input) /\ pos + 1 \in 1 .. Len(input) + 1
          /\ ProdAt(pos) => pos \in 1 .. Len(input) /\ pos + 2 \in 1 .. Len(input) + 1
          /\ pos \in 1 .. Len(input) => input[pos].ops \in Seq(Ops)
  BY Lookahead
<1>ended. ASSUME NEW k \in Outcomes PROVE Ended(k, pos) \in [kind : Outcomes, at : 0 .. Len(input) + 1]
  BY <1>ahead DEF Ended, Outcomes, TypeOK
<1>1. CASE OpenGbnf
  <2> DEFINE f == [Top EXCEPT !.node = Fresh]
  <2>1. stack' \in Seq(Frames) /\ Shaped(stack')
    BY <1>1, <1>b, <1>c, <1>frame, <1>rules, <1>stay, <1>push DEF OpenGbnf, At, Rules
  <2>2. heap' \in Seq(Cells)
    BY <1>1, <1>cell, <1>list DEF OpenGbnf, CellKinds
  <2> QED BY <1>1, <2>1, <2>2 DEF OpenGbnf, TypeOK
<1>2. CASE OpenProd
  <2> DEFINE f == [Top EXCEPT !.tok = pos]
  <2>1. f \in Frames /\ f.rule = Top.rule /\ f.grouped = Top.grouped
    BY <1>b, <1>pos DEF Frames
  <2>2. stack' \in Seq(Frames) /\ Shaped(stack')
    BY <1>2, <2>1, <1>b, <1>rules, <1>push DEF OpenProd, At, Rules
  <2> QED BY <1>2, <2>2, <1>ahead DEF OpenProd, TypeOK
<1>3. CASE OpenAlts
  <2>1. stack' \in Seq(Frames) /\ Shaped(stack')
    BY <1>3, <1>b, <1>c, <1>frame, <1>rules, <1>push DEF OpenAlts, At, Rules
  <2>2. heap' \in Seq(Cells)
    BY <1>3, <1>cell, <1>list DEF OpenAlts, CellKinds
  <2> QED BY <1>3, <2>1, <2>2 DEF OpenAlts, TypeOK
<1>4. CASE OpenSeq
  <2>1. stack' \in Seq(Frames) /\ Shaped(stack')
    BY <1>4, <1>b, <1>c, <1>frame, <1>rules, <1>stay, <1>push DEF OpenSeq, At, Rules
  <2>2. heap' \in Seq(Cells)
    BY <1>4, <1>cell, <1>list DEF OpenSeq, CellKinds
  <2> QED BY <1>4, <2>1, <2>2 DEF OpenSeq, TypeOK
<1>5. CASE OpenElem
  <2>1. stack' \in Seq(Frames) /\ Shaped(stack')
    BY <1>5, <1>b, <1>rules, <1>push DEF OpenElem, At, Rules
  <2> QED BY <1>5, <2>1 DEF OpenElem, TypeOK
<1>6. CASE AtomTerm
  <2>1. stack' \in Seq(Frames) /\ Shaped(stack')
    BY <1>6, <1>b, <1>c, <1>frame, <1>stay DEF AtomTerm, At
  <2>3. heap' \in Seq(Cells)
    BY <1>6, <1>pos, <1>cell, <1>made, <1>kid DEF AtomTerm, CellKinds
  <2> QED BY <1>6, <2>1, <2>3, <1>ahead DEF AtomTerm, TypeOK
<1>7. CASE AtomEmpty
  <2>1. stack' \in Seq(Frames) /\ Shaped(stack')
    BY <1>7, <1>b, <1>frame, <1>stay DEF AtomEmpty, At, Undef
  <2> QED BY <1>7, <2>1, <1>ahead DEF AtomEmpty, TypeOK
<1>8. CASE AtomBad
  <2>1. pos \in 1 .. Len(input) /\ pos + 1 \in 1 .. Len(input) + 1
    BY <1>8, <1>ahead DEF AtomBad
  <2>2. CASE DeferDecode
    <3>1. stack' \in Seq(Frames) /\ Shaped(stack')
      BY <1>8, <2>2, <1>b, <1>frame, <1>stay DEF AtomBad, At, Undef
    <3> QED BY <1>8, <2>1, <2>2, <3>1 DEF AtomBad, TypeOK, FirstError
  <2>3. CASE ~DeferDecode
    BY <1>8, <1>a, <2>1, <2>3 DEF AtomBad, TypeOK, Outcomes
  <2> QED BY <2>2, <2>3
<1>9. CASE AtomGroup
  <2> DEFINE f == [Top EXCEPT !.node = Undef, !.tok = pos, !.grouped = TRUE]
  <2>1. f \in Frames /\ f.rule = Top.rule /\ f.grouped
    BY <1>b, <1>pos DEF Frames, Undef
  <2>2. stack' \in Seq(Frames) /\ Shaped(stack')
    BY <1>9, <2>1, <1>b, <1>rules, <1>push DEF AtomGroup, At, Rules
  <2> QED BY <1>9, <2>2, <1>ahead DEF AtomGroup, TypeOK
<1>10. CASE CloseGroup
  <2>1. stack' \in Seq(Frames) /\ Shaped(stack')
    BY <1>10, <1>c, <1>pop DEF CloseGroup, At
  <2>3. heap' \in Seq(Cells)
    BY <1>10, <1>pos, <1>cell, <1>made, <1>kid, <1>node DEF CloseGroup, CellKinds
  <2> QED BY <1>10, <2>1, <2>3, <1>ahead DEF CloseGroup, GroupAhead, TypeOK
<1>11. CASE CloseAtom
  <2>1. stack' \in Seq(Frames) /\ Shaped(stack')
    BY <1>11, <1>node, <1>pop DEF CloseAtom, At
  <2> QED BY <1>11, <2>1 DEF CloseAtom, TypeOK
<1>12. CASE ElemPlain
  <2>1. stack' \in Seq(Frames) /\ Shaped(stack')
    BY <1>12, <1>node, <1>pop DEF ElemPlain, At
  <2> QED BY <1>12, <2>1, <1>pushed DEF ElemPlain, TypeOK
<1>13. CASE ElemPost
  <2> DEFINE n == Wraps(input[pos].ops)
             c == Node("rep", pos, pos, n, <<Top.child>>)
  <2>1. stack' \in Seq(Frames) /\ Shaped(stack')
    BY <1>13, <1>node, <1>pop DEF ElemPost, At
  <2>2. pos \in 1 .. Len(input) /\ pos + 1 \in 1 .. Len(input) + 1
    BY <1>13, <1>ahead DEF ElemPost
  <2>3. n \in Nat
    BY <2>2, <1>ahead, WrapsType
  <2>4. Append(heap, c) \in Seq(Cells)
    <3>1. c \in Cells
      BY <2>3, <1>pos, <1>made, <1>kid DEF CellKinds
    <3> QED BY <3>1, <1>cell
  <2>5. heap' \in Seq(Cells)
    BY <1>13, <1>a, <1>c, <1>node, <2>4, PushNodeType DEF ElemPost
  <2> QED BY <1>13, <2>1, <2>2, <2>5 DEF ElemPost, TypeOK
<1>14. CASE ElemPostBad
  <2>1. pos \in 1 .. Len(input) /\ pos + 1 \in 1 .. Len(input) + 1
    BY <1>14, <1>ahead DEF ElemPostBad
  <2>2. CASE DeferDecode
    <3>1. stack' \in Seq(Frames) /\ Shaped(stack')
      BY <1>14, <2>2, <1>node, <1>pop DEF ElemPostBad, At
    <3> QED BY <1>14, <2>1, <2>2, <3>1 DEF ElemPostBad, TypeOK, FirstError
  <2>3. CASE ~DeferDecode
    BY <1>14, <1>a, <2>1, <2>3 DEF ElemPostBad, TypeOK, Outcomes
  <2> QED BY <2>2, <2>3
<1>15. CASE CloseSeq
  <2>1. stack' \in Seq(Frames) /\ Shaped(stack')
    BY <1>15, <1>b, <1>node, <1>rules, <1>pop, <1>push DEF CloseSeq, At, Rules
  <2> QED BY <1>15, <2>1 DEF CloseSeq, TypeOK
<1>16. CASE CloseAlts
  <2>1. stack' \in Seq(Frames) /\ Shaped(stack')
    BY <1>16, <1>b, <1>node, <1>rules, <1>pop, <1>push DEF CloseAlts, At, Rules
  <2> QED BY <1>16, <2>1, <1>pushed, <1>ahead DEF CloseAlts, TypeOK
<1>17. CASE CloseProd
  <2> DEFINE c == Node("prod", Top.tok, Top.tok, 0, <<Top.child>>)
  <2>1. ASSUME ProdAt(pos) PROVE stack' \in Seq(Frames) /\ Shaped(stack')
    <3> DEFINE g == NewFrame("prod", Top.node)
    <3>1. g \in Frames /\ g.rule = Top.rule /\ ~g.grouped /\ g.phase = "open"
      BY <1>17, <1>node DEF CloseProd, At, NewFrame, Frames, Rules, Undef
    <3>2. stack' = [stack EXCEPT ![Len(stack)] = g]
      BY <1>17, <2>1 DEF CloseProd
    <3>3. /\ stack' \in Seq(Frames) /\ Len(stack') = Len(stack)
          /\ \A i \in 1 .. Len(stack) : stack'[i] = IF i = Len(stack) THEN g ELSE stack[i]
      BY <1>a, <1>b, <3>1, <3>2, ExceptSeq
    <3>4. ASSUME NEW i \in 1 .. Len(stack) PROVE ShapedAt(stack', i)
      <4>1. CASE i = Len(stack)
        <5>1. stack'[i] = g
          BY <1>b, <3>3, <4>1
        <5> QED BY <1>b, <3>1, <3>3, <4>1, <5>1 DEF ShapedAt
      <4>2. CASE i < Len(stack)
        <5>1. stack'[i] = stack[i] /\ ShapedAt(stack, i)
          BY <1>a, <1>b, <3>3, <4>2 DEF Shaped
        <5> QED BY <1>b, <3>3, <4>2, <5>1 DEF ShapedAt
      <4> QED BY <1>b, <4>1, <4>2
    <3> QED BY <1>b, <3>3, <3>4 DEF Shaped
  <2>2. ASSUME ~ProdAt(pos) PROVE stack' \in Seq(Frames) /\ Shaped(stack')
    BY <1>17, <2>2, <1>node, <1>pop DEF CloseProd, At
  <2>3. Append(heap, c) \in Seq(Cells)
    BY <1>cell, <1>made, <1>kid, <1>node DEF CellKinds
  <2>4. heap' \in Seq(Cells)
    BY <1>17, <1>a, <1>c, <1>node, <2>3, PushNodeType DEF CloseProd
  <2>5. stack' \in Seq(Frames) /\ Shaped(stack')
    BY <2>1, <2>2
  <2> QED BY <1>17, <2>4, <2>5 DEF CloseProd, TypeOK
<1>18. CASE CloseGbnf
  BY <1>18, <1>a, <1>ended DEF CloseGbnf, TypeOK, Outcomes
<1>19. CASE Unexpected
  BY <1>19, <1>a, <1>ended DEF Unexpected, TypeOK, Outcomes
<1>20. CASE Finished \/ UNCHANGED vars
  BY <1>20, <1>a DEF Finished, vars, TypeOK
<1> QED
  BY <1>1, <1>2, <1>3, <1>4, <1>5, <1>6, <1>7, <1>8, <1>9, <1>10, <1>11, <1>12, <1>13,
     <1>14, <1>15, <1>16, <1>17, <1>18, <1>19, <1>20 DEF Next, Step

-----------------------------------------------------------------------------
(* Theorems.                                                               *)

\* In every state of every parse the variables have their types: in
\* particular no rule reads or gives back a token outside the source.
THEOREM TypeCorrect == Spec => []TypeOK
<1>1. IInv => TypeOK
  BY DEF IInv
<1> QED BY InitIInv, StepIInv, <1>1, PTL DEF Spec

\* The stack of rules always has the shape the rule table prescribes: the
\* depth of a frame fixes its rule, every frame below the top one is waiting
\* in its close phase, and every atom below the top one is a group.
THEOREM StackShaped == Spec => []StackShape
<1>1. IInv => StackShape
  BY DEF IInv
<1> QED BY InitIInv, StepIInv, <1>1, PTL DEF Spec

-----------------------------------------------------------------------------
(* What a heap keeps.                                                      *)

\* Every child is in the heap, under a parent of its layer, and in one place.
Tidy(h) ==
  /\ \A p \in DOMAIN h : \A i \in DOMAIN h[p].kids :
       /\ h[p].kids[i] \in DOMAIN h
       /\ <<h[p].kind, h[h[p].kids[i]].kind>> \in Layers
  /\ \A p, q \in DOMAIN h : \A i \in DOMAIN h[p].kids, j \in DOMAIN h[q].kids :
       h[p].kids[i] = h[q].kids[j] => p = q /\ i = j

\* In the heap, and nobody's child yet.
Free(h, r) ==
  r \in DOMAIN h /\ \A p \in DOMAIN h : \A i \in DOMAIN h[p].kids : h[p].kids[i] # r

\* From h to k no cell is lost, and none but `gone` gets a parent.
Grown(h, k, gone) ==
  \A r \in DOMAIN h :
    /\ r \in DOMAIN k /\ k[r].kind = h[r].kind
    /\ Free(h, r) /\ r # gone => Free(k, r)

LEMMA HeapCells ==
  ASSUME NEW h \in Seq(Cells)
  PROVE  /\ Len(h) \in Nat /\ DOMAIN h = 1 .. Len(h)
         /\ \A r \in DOMAIN h :
              /\ h[r] \in Cells /\ h[r].kids \in Seq(Nat)
              /\ DOMAIN h[r].kids = 1 .. Len(h[r].kids) /\ Len(h[r].kids) \in Nat
<1>1. Len(h) \in Nat /\ DOMAIN h = 1 .. Len(h)
  BY LenProperties
<1>2. ASSUME NEW r \in DOMAIN h
      PROVE  /\ h[r] \in Cells /\ h[r].kids \in Seq(Nat)
             /\ DOMAIN h[r].kids = 1 .. Len(h[r].kids) /\ Len(h[r].kids) \in Nat
  <2>1. h[r] \in Cells
    BY <1>1, ElementOfSeq
  <2>2. h[r].kids \in Seq(Nat)
    BY <2>1 DEF Cells
  <2> QED BY <2>1, <2>2, LenProperties
<1> QED BY <1>1, <1>2

\* A new cell, without children.
LEMMA NewLeaf ==
  ASSUME NEW h \in Seq(Cells), Tidy(h), NEW c \in Cells, c.kids = << >>
  PROVE  LET k == Append(h, c)
         IN  /\ k \in Seq(Cells) /\ Tidy(k) /\ Grown(h, k, Undef)
             /\ Free(k, Len(h) + 1) /\ k[Len(h) + 1] = c
             /\ DOMAIN k = 1 .. Len(h) + 1
<1> DEFINE k == Append(h, c)
           n == Len(h) + 1
<1>1. /\ Len(h) \in Nat /\ DOMAIN h = 1 .. Len(h)
      /\ k \in Seq(Cells) /\ Len(k) = n /\ DOMAIN k = 1 .. n
      /\ k[n] = c /\ \A r \in DOMAIN h : k[r] = h[r] /\ r \in DOMAIN k
  BY HeapCells, AppendProperties
<1>2. \A p \in DOMAIN k : p \in DOMAIN h \/ (p = n /\ DOMAIN k[p].kids = {})
  BY <1>1
<1> HIDE DEF k
<1>3. \A p \in DOMAIN k : \A i \in DOMAIN k[p].kids :
        /\ p \in DOMAIN h /\ k[p] = h[p] /\ i \in DOMAIN h[p].kids
        /\ k[p].kids[i] = h[p].kids[i] /\ h[p].kids[i] \in DOMAIN h
  BY <1>1, <1>2 DEF Tidy
<1>4. Tidy(k)
  <2>1. ASSUME NEW p \in DOMAIN k, NEW i \in DOMAIN k[p].kids
        PROVE  k[p].kids[i] \in DOMAIN k /\ <<k[p].kind, k[k[p].kids[i]].kind>> \in Layers
    <3>1. p \in DOMAIN h /\ i \in DOMAIN h[p].kids /\ k[p] = h[p] /\ h[p].kids[i] \in DOMAIN h
      BY <1>3
    <3>2. <<h[p].kind, h[h[p].kids[i]].kind>> \in Layers
      BY <3>1 DEF Tidy
    <3> QED BY <1>1, <3>1, <3>2
  <2>2. ASSUME NEW p \in DOMAIN k, NEW q \in DOMAIN k,
               NEW i \in DOMAIN k[p].kids, NEW j \in DOMAIN k[q].kids, k[p].kids[i] = k[q].kids[j]
        PROVE  p = q /\ i = j
    BY <1>3, <2>2 DEF Tidy
  <2> QED BY <2>1, <2>2 DEF Tidy
<1>5. Grown(h, k, Undef)
  BY <1>1, <1>3 DEF Grown, Free
<1>6. Free(k, n)
  <2>1. n \notin DOMAIN h /\ n \in DOMAIN k
    BY <1>1
  <2>2. \A p \in DOMAIN k : \A i \in DOMAIN k[p].kids : k[p].kids[i] # n
    BY <1>3, <2>1
  <2> HIDE DEF n
  <2> QED BY <2>1, <2>2 DEF Free
<1> QED BY <1>1, <1>4, <1>5, <1>6 DEF k

\* A new cell over one that was free.
LEMMA NewParent ==
  ASSUME NEW h \in Seq(Cells), Tidy(h), NEW c \in Cells, NEW r \in Nat,
         c.kids = <<r>>, Free(h, r), <<c.kind, h[r].kind>> \in Layers
  PROVE  LET k == Append(h, c)
         IN  /\ k \in Seq(Cells) /\ Tidy(k) /\ Grown(h, k, r)
             /\ Free(k, Len(h) + 1) /\ k[Len(h) + 1] = c
             /\ DOMAIN k = 1 .. Len(h) + 1
<1> DEFINE k == Append(h, c)
           n == Len(h) + 1
<1>1. /\ Len(h) \in Nat /\ DOMAIN h = 1 .. Len(h)
      /\ k \in Seq(Cells) /\ Len(k) = n /\ DOMAIN k = 1 .. n
      /\ k[n] = c /\ \A p \in DOMAIN h : k[p] = h[p] /\ p \in DOMAIN k
  BY HeapCells, AppendProperties
<1>2. n \notin DOMAIN h /\ n \in DOMAIN k /\ r \in DOMAIN h /\ r # n
  BY <1>1 DEF Free
<1>3. \A p \in DOMAIN k : p \in DOMAIN h \/ p = n
  BY <1>1
<1>4. DOMAIN c.kids = {1} /\ c.kids[1] = r
  OBVIOUS
<1> HIDE DEF k, n
<1>5. \A p \in DOMAIN k : \A i \in DOMAIN k[p].kids :
        \/ p \in DOMAIN h /\ k[p] = h[p] /\ i \in DOMAIN h[p].kids /\ k[p].kids[i] = h[p].kids[i]
           /\ h[p].kids[i] \in DOMAIN h /\ h[p].kids[i] # r
        \/ p = n /\ i = 1 /\ k[p].kids[i] = r
  <2> SUFFICES ASSUME NEW p \in DOMAIN k, NEW i \in DOMAIN k[p].kids
      PROVE \/ p \in DOMAIN h /\ k[p] = h[p] /\ i \in DOMAIN h[p].kids /\ k[p].kids[i] = h[p].kids[i]
               /\ h[p].kids[i] \in DOMAIN h /\ h[p].kids[i] # r
            \/ p = n /\ i = 1 /\ k[p].kids[i] = r
    OBVIOUS
  <2>1. CASE p \in DOMAIN h
    <3>1. k[p] = h[p]
      BY <1>1, <2>1
    <3>2. h[p].kids[i] \in DOMAIN h
      BY <2>1, <3>1 DEF Tidy
    <3> QED BY <2>1, <3>1, <3>2 DEF Free
  <2>2. CASE p = n
    BY <1>1, <1>4, <2>2
  <2> QED BY <1>3, <2>1, <2>2
<1>6. Tidy(k)
  <2>1. ASSUME NEW p \in DOMAIN k, NEW i \in DOMAIN k[p].kids
        PROVE  k[p].kids[i] \in DOMAIN k /\ <<k[p].kind, k[k[p].kids[i]].kind>> \in Layers
    <3>1. CASE p \in DOMAIN h /\ k[p] = h[p] /\ i \in DOMAIN h[p].kids /\ h[p].kids[i] \in DOMAIN h
      <4>1. <<h[p].kind, h[h[p].kids[i]].kind>> \in Layers
        BY <3>1 DEF Tidy
      <4> QED BY <1>1, <3>1, <4>1
    <3>2. CASE p = n /\ i = 1 /\ k[p].kids[i] = r
      BY <1>1, <1>2, <3>2
    <3> QED BY <1>5, <3>1, <3>2
  <2>2. ASSUME NEW p \in DOMAIN k, NEW q \in DOMAIN k,
               NEW i \in DOMAIN k[p].kids, NEW j \in DOMAIN k[q].kids, k[p].kids[i] = k[q].kids[j]
        PROVE  p = q /\ i = j
    BY <1>5, <2>2 DEF Tidy
  <2> QED BY <2>1, <2>2 DEF Tidy
<1>7. Grown(h, k, r)
  BY <1>1, <1>5 DEF Grown, Free
<1>8. Free(k, n)
  BY <1>2, <1>5 DEF Free
<1> QED BY <1>1, <1>6, <1>7, <1>8 DEF k, n

\* A free cell becomes the last child of a list.
LEMMA Pushed ==
  ASSUME NEW h \in Seq(Cells), Tidy(h), NEW list \in DOMAIN h, NEW r \in Nat,
         Free(h, r), <<h[list].kind, h[r].kind>> \in Layers
  PROVE  LET k == PushNode(h, list, r)
         IN  /\ k \in Seq(Cells) /\ Tidy(k) /\ Grown(h, k, r) /\ DOMAIN k = DOMAIN h
<1> DEFINE k == PushNode(h, list, r)
           old == h[list].kids
           n == Len(old) + 1
<1>1. /\ DOMAIN h = 1 .. Len(h) /\ \A p \in DOMAIN h : h[p] \in Cells
      /\ old \in Seq(Nat) /\ DOMAIN old = 1 .. Len(old) /\ Len(old) \in Nat
  BY HeapCells
<1>2. k \in Seq(Cells)
  BY <1>1, PushNodeType
<1>3. k = [h EXCEPT ![list] = [h[list] EXCEPT !.kids = Append(old, r)]]
  BY DEF PushNode
<1>4. /\ DOMAIN k = DOMAIN h
      /\ \A p \in DOMAIN h : p # list => k[p] = h[p]
      /\ k[list].kind = h[list].kind /\ k[list].kids = Append(old, r)
  BY <1>1, <1>3 DEF Cells
<1>5. DOMAIN Append(old, r) = 1 .. n /\ Append(old, r)[n] = r
      /\ \A i \in DOMAIN old : Append(old, r)[i] = old[i]
  BY <1>1, AppendProperties
<1>6. \A p \in DOMAIN h : k[p].kind = h[p].kind
  BY <1>4
<1>7. n \notin DOMAIN old /\ \A i \in 1 .. n : i \in DOMAIN old \/ i = n
  BY <1>1
<1> HIDE DEF k, old, n
<1>8. \A p \in DOMAIN h : \A i \in DOMAIN k[p].kids :
        \/ i \in DOMAIN h[p].kids /\ k[p].kids[i] = h[p].kids[i]
           /\ h[p].kids[i] \in DOMAIN h /\ h[p].kids[i] # r
        \/ p = list /\ i = n /\ k[p].kids[i] = r
  <2> SUFFICES ASSUME NEW p \in DOMAIN h, NEW i \in DOMAIN k[p].kids
      PROVE \/ i \in DOMAIN h[p].kids /\ k[p].kids[i] = h[p].kids[i]
               /\ h[p].kids[i] \in DOMAIN h /\ h[p].kids[i] # r
            \/ p = list /\ i = n /\ k[p].kids[i] = r
    OBVIOUS
  <2>1. i \in DOMAIN h[p].kids => h[p].kids[i] \in DOMAIN h /\ h[p].kids[i] # r
    BY DEF Tidy, Free
  <2>2. CASE p # list
    BY <1>4, <2>1, <2>2
  <2>3. CASE p = list
    BY <1>4, <1>5, <1>7, <2>1, <2>3 DEF old
  <2> QED BY <2>2, <2>3
<1>9. Tidy(k)
  <2>1. ASSUME NEW p \in DOMAIN k, NEW i \in DOMAIN k[p].kids
        PROVE  k[p].kids[i] \in DOMAIN k /\ <<k[p].kind, k[k[p].kids[i]].kind>> \in Layers
    <3>1. CASE i \in DOMAIN h[p].kids /\ k[p].kids[i] = h[p].kids[i] /\ h[p].kids[i] \in DOMAIN h
      <4>1. <<h[p].kind, h[h[p].kids[i]].kind>> \in Layers
        BY <1>4, <3>1 DEF Tidy
      <4> QED BY <1>4, <1>6, <3>1, <4>1
    <3>2. CASE p = list /\ i = n /\ k[p].kids[i] = r
      BY <1>4, <1>6, <3>2 DEF Free
    <3> QED BY <1>4, <1>8, <3>1, <3>2
  <2>2. ASSUME NEW p \in DOMAIN k, NEW q \in DOMAIN k,
               NEW i \in DOMAIN k[p].kids, NEW j \in DOMAIN k[q].kids, k[p].kids[i] = k[q].kids[j]
        PROVE  p = q /\ i = j
    BY <1>4, <1>8, <2>2 DEF Tidy
  <2> QED BY <2>1, <2>2 DEF Tidy
<1>10. Grown(h, k, r)
  BY <1>4, <1>6, <1>8 DEF Grown, Free
<1> QED BY <1>2, <1>4, <1>9, <1>10 DEF k

-----------------------------------------------------------------------------
(* What the frames hold of the heap.                                       *)

\* The rules whose array is nobody's child while they run.
Owners == {"alts", "seq"}
Is(h, r, kind) == r \in DOMAIN h /\ h[r].kind = kind

\* A list that is being filled is free, and came after those below it.
Holds(h, s, i) ==
  /\ s[i].rule = "gbnf" /\ s[i].phase = "close" => Is(h, s[i].node, "prods")
  /\ s[i].rule = "prod" => Is(h, s[i].node, "prods")
  /\ s[i].rule \in Owners /\ s[i].phase = "close" =>
       /\ Free(h, s[i].node) /\ h[s[i].node].kind = s[i].rule
       /\ \A j \in 1 .. i - 1 : s[j].rule \in Owners => s[j].node < s[i].node
  /\ s[i].rule = "elem" => Is(h, s[i].node, "seq")
  /\ s[i].grouped => s[i].node = Undef /\ s[i].phase = "close"

\* A node on its way up: free, and newer than the lists still being filled.
Handed(h, s, n, r, kinds) ==
  /\ Free(h, r) /\ h[r].kind \in kinds
  /\ \A j \in 1 .. n : s[j].rule \in Owners => s[j].node < r

Delivered(h, s) ==
  LET f == s[Len(s)] IN
    f.phase = "close" =>
      /\ f.rule = "alts" => Handed(h, s, Len(s), f.child, {"seq"})
      /\ f.rule = "prod" => Handed(h, s, Len(s), f.child, {"alts"})
      /\ f.rule = "elem" => f.child = Undef \/ Handed(h, s, Len(s), f.child, {"term", "group"})
      /\ f.rule = "atom" =>
           IF f.grouped THEN Handed(h, s, Len(s), f.child, {"alts"})
           ELSE f.node = Undef \/ Handed(h, s, Len(s), f.node, {"term"})

Held(h, s, n) == \A i \in 1 .. n : Holds(h, s, i)

Anchored(h, s) == Held(h, s, Len(s)) /\ Delivered(h, s)

SameFrame(f, g) ==
  f.rule = g.rule /\ f.phase = g.phase /\ f.node = g.node /\ f.grouped = g.grouped

\* The first n frames stay as they are; none of their lists is `gone`.
SameBelow(s, t, n) == \A i \in 1 .. n : SameFrame(s[i], t[i])
SparedBelow(s, n, gone) ==
  \A i \in 1 .. n : s[i].rule \in Owners /\ s[i].phase = "close" => s[i].node # gone

\* Frames that stay as they are hold what they held, whatever became of a
\* cell that is not one of their lists.
LEMMA HoldsOn ==
  ASSUME NEW h, NEW k, NEW s, NEW t, NEW n \in Nat, NEW gone,
         Held(h, s, n), SameBelow(s, t, n), Grown(h, k, gone), SparedBelow(s, n, gone)
  PROVE  Held(k, t, n)
<1> SUFFICES ASSUME NEW i \in 1 .. n PROVE Holds(k, t, i)
  BY DEF Held
<1>1. Holds(h, s, i) /\ SameFrame(s[i], t[i])
  BY DEF Held, SameBelow
<1>2. \A kind : Is(h, s[i].node, kind) => Is(k, s[i].node, kind)
  BY DEF Is, Grown
<1>3. \A j \in 1 .. i - 1 : j \in 1 .. n /\ t[j].rule = s[j].rule /\ t[j].node = s[j].node
  BY DEF SameBelow, SameFrame
<1>4. ASSUME s[i].rule \in Owners, s[i].phase = "close"
      PROVE  /\ Free(k, s[i].node) /\ k[s[i].node].kind = s[i].rule
             /\ \A j \in 1 .. i - 1 : t[j].rule \in Owners => t[j].node < s[i].node
  <2>1. Free(h, s[i].node) /\ h[s[i].node].kind = s[i].rule /\ s[i].node # gone
        /\ \A j \in 1 .. i - 1 : s[j].rule \in Owners => s[j].node < s[i].node
    BY <1>1, <1>4 DEF Holds, SparedBelow
  <2>2. s[i].node \in DOMAIN h
    BY <2>1 DEF Free
  <2> QED BY <1>3, <2>1, <2>2 DEF Grown
<1> QED BY <1>1, <1>2, <1>4 DEF Holds, SameFrame

LEMMA StayFrames ==
  ASSUME stack \in Seq(Frames), stack # << >>, NEW f \in Frames, stack' = Stay(f)
  PROVE  LET n == Len(stack) IN
         /\ n \in Nat \ {0} /\ Len(stack') = n /\ stack'[n] = [f EXCEPT !.phase = "close"]
         /\ \A i \in 1 .. n - 1 : stack'[i] = stack[i]
         /\ SameBelow(stack, stack', n - 1)
<1>1. Len(stack) \in Nat \ {0}
  BY LenProperties, EmptySeq
<1>2. [f EXCEPT !.phase = "close"] \in Frames
  BY DEF Frames
<1> QED BY <1>1, <1>2, ExceptSeq DEF Stay, SameFrame, SameBelow

LEMMA PushFrames ==
  ASSUME stack \in Seq(Frames), stack # << >>, NEW f \in Frames, NEW rule \in Rules,
         stack' = PushRule(f, rule)
  PROVE  LET n == Len(stack) IN
         /\ n \in Nat \ {0} /\ Len(stack') = n + 1
         /\ stack'[n] = [f EXCEPT !.phase = "close"]
         /\ stack'[n + 1] = NewFrame(rule, f.node)
         /\ \A i \in 1 .. n - 1 : stack'[i] = stack[i]
         /\ SameBelow(stack, stack', n - 1)
<1> DEFINE s == Stay(f)
           g == NewFrame(rule, f.node)
           n == Len(stack)
<1>1. n \in Nat \ {0}
  BY LenProperties, EmptySeq
<1>2. [f EXCEPT !.phase = "close"] \in Frames /\ g \in Frames
  BY DEF Frames, NewFrame, Undef
<1>3. /\ s \in Seq(Frames) /\ Len(s) = n /\ s[n] = [f EXCEPT !.phase = "close"]
      /\ \A i \in 1 .. n - 1 : s[i] = stack[i]
  BY <1>1, <1>2, ExceptSeq DEF Stay
<1>4. stack' = Append(s, g)
  BY DEF PushRule
<1> HIDE DEF s, g
<1>5. Len(stack') = n + 1 /\ stack'[n + 1] = g /\ \A i \in 1 .. n : stack'[i] = s[i]
  BY <1>1, <1>2, <1>3, <1>4, AppendProperties
<1> QED BY <1>1, <1>3, <1>5 DEF SameFrame, SameBelow, g

LEMMA OneLess == ASSUME NEW m \in Nat, m # 0, m # 1 PROVE m - 1 \in Nat \ {0}
  OBVIOUS

LEMMA PopFrames ==
  ASSUME stack \in Seq(Frames), Len(stack) \notin {0, 1}, NEW node \in Nat, stack' = PopRule(node)
  PROVE  LET n == Len(stack) - 1 IN
         /\ n \in Nat \ {0} /\ Len(stack') = n
         /\ stack'[n].child = node
         /\ SameBelow(stack, stack', n)
<1> DEFINE n == Len(stack) - 1
<1>0. Len(stack) \in Nat
  BY LenProperties
<1>1. n \in Nat \ {0}
  BY <1>0, OneLess
<1>2. \A i \in 1 .. n : stack[i] \in Frames
  BY <1>0, ElementOfSeq
<1>3. stack' = [i \in 1 .. n |-> IF i = n THEN [stack[i] EXCEPT !.child = node] ELSE stack[i]]
  BY DEF PopRule
<1> HIDE DEF n
<1>4. stack' \in [1 .. n -> Frames]
  BY <1>2, <1>3 DEF Frames
<1>5. Len(stack') = n
  BY <1>1, <1>4, LenProperties, SeqDef
<1>6. stack'[n].child = node
  BY <1>1, <1>2, <1>3 DEF Frames
<1>7. SameBelow(stack, stack', n)
  BY <1>2, <1>3 DEF SameFrame, SameBelow, Frames
<1> QED BY <1>1, <1>5, <1>6, <1>7 DEF n

\* Which rule a rule's frame stands on.
LEMMA PrevRule ==
  ASSUME NEW n \in Nat, n > 0
  PROVE  /\ RuleAt(n + 1) = "prod" => RuleAt(n) = "gbnf"
         /\ RuleAt(n + 1) = "alts" => RuleAt(n) \in {"prod", "atom"}
         /\ RuleAt(n + 1) = "seq" => RuleAt(n) = "alts"
         /\ RuleAt(n + 1) = "elem" => RuleAt(n) = "seq"
         /\ RuleAt(n + 1) = "atom" => RuleAt(n) = "elem"
BY SMT DEF RuleAt

-----------------------------------------------------------------------------
(* The three ways a step leaves the stack, once more: what the frames that *)
(* stay hold, and what the step has to show of the frames it touches.      *)

FInv == IInv /\ Tidy(heap) /\ Anchored(heap, stack)

\* A list that is being filled is in the heap.
LEMMA HeldLists ==
  ASSUME IInv, Anchored(heap, stack)
  PROVE  /\ Len(stack) \in Nat \ {0}
         /\ \A i \in 1 .. Len(stack) :
              stack[i].rule \in Owners /\ stack[i].phase = "close" =>
                stack[i].node \in DOMAIN heap /\ stack[i].node # Undef
         /\ \A i \in 1 .. Len(stack) - 1 : stack[i].phase = "close"
<1>1. Len(stack) \in Nat \ {0}
  BY TopFrame DEF IInv, TypeOK, StackShape
<1>2. DOMAIN heap = 1 .. Len(heap) /\ Len(heap) \in Nat
  BY HeapCells DEF IInv, TypeOK
<1>3. ASSUME NEW i \in 1 .. Len(stack), stack[i].rule \in Owners, stack[i].phase = "close"
      PROVE  stack[i].node \in DOMAIN heap /\ stack[i].node # Undef
  <2>1. Holds(heap, stack, i)
    BY DEF Anchored, Held
  <2> QED BY <1>2, <1>3, <2>1 DEF Holds, Free, Undef
<1>4. ASSUME NEW i \in 1 .. Len(stack) - 1 PROVE stack[i].phase = "close"
  <2>1. ShapedAt(stack, i) /\ i < Len(stack)
    BY <1>1 DEF IInv, StackShape, Shaped
  <2> QED BY <2>1 DEF ShapedAt
<1> QED BY <1>1, <1>3, <1>4

\* What the top frame needs of the heap to be f, in its close phase.
TopHolds(h, f) ==
  /\ f.rule \in {"gbnf", "prod"} => Is(h, f.node, "prods")
  /\ f.rule \in Owners =>
       /\ Free(h, f.node) /\ h[f.node].kind = f.rule
       /\ \A j \in 1 .. Len(stack) - 1 : stack[j].rule \in Owners => stack[j].node < f.node
  /\ f.rule = "elem" => Is(h, f.node, "seq")
  /\ f.grouped => f.node = Undef

LEMMA TopKeeps ==
  ASSUME NEW n \in Nat \ {0}, n = Len(stack), SameBelow(stack, stack', n - 1),
         NEW f \in Frames, stack'[n] = [f EXCEPT !.phase = "close"], TopHolds(heap', f)
  PROVE  Holds(heap', stack', n)
<1>1. /\ stack'[n].rule = f.rule /\ stack'[n].node = f.node
      /\ stack'[n].grouped = f.grouped /\ stack'[n].phase = "close"
  BY DEF Frames
<1>2. \A j \in 1 .. n - 1 : stack'[j].rule = stack[j].rule /\ stack'[j].node = stack[j].node
  BY DEF SameBelow, SameFrame
<1> QED BY <1>1, <1>2 DEF Holds, TopHolds

LEMMA StayAnchored ==
  ASSUME IInv, Anchored(heap, stack), Grown(heap, heap', Undef),
         NEW f \in Frames, stack' = Stay(f), TopHolds(heap', f),
         \/ f.rule \in {"gbnf", "seq"}
         \/ /\ f.rule = "atom" /\ ~f.grouped
            /\ f.node = Undef \/ Handed(heap', stack, Len(stack) - 1, f.node, {"term"})
  PROVE  Anchored(heap', stack')
<1> DEFINE n == Len(stack)
<1>1. stack \in Seq(Frames) /\ stack # << >> /\ n \in Nat \ {0}
  BY HeldLists, EmptySeq, LenProperties DEF IInv, TypeOK
<1>2. Len(stack') = n /\ SameBelow(stack, stack', n - 1) /\ stack'[n] = [f EXCEPT !.phase = "close"]
  BY <1>1, StayFrames
<1>3. Held(heap, stack, n - 1) /\ SparedBelow(stack, n - 1, Undef) /\ n - 1 \in Nat
  BY <1>1, HeldLists DEF Anchored, Held, SparedBelow
<1>4. Held(heap', stack', n - 1)
  BY <1>2, <1>3, HoldsOn
<1>5. \A i \in 1 .. n : i \in 1 .. n - 1 \/ i = n
  BY <1>1
<1>6. Holds(heap', stack', n)
  BY <1>1, <1>2, TopKeeps
<1>7. /\ stack'[n].rule = f.rule /\ stack'[n].node = f.node /\ stack'[n].grouped = f.grouped
  BY <1>2 DEF Frames
<1>8. ASSUME f.rule = "atom", ~f.grouped, f.node # Undef
      PROVE  Handed(heap', stack', n, f.node, {"term"})
  <2>1. \A j \in 1 .. n : j \in 1 .. n - 1 \/ j = n
    BY <1>1
  <2>2. \A j \in 1 .. n - 1 : stack'[j].rule = stack[j].rule /\ stack'[j].node = stack[j].node
    BY <1>2 DEF SameBelow, SameFrame
  <2>3. Handed(heap', stack, n - 1, f.node, {"term"})
    BY <1>8
  <2> QED BY <1>7, <1>8, <2>1, <2>2, <2>3 DEF Handed, Owners
<1>9. Delivered(heap', stack')
  BY <1>2, <1>7, <1>8 DEF Delivered
<1> QED BY <1>2, <1>4, <1>5, <1>6, <1>9 DEF Anchored, Held

\* The pushed rule inherits a node, and needs it only if it is not to make
\* one of its own.
LEMMA PushAnchored ==
  ASSUME IInv, Anchored(heap, stack), NEW gone, Grown(heap, heap', gone),
         SparedBelow(stack, Len(stack) - 1, gone),
         NEW f \in Frames, NEW rule \in Rules, stack' = PushRule(f, rule),
         TopHolds(heap', f), rule # "gbnf",
         rule = "prod" => Is(heap', f.node, "prods"),
         rule = "elem" => Is(heap', f.node, "seq")
  PROVE  Anchored(heap', stack')
<1> DEFINE n == Len(stack)
<1>1. stack \in Seq(Frames) /\ stack # << >> /\ n \in Nat \ {0}
  BY HeldLists, EmptySeq, LenProperties DEF IInv, TypeOK
<1>2. /\ Len(stack') = n + 1 /\ SameBelow(stack, stack', n - 1)
      /\ stack'[n + 1] = NewFrame(rule, f.node) /\ stack'[n] = [f EXCEPT !.phase = "close"]
  BY <1>1, PushFrames
<1>3. Held(heap, stack, n - 1) /\ n - 1 \in Nat
  BY <1>1 DEF Anchored, Held
<1>4. Held(heap', stack', n - 1)
  BY <1>2, <1>3, HoldsOn
<1>5. /\ stack'[n + 1].rule = rule /\ stack'[n + 1].phase = "open"
      /\ stack'[n + 1].node = f.node /\ ~stack'[n + 1].grouped
  BY <1>2 DEF NewFrame
<1>6. Holds(heap', stack', n + 1)
  BY <1>5 DEF Holds
<1>7. Delivered(heap', stack')
  BY <1>2, <1>5 DEF Delivered
<1>8. \A i \in 1 .. n + 1 : i \in 1 .. n - 1 \/ i = n \/ i = n + 1
  BY <1>1
<1>9. Holds(heap', stack', n)
  BY <1>1, <1>2, TopKeeps
<1> QED BY <1>2, <1>4, <1>6, <1>7, <1>8, <1>9 DEF Anchored, Held

\* `r: 'prod'`: a new prod for the one that is done, over the same array.
LEMMA ReplaceAnchored ==
  ASSUME IInv, Anchored(heap, stack), NEW gone, Grown(heap, heap', gone),
         SparedBelow(stack, Len(stack) - 1, gone),
         NEW node \in Nat, Is(heap', node, "prods"),
         stack' = [stack EXCEPT ![Len(stack)] = NewFrame("prod", node)]
  PROVE  Anchored(heap', stack')
<1> DEFINE n == Len(stack)
           g == NewFrame("prod", node)
<1>1. stack \in Seq(Frames) /\ n \in Nat \ {0} /\ n - 1 \in Nat
  BY HeldLists DEF IInv, TypeOK
<1>2. g \in Frames /\ g.rule = "prod" /\ g.phase = "open" /\ g.node = node /\ ~g.grouped
  BY DEF NewFrame, Frames, Rules, Undef
<1> HIDE DEF g
<1>3. Len(stack') = n /\ stack'[n] = g /\ \A i \in 1 .. n - 1 : stack'[i] = stack[i]
  BY <1>1, <1>2, ExceptSeq DEF g
<1>4. SameBelow(stack, stack', n - 1)
  BY <1>3 DEF SameBelow, SameFrame
<1>5. Held(heap, stack, n - 1)
  BY <1>1 DEF Anchored, Held
<1>6. Held(heap', stack', n - 1)
  BY <1>1, <1>4, <1>5, HoldsOn
<1>7. Holds(heap', stack', n)
  BY <1>2, <1>3 DEF Holds, Owners
<1>8. \A i \in 1 .. n : i \in 1 .. n - 1 \/ i = n
  BY <1>1
<1> QED BY <1>2, <1>3, <1>6, <1>7, <1>8 DEF Anchored, Held, Delivered

\* What the leaving rule hands to the one below it.
LEMMA PopAnchored ==
  ASSUME IInv, Anchored(heap, stack), NEW gone, Grown(heap, heap', gone),
         Top.rule # "gbnf",
         SparedBelow(stack, Len(stack) - 1, gone),
         NEW node \in Nat, stack' = PopRule(node),
         Top.rule = "alts" => Handed(heap', stack, Len(stack) - 1, node, {"alts"}),
         Top.rule = "seq" => Handed(heap', stack, Len(stack) - 1, node, {"seq"}),
         Top.rule = "atom" =>
           node = Undef \/ Handed(heap', stack, Len(stack) - 1, node, {"term", "group"})
  PROVE  Anchored(heap', stack')
<1> DEFINE n == Len(stack) - 1
<1>1. stack \in Seq(Frames) /\ Len(stack) \in Nat \ {0} /\ Shaped(stack)
      /\ Top.rule = RuleAt(Len(stack))
  BY TopFrame DEF IInv, TypeOK, StackShape
<1>2. Len(stack) # 1
  <2>1. ASSUME NEW m \in Nat \ {0}, RuleAt(m) # "gbnf" PROVE m # 1
    BY <2>1 DEF RuleAt
  <2> QED BY <1>1, <2>1
<1>3. /\ n \in Nat \ {0} /\ Len(stack') = n /\ stack'[n].child = node
      /\ SameBelow(stack, stack', n)
  <2>1. Len(stack) \notin {0, 1}
    BY <1>1, <1>2
  <2> QED BY <1>1, <2>1, PopFrames
<1>4. ShapedAt(stack, n) /\ n < Len(stack) /\ Len(stack) = n + 1
  BY <1>1, <1>3 DEF Shaped
<1> HIDE DEF n
<1>5. Held(heap, stack, n) /\ SparedBelow(stack, n, gone)
  BY <1>3, <1>4 DEF Anchored, Held, n
<1>6. Held(heap', stack', n)
  BY <1>3, <1>5, HoldsOn
<1>7. ASSUME NEW kinds, Handed(heap', stack, n, node, kinds)
      PROVE  Handed(heap', stack', n, node, kinds)
  BY <1>3, <1>7 DEF Handed, SameBelow, SameFrame
<1>8. /\ stack'[n].rule = RuleAt(n)
      /\ stack'[n].grouped <=> RuleAt(n) = "atom"
  BY <1>3, <1>4 DEF SameBelow, SameFrame, ShapedAt
<1>9. /\ Top.rule = RuleAt(n + 1)
      /\ RuleAt(n) = "alts" => RuleAt(n + 1) = "seq"
      /\ RuleAt(n) = "prod" => RuleAt(n + 1) = "alts"
      /\ RuleAt(n) = "elem" => RuleAt(n + 1) = "atom"
      /\ RuleAt(n) = "atom" => RuleAt(n + 1) = "alts"
  BY <1>1, <1>3, <1>4, NextRule
<1>10. Delivered(heap', stack')
  <2>1. /\ RuleAt(n) = "alts" => Handed(heap', stack', n, node, {"seq"})
        /\ RuleAt(n) = "prod" => Handed(heap', stack', n, node, {"alts"})
        /\ RuleAt(n) = "elem" => node = Undef \/ Handed(heap', stack', n, node, {"term", "group"})
        /\ RuleAt(n) = "atom" => Handed(heap', stack', n, node, {"alts"})
    BY <1>7, <1>9 DEF n
  <2> QED BY <1>3, <1>8, <2>1 DEF Delivered
<1> QED BY <1>3, <1>6, <1>10 DEF Anchored

-----------------------------------------------------------------------------
(* The heap is a forest.                                                   *)

LEMMA InitFInv == Init => FInv
<1> SUFFICES ASSUME Init PROVE FInv
  OBVIOUS
<1>1. heap = << >> /\ DOMAIN heap = {} /\ stack = <<NewFrame("gbnf", Undef)>>
  BY DEF Init
<1>2. /\ Len(stack) = 1 /\ stack[1].rule = "gbnf" /\ stack[1].phase = "open"
      /\ ~stack[1].grouped
  BY <1>1 DEF NewFrame
<1>3. Tidy(heap)
  BY <1>1 DEF Tidy
<1>4. Holds(heap, stack, 1)
  BY <1>2 DEF Holds, Owners
<1>5. Held(heap, stack, 1)
  BY <1>4 DEF Held
<1>6. Delivered(heap, stack)
  BY <1>2 DEF Delivered
<1> QED BY <1>2, <1>3, <1>5, <1>6, InitIInv DEF FInv, Anchored

\* Nobody loses or gains a parent in a heap that stays.
LEMMA GrownSame == ASSUME NEW h, NEW gone PROVE Grown(h, h, gone)
BY DEF Grown

LEMMA GrownTwice ==
  ASSUME NEW h, NEW k, NEW l, NEW a, NEW b, Grown(h, k, a), Grown(k, l, b), b \notin DOMAIN h
  PROVE  Grown(h, l, a)
<1> SUFFICES ASSUME NEW r \in DOMAIN h
             PROVE  /\ r \in DOMAIN l /\ l[r].kind = h[r].kind
                    /\ Free(h, r) /\ r # a => Free(l, r)
  BY DEF Grown
<1>1. r \in DOMAIN k /\ k[r].kind = h[r].kind /\ (Free(h, r) /\ r # a => Free(k, r))
  BY DEF Grown
<1> QED BY <1>1 DEF Grown

\* What the invariant says of the current frame, and of the lists below it.
LEMMA TopFacts ==
  ASSUME FInv
  PROVE  LET n == Len(stack) IN
         /\ n \in Nat \ {0} /\ Top \in Frames
         /\ Top.node \in Nat /\ Top.child \in Nat /\ Top.tok \in Nat /\ Top.grouped \in BOOLEAN
         /\ heap \in Seq(Cells) /\ Tidy(heap) /\ Anchored(heap, stack)
         /\ Len(heap) \in Nat /\ DOMAIN heap = 1 .. Len(heap) /\ Fresh = Len(heap) + 1
         /\ Fresh \in Nat /\ Fresh \notin DOMAIN heap
         /\ Top.grouped => Top.rule = "atom" /\ Top.node = Undef /\ Top.phase = "close"
         /\ Top.phase = "close" => TopHolds(heap, Top)
         /\ Top.rule = "prod" => Is(heap, Top.node, "prods")
         /\ Top.rule = "elem" => Is(heap, Top.node, "seq")
         /\ \A j \in 1 .. n - 1 :
              stack[j].rule \in Owners => stack[j].node \in DOMAIN heap /\ stack[j].node < Fresh
         /\ SparedBelow(stack, n - 1, Undef) /\ SparedBelow(stack, n - 1, Fresh)
         /\ SparedBelow(stack, n, Fresh)
<1> DEFINE n == Len(stack)
<1>1. /\ n \in Nat \ {0} /\ Top \in Frames /\ (Top.grouped => Top.rule = "atom")
  BY TopFrame DEF FInv, IInv, TypeOK, StackShape
<1>2. Top.node \in Nat /\ Top.child \in Nat /\ Top.tok \in Nat /\ Top.grouped \in BOOLEAN
  BY <1>1 DEF Frames
<1>3. /\ heap \in Seq(Cells) /\ Len(heap) \in Nat /\ DOMAIN heap = 1 .. Len(heap)
      /\ Fresh = Len(heap) + 1 /\ Fresh \in Nat /\ Fresh \notin DOMAIN heap
      /\ \A r \in DOMAIN heap : r < Fresh
  BY HeapCells DEF FInv, IInv, TypeOK, Fresh
<1>4. Holds(heap, stack, n) /\ Top = stack[n]
  BY <1>1 DEF FInv, Anchored, Held, Top
<1>5. \A j \in 1 .. n :
        /\ stack[j].rule \in Owners /\ stack[j].phase = "close" =>
             stack[j].node \in DOMAIN heap /\ stack[j].node # Undef
        /\ j \in 1 .. n - 1 => stack[j].phase = "close"
  BY HeldLists DEF FInv
<1>6. \A j \in 1 .. n - 1 : j \in 1 .. n
  BY <1>1
<1>7. \A j \in 1 .. n - 1 :
        stack[j].rule \in Owners => stack[j].node \in DOMAIN heap /\ stack[j].node < Fresh
  BY <1>3, <1>5, <1>6
<1>8. SparedBelow(stack, n - 1, Undef) /\ SparedBelow(stack, n - 1, Fresh) /\ SparedBelow(stack, n, Fresh)
  BY <1>3, <1>5, <1>6 DEF SparedBelow
<1>9. Top.phase = "close" => TopHolds(heap, Top)
  BY <1>4 DEF Holds, TopHolds
<1>10. /\ Top.rule = "prod" => Is(heap, Top.node, "prods")
       /\ Top.rule = "elem" => Is(heap, Top.node, "seq")
       /\ Top.grouped => Top.node = Undef /\ Top.phase = "close"
  BY <1>4 DEF Holds
<1> QED BY <1>1, <1>2, <1>3, <1>7, <1>8, <1>9, <1>10 DEF FInv

\* What has been handed to the current frame is newer than its list, too.
LEMMA ChildFacts ==
  ASSUME FInv, Top.phase = "close"
  PROVE  LET n == Len(stack) IN
         /\ Top.rule = "alts" => Handed(heap, stack, n, Top.child, {"seq"})
         /\ Top.rule = "prod" => Handed(heap, stack, n, Top.child, {"alts"})
         /\ Top.rule = "elem" => Top.child = Undef \/ Handed(heap, stack, n, Top.child, {"term", "group"})
         /\ Top.rule = "atom" =>
              IF Top.grouped THEN Handed(heap, stack, n, Top.child, {"alts"})
              ELSE Top.node = Undef \/ Handed(heap, stack, n, Top.node, {"term"})
BY DEF FInv, Anchored, Delivered, Top

\* What a handed node's new parent leaves alone: the lists being filled.
LEMMA HandedSpares ==
  ASSUME FInv, NEW r \in Nat, NEW kinds, Handed(heap, stack, Len(stack), r, kinds)
  PROVE  /\ r \in DOMAIN heap /\ Free(heap, r) /\ heap[r].kind \in kinds /\ r # Undef
         /\ SparedBelow(stack, Len(stack), r) /\ SparedBelow(stack, Len(stack) - 1, r)
         /\ \A j \in 1 .. Len(stack) - 1 : stack[j].rule \in Owners => stack[j].node < r
<1>1. Len(stack) \in Nat \ {0} /\ DOMAIN heap = 1 .. Len(heap) /\ Len(heap) \in Nat
  BY TopFacts
<1>2. \A j \in 1 .. Len(stack) - 1 : j \in 1 .. Len(stack)
  BY <1>1
<1>3. \A j \in 1 .. Len(stack) : stack[j].rule \in Owners => stack[j].node < r
  BY DEF Handed
<1>4. Free(heap, r) /\ heap[r].kind \in kinds /\ r \in DOMAIN heap
  BY DEF Handed, Free
<1>5. \A j \in 1 .. Len(stack) : stack[j] \in Frames /\ stack[j].node \in Nat
  <2>1. stack \in Seq(Frames)
    BY DEF FInv, IInv, TypeOK
  <2>2. \A j \in 1 .. Len(stack) : stack[j] \in Frames
    BY <2>1, ElementOfSeq
  <2> QED BY <2>2 DEF Frames
<1>6. \A j \in 1 .. Len(stack) : stack[j].rule \in Owners => stack[j].node # r
  BY <1>3, <1>5
<1> QED BY <1>1, <1>2, <1>3, <1>4, <1>6 DEF SparedBelow, Undef

LEMMA FreshCells ==
  ASSUME FInv
  PROVE  /\ \A k \in CellKinds : List(k) \in Cells /\ List(k).kind = k /\ List(k).kids = << >>
         /\ pos \in Nat /\ << >> \in Seq(Nat) /\ \A r \in Nat : <<r>> \in Seq(Nat)
<1>1. pos \in Nat
  BY LenProperties DEF FInv, IInv, TypeOK
<1> QED BY <1>1, EmptySeq DEF List, Cells

LEMMA MadeNode ==
  ASSUME NEW k \in CellKinds, NEW t \in Nat, NEW e \in Nat, NEW l \in Nat, NEW kids \in Seq(Nat)
  PROVE  /\ Node(k, t, e, l, kids) \in Cells
         /\ Node(k, t, e, l, kids).kind = k /\ Node(k, t, e, l, kids).kids = kids
BY DEF Node, Cells

\* The actions that make a list: its rule then owns a free cell of its kind,
\* newer than every list below.
LEMMA MadeList ==
  ASSUME FInv, NEW kind \in {"prods", "alts", "seq"}, heap' = Append(heap, List(kind))
  PROVE  /\ Tidy(heap') /\ Grown(heap, heap', Undef)
         /\ Is(heap', Fresh, kind) /\ Free(heap', Fresh) /\ heap'[Fresh].kind = kind
<1>1. List(kind) \in Cells /\ List(kind).kind = kind /\ List(kind).kids = << >>
  BY FreshCells DEF CellKinds
<1>2. heap \in Seq(Cells) /\ Tidy(heap) /\ Fresh = Len(heap) + 1
  BY TopFacts
<1>3. /\ Tidy(heap') /\ Grown(heap, heap', Undef) /\ Free(heap', Fresh)
      /\ heap'[Fresh] = List(kind)
  BY <1>1, <1>2, NewLeaf
<1> QED BY <1>1, <1>3 DEF Is, Free

LEMMA RulesAhead ==
  ASSUME FInv
  PROVE  /\ Top.rule = "gbnf" => RuleAt(Len(stack) + 1) = "prod"
         /\ Top.rule = "alts" => RuleAt(Len(stack) + 1) = "seq"
BY TopFrame, NextRule DEF FInv, IInv, TypeOK, StackShape

LEMMA OpenListKeeps ==
  ASSUME FInv, OpenGbnf \/ OpenAlts \/ OpenSeq
  PROVE  Tidy(heap') /\ Anchored(heap', stack')
<1> DEFINE f == [Top EXCEPT !.node = Fresh]
<1>1. /\ IInv /\ Anchored(heap, stack) /\ Top \in Frames /\ Fresh \in Nat
      /\ Top.grouped => Top.rule = "atom"
      /\ SparedBelow(stack, Len(stack) - 1, Undef)
      /\ \A j \in 1 .. Len(stack) - 1 : stack[j].rule \in Owners => stack[j].node < Fresh
  BY TopFacts DEF FInv
<1>2. f \in Frames /\ f.rule = Top.rule /\ f.node = Fresh /\ f.grouped = Top.grouped
  BY <1>1 DEF Frames
<1> HIDE DEF f
<1>3. CASE OpenGbnf
  <2>1. Tidy(heap') /\ Grown(heap, heap', Undef) /\ Is(heap', Fresh, "prods")
    BY <1>3, MadeList DEF OpenGbnf
  <2>2. Top.rule = "gbnf" /\ (stack' = Stay(f) \/ stack' = PushRule(f, "prod"))
    BY <1>3 DEF OpenGbnf, At, f
  <2>3. TopHolds(heap', f)
    BY <1>1, <1>2, <2>1, <2>2 DEF TopHolds, Owners
  <2>4. CASE stack' = Stay(f)
    BY <1>1, <1>2, <2>1, <2>2, <2>3, <2>4, StayAnchored
  <2>5. CASE stack' = PushRule(f, "prod")
    BY <1>1, <1>2, <2>1, <2>2, <2>3, <2>5, PushAnchored DEF Rules
  <2> QED BY <2>1, <2>2, <2>4, <2>5
<1>4. CASE OpenAlts
  <2>1. Tidy(heap') /\ Grown(heap, heap', Undef) /\ Free(heap', Fresh) /\ heap'[Fresh].kind = "alts"
    BY <1>4, MadeList DEF OpenAlts
  <2>2. Top.rule = "alts" /\ stack' = PushRule(f, "seq")
    BY <1>4 DEF OpenAlts, At, f
  <2>3. TopHolds(heap', f)
    BY <1>1, <1>2, <2>1, <2>2 DEF TopHolds, Owners
  <2> QED BY <1>1, <1>2, <2>1, <2>2, <2>3, PushAnchored DEF Rules
<1>5. CASE OpenSeq
  <2>1. /\ Tidy(heap') /\ Grown(heap, heap', Undef) /\ Free(heap', Fresh)
        /\ heap'[Fresh].kind = "seq" /\ Is(heap', Fresh, "seq")
    BY <1>5, MadeList DEF OpenSeq
  <2>2. Top.rule = "seq" /\ (stack' = Stay(f) \/ stack' = PushRule(f, "elem"))
    BY <1>5 DEF OpenSeq, At, f
  <2>3. TopHolds(heap', f)
    BY <1>1, <1>2, <2>1, <2>2 DEF TopHolds, Owners
  <2>4. CASE stack' = Stay(f)
    BY <1>1, <1>2, <2>1, <2>2, <2>3, <2>4, StayAnchored
  <2>5. CASE stack' = PushRule(f, "elem")
    BY <1>1, <1>2, <2>1, <2>2, <2>3, <2>5, PushAnchored DEF Rules
  <2> QED BY <2>1, <2>2, <2>4, <2>5
<1> QED BY <1>3, <1>4, <1>5

LEMMA OpenOnKeeps ==
  ASSUME FInv, OpenProd \/ OpenElem \/ AtomGroup
  PROVE  Tidy(heap') /\ Anchored(heap', stack')
<1>1. /\ IInv /\ Tidy(heap) /\ Anchored(heap, stack) /\ Top \in Frames /\ pos \in Nat
      /\ Top.grouped => Top.rule = "atom"
      /\ Top.rule = "prod" => Is(heap, Top.node, "prods")
      /\ Top.rule = "elem" => Is(heap, Top.node, "seq")
      /\ SparedBelow(stack, Len(stack) - 1, Undef)
  BY TopFacts, FreshCells DEF FInv
<1>2. heap' = heap /\ Grown(heap, heap', Undef)
  BY GrownSame DEF OpenProd, OpenElem, AtomGroup
<1>3. CASE OpenProd
  <2> DEFINE f == [Top EXCEPT !.tok = pos]
  <2>1. Top.rule = "prod" /\ stack' = PushRule(f, "alts")
    BY <1>3 DEF OpenProd, At
  <2>2. f \in Frames /\ f.rule = "prod" /\ f.node = Top.node /\ ~f.grouped
    BY <1>1, <2>1 DEF Frames
  <2> HIDE DEF f
  <2>3. TopHolds(heap', f)
    BY <1>1, <1>2, <2>1, <2>2 DEF TopHolds, Owners
  <2> QED BY <1>1, <1>2, <2>1, <2>2, <2>3, PushAnchored DEF Rules
<1>4. CASE OpenElem
  <2>1. Top.rule = "elem" /\ stack' = PushRule(Top, "atom")
    BY <1>4 DEF OpenElem, At
  <2>2. TopHolds(heap', Top)
    BY <1>1, <1>2, <2>1 DEF TopHolds, Owners
  <2> QED BY <1>1, <1>2, <2>1, <2>2, PushAnchored DEF Rules
<1>5. CASE AtomGroup
  <2> DEFINE f == [Top EXCEPT !.node = Undef, !.tok = pos, !.grouped = TRUE]
  <2>1. Top.rule = "atom" /\ stack' = PushRule(f, "alts")
    BY <1>5 DEF AtomGroup, At
  <2>2. f \in Frames /\ f.rule = "atom" /\ f.node = Undef
    BY <1>1, <2>1 DEF Frames, Undef
  <2> HIDE DEF f
  <2>3. TopHolds(heap', f)
    BY <2>2 DEF TopHolds, Owners
  <2> QED BY <1>1, <1>2, <2>1, <2>2, <2>3, PushAnchored DEF Rules
<1> QED BY <1>3, <1>4, <1>5

\* A plain atom leaves its open phase with a leaf of its own, or nothing.
LEMMA AtomKeeps ==
  ASSUME FInv, AtomTerm \/ AtomEmpty \/ (AtomBad /\ stack' # stack)
  PROVE  Tidy(heap') /\ Anchored(heap', stack')
<1>1. /\ IInv /\ Tidy(heap) /\ Anchored(heap, stack) /\ Top \in Frames
      /\ pos \in Nat /\ Fresh \in Nat /\ heap \in Seq(Cells) /\ Fresh = Len(heap) + 1
      /\ \A j \in 1 .. Len(stack) - 1 : stack[j].rule \in Owners => stack[j].node < Fresh
  BY TopFacts, FreshCells DEF FInv
<1>2. Top.rule = "atom" /\ ~Top.grouped
  <2>1. Top.phase = "open" /\ Top.rule = "atom"
    BY DEF AtomTerm, AtomEmpty, AtomBad, At
  <2> QED BY <2>1, TopFacts
<1>3. CASE AtomTerm
  <2> DEFINE f == [Top EXCEPT !.node = Fresh]
             c == Node("term", pos, pos, 0, << >>)
  <2>1. c \in Cells /\ c.kind = "term" /\ c.kids = << >>
    <3>1. << >> \in Seq(Nat) /\ 0 \in Nat /\ "term" \in CellKinds
      BY EmptySeq DEF CellKinds
    <3>2. c \in Cells
      BY <1>1, <3>1, MadeNode
    <3> QED BY <3>2 DEF Node
  <2>2. heap' = Append(heap, c) /\ stack' = Stay(f)
    BY <1>3 DEF AtomTerm
  <2>3. f \in Frames /\ f.rule = "atom" /\ f.node = Fresh /\ ~f.grouped
    BY <1>1, <1>2 DEF Frames
  <2> HIDE DEF f, c
  <2>4. Tidy(heap') /\ Grown(heap, heap', Undef) /\ Free(heap', Fresh) /\ heap'[Fresh] = c
    BY <1>1, <2>1, <2>2, NewLeaf
  <2>5. Handed(heap', stack, Len(stack) - 1, f.node, {"term"})
    BY <1>1, <2>1, <2>3, <2>4 DEF Handed
  <2>6. TopHolds(heap', f)
    BY <2>3 DEF TopHolds, Owners
  <2> QED BY <1>1, <2>2, <2>3, <2>4, <2>5, <2>6, StayAnchored
<1>4. CASE AtomEmpty \/ (AtomBad /\ stack' # stack)
  <2> DEFINE f == [Top EXCEPT !.node = Undef]
  <2>1. heap' = heap /\ stack' = Stay(f)
    BY <1>4 DEF AtomEmpty, AtomBad
  <2>2. f \in Frames /\ f.rule = "atom" /\ f.node = Undef /\ ~f.grouped
    BY <1>1, <1>2 DEF Frames, Undef
  <2> HIDE DEF f
  <2>3. TopHolds(heap', f) /\ Grown(heap, heap', Undef)
    BY <2>1, <2>2, GrownSame DEF TopHolds, Owners
  <2> QED BY <1>1, <2>1, <2>2, <2>3, StayAnchored
<1> QED BY <1>3, <1>4

\* A group is made of its alternatives' array, and handed to elem; an atom
\* that closes nothing hands over what its open phase set.
LEMMA CloseAtomKeeps ==
  ASSUME FInv, CloseGroup \/ CloseAtom
  PROVE  Tidy(heap') /\ Anchored(heap', stack')
<1> DEFINE n == Len(stack)
<1>1. /\ IInv /\ Tidy(heap) /\ Anchored(heap, stack) /\ heap \in Seq(Cells)
      /\ Top.node \in Nat /\ Top.child \in Nat /\ Top.tok \in Nat /\ pos \in Nat
      /\ Fresh \in Nat /\ Fresh = Len(heap) + 1
      /\ \A j \in 1 .. n - 1 : stack[j].rule \in Owners => stack[j].node < Fresh
      /\ SparedBelow(stack, n - 1, Undef)
      /\ Top.grouped => Top.node = Undef
  BY TopFacts, FreshCells DEF FInv
<1>2. Top.rule = "atom" /\ Top.phase = "close"
  BY DEF CloseGroup, CloseAtom, At
<1>3. IF Top.grouped THEN Handed(heap, stack, n, Top.child, {"alts"})
      ELSE Top.node = Undef \/ Handed(heap, stack, n, Top.node, {"term"})
  BY <1>2, ChildFacts
<1>4. CASE CloseGroup
  <2> DEFINE c == Node("group", Top.tok, pos, 0, <<Top.child>>)
  <2>1. c \in Cells /\ c.kind = "group" /\ c.kids = <<Top.child>>
    <3>1. <<Top.child>> \in Seq(Nat) /\ 0 \in Nat /\ "group" \in CellKinds
      BY <1>1 DEF CellKinds
    <3>2. c \in Cells
      BY <1>1, <3>1, MadeNode
    <3> QED BY <3>2 DEF Node
  <2>2. heap' = Append(heap, c) /\ stack' = PopRule(Fresh) /\ Top.grouped
    BY <1>4 DEF CloseGroup, GroupAhead
  <2> HIDE DEF c
  <2>3. /\ Free(heap, Top.child) /\ heap[Top.child].kind = "alts"
        /\ SparedBelow(stack, n - 1, Top.child)
    BY <1>1, <1>3, <2>2, HandedSpares
  <2>4. /\ Tidy(heap') /\ Grown(heap, heap', Top.child) /\ Free(heap', Fresh)
        /\ heap'[Fresh] = c
    BY <1>1, <2>1, <2>2, <2>3, NewParent DEF Layers
  <2>5. Handed(heap', stack, n - 1, Fresh, {"term", "group"})
    BY <1>1, <2>1, <2>4 DEF Handed
  <2> QED BY <1>1, <1>2, <2>2, <2>3, <2>4, <2>5, PopAnchored
<1>5. CASE CloseAtom
  <2>1. heap' = heap /\ stack' = PopRule(Top.node) /\ Grown(heap, heap', Undef)
    BY <1>5, GrownSame DEF CloseAtom
  <2>2. Top.node = Undef \/ Handed(heap', stack, n - 1, Top.node, {"term", "group"})
    <3>1. ASSUME Handed(heap, stack, n, Top.node, {"term"})
          PROVE  Handed(heap', stack, n - 1, Top.node, {"term", "group"})
      BY <1>1, <2>1, <3>1, HandedSpares DEF Handed
    <3> QED BY <1>1, <1>3, <3>1
  <2> QED BY <1>1, <1>2, <2>1, <2>2, PopAnchored
<1> QED BY <1>4, <1>5

\* What elem hands to its sequence: the element it was handed itself, the
\* wrapper its postfix operators made of it, or nothing.
LEMMA ElemKeeps ==
  ASSUME FInv, ElemPlain \/ ElemPost \/ (ElemPostBad /\ stack' # stack)
  PROVE  Tidy(heap') /\ Anchored(heap', stack')
<1> DEFINE n == Len(stack)
           list == Top.node
           r == Top.child
<1>1. /\ IInv /\ Tidy(heap) /\ Anchored(heap, stack) /\ heap \in Seq(Cells)
      /\ list \in Nat /\ r \in Nat /\ pos \in Nat
      /\ Fresh \in Nat /\ Fresh = Len(heap) + 1 /\ Fresh \notin DOMAIN heap
      /\ SparedBelow(stack, n - 1, Undef) /\ SparedBelow(stack, n - 1, Fresh)
  BY TopFacts, FreshCells DEF FInv
<1>2. Top.rule = "elem" /\ Top.phase = "close" /\ stack' = PopRule(list)
  BY DEF ElemPlain, ElemPost, ElemPostBad, At
<1>3. list \in DOMAIN heap /\ heap[list].kind = "seq"
  BY <1>2, TopFacts DEF Is
<1>4. r = Undef \/ Handed(heap, stack, n, r, {"term", "group"})
  BY <1>2, ChildFacts
<1>5. r # Undef => /\ Free(heap, r) /\ heap[r].kind \in {"term", "group"} /\ r \in DOMAIN heap
                   /\ SparedBelow(stack, n - 1, r)
  BY <1>1, <1>4, HandedSpares
<1>6. ASSUME heap' = heap PROVE Tidy(heap') /\ Grown(heap, heap', Undef)
  BY <1>1, <1>6, GrownSame
<1>7. ASSUME r # Undef, heap' = PushNode(heap, list, r)
      PROVE  Tidy(heap') /\ Grown(heap, heap', r)
  <2>1. <<heap[list].kind, heap[r].kind>> \in Layers
    BY <1>3, <1>5, <1>7 DEF Layers
  <2> QED BY <1>1, <1>3, <1>5, <1>7, <2>1, Pushed
<1>8. ASSUME r # Undef, NEW c \in Cells, c.kind = "rep", c.kids = <<r>>,
             heap' = PushNode(Append(heap, c), list, Fresh)
      PROVE  Tidy(heap') /\ Grown(heap, heap', r)
  <2> DEFINE k == Append(heap, c)
  <2>1. <<c.kind, heap[r].kind>> \in Layers
    BY <1>5, <1>8 DEF Layers
  <2>2. /\ k \in Seq(Cells) /\ Tidy(k) /\ Grown(heap, k, r)
        /\ Free(k, Fresh) /\ k[Fresh] = c
    BY <1>1, <1>5, <1>8, <2>1, NewParent
  <2> HIDE DEF k
  <2>3. list \in DOMAIN k /\ k[list].kind = "seq"
    BY <1>3, <2>2 DEF Grown
  <2>4. <<k[list].kind, k[Fresh].kind>> \in Layers
    BY <1>8, <2>2, <2>3 DEF Layers
  <2>5. heap' = PushNode(k, list, Fresh)
    BY <1>8 DEF k
  <2>6. Tidy(heap') /\ Grown(k, heap', Fresh)
    BY <1>1, <2>2, <2>3, <2>4, <2>5, Pushed
  <2> QED BY <1>1, <2>2, <2>6, GrownTwice
<1>9. \/ heap' = heap
      \/ r # Undef /\ heap' = PushNode(heap, list, r)
      \/ /\ r # Undef
         /\ \E c \in Cells : /\ c.kind = "rep" /\ c.kids = <<r>>
                             /\ heap' = PushNode(Append(heap, c), list, Fresh)
  <2>1. CASE ElemPlain
    BY <2>1 DEF ElemPlain, PushChild
  <2>2. CASE ElemPostBad /\ stack' # stack
    BY <2>2 DEF ElemPostBad
  <2>3. CASE ElemPost
    <3> DEFINE w == Wraps(input[pos].ops)
               c == Node("rep", pos, pos, w, <<r>>)
    <3>1. \/ heap' = heap
          \/ r # Undef /\ heap' = PushNode(heap, list, r)
          \/ r # Undef /\ heap' = PushNode(Append(heap, c), list, Fresh)
      BY <2>3 DEF ElemPost
    <3>2. pos \in 1 .. Len(input)
      BY <2>3, Lookahead DEF ElemPost, FInv, IInv
    <3>3. w \in Nat
      BY <3>2, Lookahead, WrapsType DEF FInv, IInv
    <3> HIDE DEF w
    <3>4. <<r>> \in Seq(Nat) /\ "rep" \in CellKinds
      BY <1>1 DEF CellKinds
    <3>5. c \in Cells
      BY <1>1, <3>3, <3>4, MadeNode
    <3>6. c.kind = "rep" /\ c.kids = <<r>>
      BY DEF Node
    <3> QED BY <3>1, <3>5, <3>6
  <2> QED BY <2>1, <2>2, <2>3
<1>10. \/ Tidy(heap') /\ Grown(heap, heap', Undef)
       \/ r # Undef /\ Tidy(heap') /\ Grown(heap, heap', r)
  BY <1>6, <1>7, <1>8, <1>9
<1>11. CASE Tidy(heap') /\ Grown(heap, heap', Undef)
  BY <1>1, <1>2, <1>11, PopAnchored
<1>12. CASE r # Undef /\ Tidy(heap') /\ Grown(heap, heap', r)
  BY <1>1, <1>2, <1>5, <1>12, PopAnchored
<1> QED BY <1>10, <1>11, <1>12

\* A sequence is handed to alts, or pushes the next element.
LEMMA CloseSeqKeeps ==
  ASSUME FInv, CloseSeq
  PROVE  Tidy(heap') /\ Anchored(heap', stack')
<1> DEFINE n == Len(stack)
<1>1. /\ IInv /\ Tidy(heap) /\ Anchored(heap, stack) /\ Top \in Frames /\ Top.node \in Nat
      /\ SparedBelow(stack, n - 1, Undef)
  BY TopFacts DEF FInv
<1>2. Top.rule = "seq" /\ Top.phase = "close" /\ heap' = heap
  BY DEF CloseSeq, At
<1>3. TopHolds(heap, Top) /\ Grown(heap, heap', Undef)
  BY <1>2, TopFacts, GrownSame
<1>4. CASE stack' = PopRule(Top.node)
  <2>1. Handed(heap', stack, n - 1, Top.node, {"seq"})
    BY <1>2, <1>3 DEF TopHolds, Owners, Handed
  <2> QED BY <1>1, <1>2, <1>3, <1>4, <2>1, PopAnchored
<1>5. CASE stack' = PushRule(Top, "elem")
  <2>1. Is(heap', Top.node, "seq")
    BY <1>2, <1>3 DEF TopHolds, Owners, Free, Is
  <2> QED BY <1>1, <1>2, <1>3, <1>5, <2>1, PushAnchored DEF Rules
<1> QED BY <1>4, <1>5 DEF CloseSeq

\* alts takes the finished sequence, and stays free itself.
LEMMA CloseAltsKeeps ==
  ASSUME FInv, CloseAlts
  PROVE  Tidy(heap') /\ Anchored(heap', stack')
<1> DEFINE n == Len(stack)
           list == Top.node
           r == Top.child
<1>1. /\ IInv /\ Tidy(heap) /\ Anchored(heap, stack) /\ Top \in Frames /\ heap \in Seq(Cells)
      /\ list \in Nat /\ r \in Nat /\ n \in Nat \ {0} /\ ~Top.grouped
  <2>1. Top.rule = "alts"
    BY DEF CloseAlts, At
  <2> QED BY <2>1, TopFacts DEF FInv
<1>2. Top.rule = "alts" /\ Top.phase = "close"
  BY DEF CloseAlts, At
<1>3. /\ Free(heap, list) /\ heap[list].kind = "alts" /\ list \in DOMAIN heap
      /\ \A j \in 1 .. n - 1 : stack[j].rule \in Owners => stack[j].node < list
  BY <1>2, TopFacts DEF TopHolds, Owners, Free
<1>4. Handed(heap, stack, n, r, {"seq"})
  BY <1>2, ChildFacts
<1>5. /\ Free(heap, r) /\ heap[r].kind = "seq" /\ r # Undef
      /\ SparedBelow(stack, n, r) /\ SparedBelow(stack, n - 1, r)
  BY <1>1, <1>4, HandedSpares
<1>6. list # r
  BY <1>1, <1>2, <1>5 DEF SparedBelow, Top, Owners
<1>7. heap' = PushNode(heap, list, r)
  BY <1>5 DEF CloseAlts, PushChild
<1>8. <<heap[list].kind, heap[r].kind>> \in Layers
  BY <1>3, <1>5 DEF Layers
<1>9. Tidy(heap') /\ Grown(heap, heap', r)
  BY <1>1, <1>3, <1>5, <1>7, <1>8, Pushed
<1>10. Free(heap', list) /\ heap'[list].kind = "alts"
  BY <1>3, <1>6, <1>9 DEF Grown
<1>11. CASE stack' = PushRule(Top, "seq")
  <2>1. TopHolds(heap', Top)
    BY <1>1, <1>2, <1>3, <1>10 DEF TopHolds, Owners
  <2> QED BY <1>1, <1>2, <1>5, <1>9, <1>11, <2>1, PushAnchored DEF Rules
<1>12. CASE stack' = PopRule(list)
  <2>1. Handed(heap', stack, n - 1, list, {"alts"})
    BY <1>3, <1>10 DEF Handed
  <2> QED BY <1>1, <1>2, <1>5, <1>9, <1>12, <2>1, PopAnchored
<1> QED BY <1>11, <1>12 DEF CloseAlts

\* prod wraps its alternatives in a production, and appends that.
LEMMA CloseProdKeeps ==
  ASSUME FInv, CloseProd
  PROVE  Tidy(heap') /\ Anchored(heap', stack')
<1> DEFINE n == Len(stack)
           list == Top.node
           r == Top.child
           c == Node("prod", Top.tok, Top.tok, 0, <<r>>)
           k == Append(heap, c)
<1>1. /\ IInv /\ Tidy(heap) /\ Anchored(heap, stack) /\ heap \in Seq(Cells)
      /\ list \in Nat /\ r \in Nat /\ Top.tok \in Nat
      /\ Fresh \in Nat /\ Fresh = Len(heap) + 1 /\ Fresh \notin DOMAIN heap
  BY TopFacts DEF FInv
<1>2. Top.rule = "prod" /\ Top.phase = "close"
  BY DEF CloseProd, At
<1>3. list \in DOMAIN heap /\ heap[list].kind = "prods"
  BY <1>2, TopFacts DEF Is
<1>4. Handed(heap, stack, n, r, {"alts"})
  BY <1>2, ChildFacts
<1>5. /\ Free(heap, r) /\ heap[r].kind = "alts" /\ r # Undef /\ SparedBelow(stack, n - 1, r)
  BY <1>1, <1>4, HandedSpares
<1>6. c \in Cells /\ c.kind = "prod" /\ c.kids = <<r>>
  <2>1. <<r>> \in Seq(Nat) /\ 0 \in Nat /\ "prod" \in CellKinds
    BY <1>1 DEF CellKinds
  <2>2. c \in Cells
    BY <1>1, <2>1, MadeNode
  <2> QED BY <2>2 DEF Node
<1>7. heap' = PushNode(k, list, Fresh)
  BY <1>5 DEF CloseProd
<1> HIDE DEF c
<1>8. <<c.kind, heap[r].kind>> \in Layers
  BY <1>5, <1>6 DEF Layers
<1>9. k \in Seq(Cells) /\ Tidy(k) /\ Grown(heap, k, r) /\ Free(k, Fresh) /\ k[Fresh] = c
  BY <1>1, <1>5, <1>6, <1>8, NewParent
<1> HIDE DEF k
<1>10. list \in DOMAIN k /\ k[list].kind = "prods"
  BY <1>3, <1>9 DEF Grown
<1>11. <<k[list].kind, k[Fresh].kind>> \in Layers
  BY <1>6, <1>9, <1>10 DEF Layers
<1>12. Tidy(heap') /\ Grown(k, heap', Fresh)
  BY <1>1, <1>7, <1>9, <1>10, <1>11, Pushed
<1>13. Grown(heap, heap', r)
  BY <1>1, <1>9, <1>12, GrownTwice
<1>14. Is(heap', list, "prods")
  BY <1>3, <1>13 DEF Grown, Is
<1>15. CASE stack' = [stack EXCEPT ![n] = NewFrame("prod", list)]
  BY <1>1, <1>5, <1>12, <1>13, <1>14, <1>15, ReplaceAnchored
<1>16. CASE stack' = PopRule(list)
  BY <1>1, <1>2, <1>5, <1>12, <1>13, <1>16, PopAnchored
<1> QED BY <1>15, <1>16 DEF CloseProd

LEMMA StepFInv == FInv /\ [Next]_vars => FInv'
<1> SUFFICES ASSUME FInv, [Next]_vars PROVE FInv'
  OBVIOUS
<1>1. IInv'
  BY StepIInv DEF FInv
<1>2. Tidy(heap) /\ Anchored(heap, stack)
  BY DEF FInv
<1>3. ASSUME UNCHANGED <<stack, heap>> PROVE Tidy(heap') /\ Anchored(heap', stack')
  BY <1>2, <1>3
<1>4. Tidy(heap') /\ Anchored(heap', stack')
  <2>1. CASE OpenGbnf \/ OpenAlts \/ OpenSeq
    BY <2>1, OpenListKeeps
  <2>2. CASE OpenProd \/ OpenElem \/ AtomGroup
    BY <2>2, OpenOnKeeps
  <2>3. CASE AtomTerm \/ AtomEmpty \/ AtomBad
    <3>1. CASE AtomBad /\ stack' = stack
      BY <1>3, <3>1 DEF AtomBad
    <3> QED BY <2>3, <3>1, AtomKeeps
  <2>4. CASE CloseGroup \/ CloseAtom
    BY <2>4, CloseAtomKeeps
  <2>5. CASE ElemPlain \/ ElemPost \/ ElemPostBad
    <3>1. CASE ElemPostBad /\ stack' = stack
      BY <1>3, <3>1 DEF ElemPostBad
    <3> QED BY <2>5, <3>1, ElemKeeps
  <2>6. CASE CloseSeq
    BY <2>6, CloseSeqKeeps
  <2>7. CASE CloseAlts
    BY <2>7, CloseAltsKeeps
  <2>8. CASE CloseProd
    BY <2>8, CloseProdKeeps
  <2>9. CASE CloseGbnf \/ Unexpected \/ Finished \/ UNCHANGED vars
    BY <1>3, <2>9 DEF CloseGbnf, Unexpected, Finished, vars
  <2> QED BY <2>1, <2>2, <2>3, <2>4, <2>5, <2>6, <2>7, <2>8, <2>9 DEF Next, Step
<1> QED BY <1>1, <1>4 DEF FInv

\* A tidy heap is a forest: two places of one parentage are the same place.
LEMMA TidyIsForest == FInv => HeapIsForest
<1> SUFFICES ASSUME FInv, NEW r \in DOMAIN heap
             PROVE  /\ Cardinality(Parents(r)) <= 1
                    /\ \A p \in Parents(r) : <<heap[p[1]].kind, heap[r].kind>> \in Layers
  BY DEF HeapIsForest
<1>1. ASSUME NEW p \in Parents(r)
      PROVE  /\ p = <<p[1], p[2]>> /\ p[1] \in DOMAIN heap
             /\ p[2] \in DOMAIN heap[p[1]].kids /\ heap[p[1]].kids[p[2]] = r
  BY DEF Parents
<1>2. \A p \in Parents(r) : <<heap[p[1]].kind, heap[r].kind>> \in Layers
  BY <1>1 DEF FInv, Tidy
<1>3. ASSUME NEW p \in Parents(r), NEW q \in Parents(r) PROVE p = q
  <2>1. p[1] = q[1] /\ p[2] = q[2]
    BY <1>1 DEF FInv, Tidy
  <2> QED BY <1>1, <2>1
<1>4. Parents(r) = {} \/ \E p : Parents(r) = {p}
  BY <1>3
<1>5. Cardinality(Parents(r)) <= 1
  <2>1. CASE Parents(r) = {}
    <3>1. Cardinality(Parents(r)) = 0
      BY <2>1, FS_EmptySet
    <3> QED BY <3>1
  <2>2. ASSUME NEW p, Parents(r) = {p} PROVE Cardinality(Parents(r)) <= 1
    <3>1. Cardinality(Parents(r)) = 1
      BY <2>2, FS_Singleton
    <3> QED BY <3>1
  <2> QED BY <1>4, <2>1, <2>2
<1> QED BY <1>2, <1>5

\* However the rules share their nodes, every array and element the parse
\* has built has one parent at most, of the kind the IR puts above it.
THEOREM HeapForest == Spec => []HeapIsForest
BY InitFInv, StepFInv, TidyIsForest, PTL DEF Spec

-----------------------------------------------------------------------------
(* The least and the greatest of a set of naturals. Induction over the     *)
(* naturals is by the pigeonhole: a counterexample m would give a map from *)
(* the counterexamples up to m, i |-> i - 1, that is injective and misses  *)
(* m.                                                                      *)

LEMMA Reaches ==
  ASSUME NEW S, 0 \in S, \A n \in Nat : n \in S => n + 1 \in S
  PROVE  \A n \in Nat : n \in S
<1> SUFFICES ASSUME NEW m \in Nat, m \notin S PROVE FALSE
  OBVIOUS
<1> DEFINE D == {i \in 0 .. m : i \notin S}
           E == D \ {m}
           f == [i \in D |-> i - 1]
<1>1. \A i \in D : i - 1 \in E
  <2> SUFFICES ASSUME NEW i \in D PROVE i - 1 \in E
    OBVIOUS
  <2>1. i \in 0 .. m /\ i \notin S /\ i # 0 OBVIOUS
  <2>2. i - 1 \in Nat /\ i - 1 <= m /\ i - 1 # m /\ (i - 1) + 1 = i BY <2>1
  <2>3. i - 1 \notin S BY <2>1, <2>2
  <2> QED BY <2>2, <2>3
<1>2. f \in [D -> E]
  BY <1>1
<1>3. IsFiniteSet(D)
  <2>1. IsFiniteSet(0 .. m) BY FS_Interval
  <2> QED BY <2>1, FS_Subset
<1>4. m \in D OBVIOUS
<1>5. IsFiniteSet(E) /\ Cardinality(E) = Cardinality(D) - 1 /\ Cardinality(D) \in Nat
  <2> HIDE DEF D
  <2> QED BY <1>3, <1>4, FS_RemoveElement, FS_CardinalityType
<1>6. \E x, y \in D : x # y /\ f[x] = f[y]
  <2>1. IsFiniteSet(D) /\ IsFiniteSet(E) /\ Cardinality(E) < Cardinality(D)
    BY <1>3, <1>5
  <2> HIDE DEF D, E, f
  <2> QED BY <1>2, <2>1, FS_PigeonHole
<1> QED BY <1>6

LEMMA LeastExists ==
  ASSUME NEW S \in SUBSET Nat, S # {}
  PROVE  Min(S) \in S /\ \A n \in S : Min(S) <= n
<1>1. \E m \in S : \A n \in S : m <= n
  <2> SUFFICES ASSUME \A m \in S : \E n \in S : n < m PROVE FALSE
    OBVIOUS
  <2> DEFINE T == {n \in Nat : \A i \in 0 .. n : i \notin S}
  <2>1. 0 \in T OBVIOUS
  <2>2. ASSUME NEW n \in Nat, n \in T PROVE n + 1 \in T
    <3>1. \A i \in 0 .. n + 1 : i \in 0 .. n \/ i = n + 1 OBVIOUS
    <3>2. n + 1 \notin S
      <4> SUFFICES ASSUME n + 1 \in S PROVE FALSE
        OBVIOUS
      <4>1. PICK k \in S : k < n + 1 OBVIOUS
      <4> QED BY <2>2, <4>1
    <3> QED BY <2>2, <3>1, <3>2
  <2>3. \A n \in Nat : n \in T
    <3> HIDE DEF T
    <3> QED BY <2>1, <2>2, Reaches
  <2>4. \A n \in Nat : n \notin S
    BY <2>3
  <2> QED BY <2>4
<1> QED BY <1>1 DEF Min

LEMMA GreatestExists ==
  ASSUME NEW n \in Nat, NEW S \in SUBSET (0 .. n), S # {}
  PROVE  Max(S) \in S /\ \A m \in S : m <= Max(S)
<1>1. \E m \in S : \A k \in S : k <= m
  <2> SUFFICES ASSUME \A m \in S : \E k \in S : m < k PROVE FALSE
    OBVIOUS
  <2> DEFINE T == {k \in Nat : \E m \in S : k <= m}
  <2>0. \A m \in S : m \in Nat OBVIOUS
  <2>1. 0 \in T
    <3>1. PICK m \in S : TRUE OBVIOUS
    <3> QED BY <2>0, <3>1
  <2>2. ASSUME NEW k \in Nat, k \in T PROVE k + 1 \in T
    <3>1. PICK m \in S : k <= m BY <2>2
    <3>2. PICK l \in S : m < l OBVIOUS
    <3> QED BY <3>1, <3>2
  <2>3. n + 1 \in T
    <3>1. \A k \in Nat : k \in T
      <4> HIDE DEF T
      <4> QED BY <2>1, <2>2, Reaches
    <3>2. n + 1 \in Nat OBVIOUS
    <3> HIDE DEF T
    <3> QED BY <3>1, <3>2
  <2> QED BY <2>3
<1> QED BY <1>1 DEF Max

\* The first of the positions in S, or the one behind the last.
LEMMA FirstOf ==
  ASSUME NEW n \in Nat, NEW S \in SUBSET (1 .. n)
  PROVE  LET m == Min({n + 1} \cup S) IN
         /\ m \in 1 .. n + 1 /\ (m = n + 1 \/ m \in S) /\ \A i \in S : m <= i
<1> DEFINE T == {n + 1} \cup S
<1>1. T \in SUBSET Nat /\ T # {}
  OBVIOUS
<1>2. Min(T) \in T /\ \A i \in T : Min(T) <= i
  <2> HIDE DEF T
  <2> QED BY <1>1, LeastExists
<1>3. \A i \in S : i \in T /\ i \in 1 .. n
  OBVIOUS
<1>4. \A i \in T : i = n + 1 \/ i \in S
  OBVIOUS
<1>5. Min(T) \in 1 .. n + 1
  <2> HIDE DEF T
  <2>1. Min(T) = n + 1 \/ Min(T) \in S
    BY <1>2, <1>4
  <2>2. Min(T) \in S => Min(T) \in 1 .. n
    BY <1>3
  <2>3. \A i \in 1 .. n : i \in 1 .. n + 1
    OBVIOUS
  <2>4. n + 1 \in 1 .. n + 1
    OBVIOUS
  <2> QED BY <2>1, <2>2, <2>3, <2>4
<1> HIDE DEF T
<1>6. /\ Min(T) \in 1 .. n + 1 /\ (Min(T) = n + 1 \/ Min(T) \in S)
      /\ \A i \in S : Min(T) <= i
  BY <1>2, <1>3, <1>4, <1>5
<1> QED BY <1>6 DEF T

-----------------------------------------------------------------------------
(* What each rule may take the tokens around it to be.                     *)

\* What an operator may stand behind, and which of these leave no node.
Ends == {"NM", "TERM", "EMPTY", "BADTERM", "RP"}
Nodeless == {"EMPTY", "BADTERM"}

\* What ends the alternatives of a rule or a group.
Closing(p) == ProdAt(p) \/ KindAt(p) \in {"RP", "ZZ"}
Boundary(p) == ProdAt(p) \/ KindAt(p) \in {"ALT", "RP", "ZZ"}
\* An operator here has nothing to stand behind.
Bare(p) == KindAt(p) = "POST" => KindAt(p - 1) \notin Ends
\* The token behind p left node, or none where it leaves none.
Left(p, node) == KindAt(p - 1) \in Ends /\ (node = Undef <=> KindAt(p - 1) \in Nodeless)

\* The current rule, at p.
Expects(f, p) ==
  /\ f.rule = "gbnf" => IF f.phase = "open" THEN p = 1 ELSE KindAt(p) \in {"RP", "ZZ"}
  /\ f.rule = "prod" =>
       IF f.phase = "open" THEN ProdAt(p) \/ (p = 1 /\ KindAt(p) # "ZZ") ELSE Closing(p)
  /\ f.rule = "alts" => IF f.phase = "open" THEN Bare(p) ELSE Boundary(p)
  /\ f.rule = "seq" => Bare(p)
  /\ f.rule = "elem" =>
       IF f.phase = "open" THEN Bare(p) /\ ~Boundary(p)
       ELSE KindAt(p) = "POST" => Left(p, f.child)
  /\ f.rule = "atom" =>
       IF f.phase = "open" THEN Bare(p) /\ ~Boundary(p)
       ELSE IF f.grouped THEN Closing(p)
       ELSE Left(p, f.node) /\ KindAt(p - 1) # "RP"

\* A parse begins with a production, and has not stopped inside `NM ::=`.
Inside(f, p) ==
  /\ p = 1 => f.rule = "gbnf" \/ (f.rule = "prod" /\ f.phase = "open")
  /\ ~ProdAt(p - 1)

\* The depth of the stack tells how many groups are open, until the end of
\* their production abandons them.
Offset(f) ==
  CASE f.rule = "gbnf" -> 1
    [] f.rule = "prod" -> 2
    [] f.rule = "alts" -> 3
    [] f.rule = "seq" -> 4
    [] f.rule = "elem" -> 5
    [] OTHER -> IF f.grouped THEN 2 ELSE 6
Settled(f, p) ==
  ProdAt(p) \/ KindAt(p) = "ZZ" \/ (f.rule \in {"gbnf", "prod"} /\ f.phase = "open")
Levelled(f, p, n) == Settled(f, p) \/ n = 4 * OpenBefore(p) + Offset(f)

\* No production was read from a source that is empty, and none has been lost.
Counted(f, h) ==
  f.rule = "gbnf" /\ f.phase = "close" => (h[f.node].kids = << >> <=> input = << >>)

\* No fault behind p but a decoder's, the first of which is kept in e.
Clean(p) == \A i \in 1 .. p - 1 : ~Misplaced(i)
FirstBad(b) == Undecodable(b) /\ \A i \in 1 .. b - 1 : ~Undecodable(i)
Recorded(p, e) ==
  IF e = 0 THEN \A i \in 1 .. p - 1 : ~Undecodable(i)
  ELSE DeferDecode /\ e \in 1 .. p - 1 /\ FirstBad(e)

\* The current rule f at p, with n frames on the stack.
Placement(f, p, n, h) ==
  Expects(f, p) /\ Inside(f, p) /\ Levelled(f, p, n) /\ Counted(f, h)
\* The grammar and its productions fill one list.
Shared(s) == Len(s) >= 2 => s[2].node = s[1].node

Placed ==
  /\ Shared(stack)
  /\ Placement(Top, pos, Len(stack), heap)
  /\ Clean(pos) /\ Recorded(pos, decodeErr)

BInv == FInv /\ VerdictExact /\ (Running => Placed)

-----------------------------------------------------------------------------
(* How the first faults decide.                                            *)

LEMMA VerdictIs ==
  ASSUME input \in Seq(Tokens)
  PROVE  /\ \A b \in Positions :
              FirstBad(b) /\ (\A i \in 1 .. b : ~Misplaced(i)) =>
                Verdict = [kind |-> "decode", at |-> b]
         /\ \A p \in Positions :
              Misplaced(p) /\ Clean(p) /\ (\A i \in 1 .. p - 1 : ~Undecodable(i)) =>
                Verdict = [kind |-> "unexpected", at |-> p]
         /\ (\A i \in Positions : ~Misplaced(i) /\ ~Undecodable(i)) =>
              Verdict = IF input = << >> THEN [kind |-> "empty", at |-> 1]
                        ELSE [kind |-> "ok", at |-> Len(input) + 1]
<1> DEFINE n == Len(input)
           fault == First(Misplaced)
           bad == First(Undecodable)
<1>1. n \in Nat
  BY LenProperties
<1>2. /\ fault \in 1 .. n + 1 /\ (fault = n + 1 \/ (fault \in Positions /\ Misplaced(fault)))
      /\ \A i \in Positions : Misplaced(i) => fault <= i
  <2> DEFINE S == {i \in Positions : Misplaced(i)}
  <2>1. S \in SUBSET (1 .. n) /\ fault = Min({n + 1} \cup S)
    BY DEF First, Positions
  <2>2. \A i \in S : i \in Positions /\ Misplaced(i)
    OBVIOUS
  <2>3. fault \in 1 .. n + 1 /\ (fault = n + 1 \/ fault \in S) /\ \A i \in S : fault <= i
    <3> HIDE DEF S, fault
    <3> QED BY <1>1, <2>1, FirstOf
  <2> QED BY <2>2, <2>3
<1>3. /\ bad \in 1 .. n + 1 /\ (bad = n + 1 \/ (bad \in Positions /\ Undecodable(bad)))
      /\ \A i \in Positions : Undecodable(i) => bad <= i
  <2> DEFINE S == {i \in Positions : Undecodable(i)}
  <2>1. S \in SUBSET (1 .. n) /\ bad = Min({n + 1} \cup S)
    BY DEF First, Positions
  <2>2. \A i \in S : i \in Positions /\ Undecodable(i)
    OBVIOUS
  <2>3. bad \in 1 .. n + 1 /\ (bad = n + 1 \/ bad \in S) /\ \A i \in S : bad <= i
    <3> HIDE DEF S, bad
    <3> QED BY <1>1, <2>1, FirstOf
  <2> QED BY <2>2, <2>3
<1>5. Positions = 1 .. n
  BY DEF Positions
<1>9. /\ bad < fault => input # << >>
      /\ fault \in Positions => input # << >>
  <2> HIDE DEF fault, bad
  <2>1. input = << >> => n = 0
    OBVIOUS
  <2> HIDE DEF n
  <2> QED BY <1>1, <1>2, <1>3, <1>5, <2>1
<1>10. Verdict = CASE bad < fault -> [kind |-> "decode", at |-> bad]
                   [] bad >= fault /\ fault \in Positions -> [kind |-> "unexpected", at |-> fault]
                   [] input = << >> -> [kind |-> "empty", at |-> 1]
                   [] OTHER -> [kind |-> "ok", at |-> Len(input) + 1]
  BY DEF Verdict
<1> HIDE DEF fault, bad
<1>11. bad \in Int /\ fault \in Int
  BY <1>2, <1>3
<1>4. /\ bad < fault => Verdict = [kind |-> "decode", at |-> bad]
      /\ ~(bad < fault) /\ bad >= fault /\ fault \in Positions =>
           Verdict = [kind |-> "unexpected", at |-> fault]
      /\ ~(bad < fault) /\ fault \notin Positions =>
           Verdict = IF input = << >> THEN [kind |-> "empty", at |-> 1]
                     ELSE [kind |-> "ok", at |-> Len(input) + 1]
  <2>1. CASE bad < fault
    BY <1>9, <1>10, <1>11, <2>1
  <2>2. CASE bad >= fault /\ fault \in Positions
    BY <1>9, <1>10, <1>11, <2>2
  <2>3. CASE bad >= fault /\ fault \notin Positions
    BY <1>10, <1>11, <2>3
  <2> QED BY <1>11, <2>1, <2>2, <2>3
<1> HIDE DEF fault, bad
<1>6. ASSUME NEW b \in Positions, FirstBad(b), \A i \in 1 .. b : ~Misplaced(i)
      PROVE  Verdict = [kind |-> "decode", at |-> b]
  <2>1. bad = b
    BY <1>1, <1>3, <1>5, <1>6 DEF FirstBad
  <2>2. b < fault
    BY <1>1, <1>2, <1>5, <1>6
  <2>3. bad < fault
    BY <2>1, <2>2
  <2> QED BY <1>2, <1>3, <1>4, <2>1, <2>3
<1>7. ASSUME NEW p \in Positions, Misplaced(p), Clean(p), \A i \in 1 .. p - 1 : ~Undecodable(i)
      PROVE  Verdict = [kind |-> "unexpected", at |-> p]
  <2>1. fault = p
    BY <1>1, <1>2, <1>5, <1>7 DEF Clean
  <2>2. bad >= p /\ ~(bad < p)
    BY <1>1, <1>3, <1>5, <1>7
  <2>3. fault \in Positions /\ bad >= fault /\ ~(bad < fault)
    BY <2>1, <2>2
  <2> QED BY <1>2, <1>3, <1>4, <2>1, <2>3
<1>8. ASSUME \A i \in Positions : ~Misplaced(i) /\ ~Undecodable(i)
      PROVE  Verdict = IF input = << >> THEN [kind |-> "empty", at |-> 1]
                       ELSE [kind |-> "ok", at |-> Len(input) + 1]
  <2>1. fault = n + 1 /\ bad = n + 1 /\ fault \notin Positions /\ ~(bad < fault)
    BY <1>1, <1>2, <1>3, <1>5, <1>8
  <2> QED BY <1>4, <2>1
<1> QED BY <1>6, <1>7, <1>8

-----------------------------------------------------------------------------
(* Open groups, one token further on.                                      *)

LEMMA CountNext ==
  ASSUME NEW kind, NEW from \in Nat, NEW to \in Nat, from <= to
  PROVE  /\ Count(kind, from, to - 1) \in Nat
         /\ Count(kind, from, to) =
              Count(kind, from, to - 1) + (IF KindAt(to) = kind THEN 1 ELSE 0)
<1> DEFINE S == {j \in from .. to - 1 : KindAt(j) = kind}
           T == {j \in from .. to : KindAt(j) = kind}
<1>1. IsFiniteSet(S)
  <2>1. IsFiniteSet(from .. to - 1)
    BY FS_Interval
  <2> QED BY <2>1, FS_Subset
<1>2. Cardinality(S) \in Nat
  BY <1>1, FS_CardinalityType
<1>3. CASE KindAt(to) = kind
  <2>1. T = S \cup {to} /\ to \notin S
    BY <1>3
  <2>2. Cardinality(S \cup {to}) = Cardinality(S) + 1
    <3> HIDE DEF S
    <3> QED BY <1>1, <2>1, FS_AddElement
  <2> QED BY <1>2, <1>3, <2>1, <2>2 DEF Count
<1>4. CASE KindAt(to) # kind
  <2>1. T = S
    BY <1>4
  <2>2. Cardinality(T) = Cardinality(S) + 0
    <3> HIDE DEF S, T
    <3> QED BY <1>2, <2>1
  <2> QED BY <1>2, <1>4, <2>2 DEF Count
<1> QED BY <1>3, <1>4

LEMMA Starts ==
  ASSUME NEW i \in Nat
  PROVE  /\ ProdStart(i) \in 0 .. i
         /\ i > 0 /\ ProdAt(i) => ProdStart(i) = i
         /\ ~ProdAt(i + 1) => ProdStart(i + 1) = ProdStart(i)
<1> DEFINE S == {0} \cup {j \in 1 .. i : ProdAt(j)}
<1>1. S \in SUBSET (0 .. i) /\ S # {}
  OBVIOUS
<1>2. Max(S) \in S /\ \A m \in S : m <= Max(S)
  <2> HIDE DEF S
  <2> QED BY <1>1, GreatestExists
<1>3. i > 0 /\ ProdAt(i) => i \in S
  OBVIOUS
<1>4. Max(S) \in 0 .. i /\ (i \in S => Max(S) = i)
  <2> HIDE DEF S
  <2>1. Max(S) \in 0 .. i
    BY <1>1, <1>2
  <2> QED BY <1>2, <2>1
<1>5. ASSUME ~ProdAt(i + 1) PROVE {0} \cup {j \in 1 .. i + 1 : ProdAt(j)} = S
  BY <1>5
<1> QED BY <1>3, <1>4, <1>5 DEF ProdStart

LEMMA OpenNext ==
  ASSUME NEW i \in Nat, ~ProdAt(i + 1)
  PROVE  OpenBefore(i + 1) =
           OpenBefore(i) + (IF KindAt(i) = "LP" THEN 1 ELSE 0) - (IF KindAt(i) = "RP" THEN 1 ELSE 0)
<1> DEFINE s == ProdStart(i)
<1>1. s \in Nat /\ s <= i /\ ProdStart(i + 1) = s
  BY Starts
<1>2. (i + 1) - 1 = i
  OBVIOUS
<1> HIDE DEF s
<1>3. /\ Count("LP", s, i) = Count("LP", s, i - 1) + (IF KindAt(i) = "LP" THEN 1 ELSE 0)
      /\ Count("RP", s, i) = Count("RP", s, i - 1) + (IF KindAt(i) = "RP" THEN 1 ELSE 0)
      /\ Count("LP", s, i - 1) \in Nat /\ Count("RP", s, i - 1) \in Nat
  BY <1>1, CountNext
<1>4. OpenBefore(i) = Count("LP", s, i - 1) - Count("RP", s, i - 1)
      /\ OpenBefore(i + 1) = Count("LP", s, i) - Count("RP", s, i)
  BY <1>1, <1>2 DEF OpenBefore, s
<1> QED BY <1>3, <1>4

LEMMA OpenType == ASSUME NEW i \in Nat PROVE OpenBefore(i) \in Int
<1> DEFINE s == ProdStart(i)
<1>1. s \in Nat /\ s <= i
  BY Starts
<1> HIDE DEF s
<1>2. Count("LP", s, i - 1) \in Nat /\ Count("RP", s, i - 1) \in Nat
  BY <1>1, CountNext
<1> QED BY <1>2 DEF OpenBefore, s

LEMMA OpenFirst == ASSUME NEW i \in Nat \ {0}, ProdAt(i) PROVE OpenBefore(i) = 0
<1>1. ProdStart(i) = i
  BY Starts
<1>2. \A kind : Count(kind, i, i - 1) = 0
  <2> TAKE kind
  <2>1. {j \in i .. i - 1 : KindAt(j) = kind} = {}
    OBVIOUS
  <2> QED BY <2>1, FS_EmptySet DEF Count
<1> QED BY <1>1, <1>2 DEF OpenBefore

LEMMA OpenOn ==
  ASSUME NEW i \in Nat
  PROVE  ~ProdAt(i + 1) =>
           /\ KindAt(i) = "LP" => OpenBefore(i + 1) = OpenBefore(i) + 1
           /\ KindAt(i) = "RP" => OpenBefore(i + 1) = OpenBefore(i) - 1
           /\ KindAt(i) \notin {"LP", "RP"} => OpenBefore(i + 1) = OpenBefore(i)
<1> SUFFICES ASSUME ~ProdAt(i + 1)
             PROVE  /\ KindAt(i) = "LP" => OpenBefore(i + 1) = OpenBefore(i) + 1
                    /\ KindAt(i) = "RP" => OpenBefore(i + 1) = OpenBefore(i) - 1
                    /\ KindAt(i) \notin {"LP", "RP"} => OpenBefore(i + 1) = OpenBefore(i)
  OBVIOUS
<1>1. OpenBefore(i + 1) =
        OpenBefore(i) + (IF KindAt(i) = "LP" THEN 1 ELSE 0) - (IF KindAt(i) = "RP" THEN 1 ELSE 0)
  BY OpenNext
<1>2. OpenBefore(i) \in Int
  BY OpenType
<1> QED BY <1>1, <1>2

-----------------------------------------------------------------------------
(* A step leaves the tokens as they are.                                   *)

LEMMA SameTokens ==
  ASSUME input' = input
  PROVE  /\ \A i : KindAt(i)' = KindAt(i) /\ ProdAt(i)' = ProdAt(i)
         /\ \A i : OpenBefore(i)' = OpenBefore(i)
         /\ \A i : Misplaced(i)' = Misplaced(i) /\ Undecodable(i)' = Undecodable(i)
         /\ Verdict' = Verdict
<1>1. \A i : KindAt(i)' = KindAt(i)
  BY DEF KindAt
<1>2. \A i : ProdAt(i)' = ProdAt(i)
  BY <1>1 DEF ProdAt
<1>3. \A i : ProdStart(i)' = ProdStart(i)
  BY <1>2 DEF ProdStart
<1>4. \A kind, from, to : Count(kind, from, to)' = Count(kind, from, to)
  BY <1>1 DEF Count
<1>5. \A i : OpenBefore(i)' = OpenBefore(i)
  BY <1>3, <1>4 DEF OpenBefore
<1>6. \A i : Misplaced(i)' = Misplaced(i)
  BY <1>1, <1>2, <1>5 DEF Misplaced
<1>7. \A i : Undecodable(i)' = Undecodable(i)
  BY <1>1 DEF Undecodable, BadRun
<1>8. Positions' = Positions
  BY DEF Positions
<1>9. First(Misplaced)' = First(Misplaced) /\ First(Undecodable)' = First(Undecodable)
  BY <1>6, <1>7, <1>8 DEF First
<1>10. Verdict' = Verdict
  BY <1>8, <1>9 DEF Verdict
<1> QED BY <1>1, <1>2, <1>5, <1>6, <1>7, <1>10

LEMMA PlacedNext ==
  ASSUME input' = input, Shared(stack'), Placement(Top', pos', Len(stack'), heap'),
         Clean(pos'), Recorded(pos', decodeErr')
  PROVE  Placed'
<1>1. Expects(Top, pos)'
  BY SameTokens DEF Placement, Expects, Bare, Left, Closing, Boundary
<1>2. Inside(Top, pos)'
  BY SameTokens DEF Placement, Inside
<1>3. Levelled(Top, pos, Len(stack))'
  BY SameTokens DEF Placement, Levelled, Settled, Offset
<1>4. Counted(Top, heap)'
  BY SameTokens DEF Placement, Counted
<1>5. Clean(pos)'
  BY SameTokens DEF Clean
<1>6. Recorded(pos, decodeErr)'
  BY SameTokens DEF Recorded, FirstBad
<1> QED BY <1>1, <1>2, <1>3, <1>4, <1>5, <1>6 DEF Placed, Placement, Shared

-----------------------------------------------------------------------------
(* The tokens around the next one.                                         *)

LEMMA TokensAhead ==
  ASSUME TypeOK
  PROVE  /\ Len(input) \in Nat /\ Positions = 1 .. Len(input)
         /\ pos \in Nat \ {0} /\ pos <= Len(input) + 1
         /\ KindAt(pos) # "ZZ" => pos \in Positions
         /\ KindAt(pos) = "ZZ" => pos = Len(input) + 1
         /\ \A i : KindAt(i) \in Kinds \cup {"ZZ"}
<1>1. Len(input) \in Nat /\ pos \in 1 .. Len(input) + 1 /\ input \in Seq(Tokens)
  BY LenProperties DEF TypeOK
<1>2. \A i \in 1 .. Len(input) : input[i].k \in Kinds
  <2> TAKE i \in 1 .. Len(input)
  <2>1. input[i] \in Tokens
    BY <1>1, ElementOfSeq
  <2> QED BY <2>1 DEF Tokens
<1>3. \A i : KindAt(i) \in Kinds \cup {"ZZ"}
  BY <1>2 DEF KindAt
<1>4. KindAt(pos) # "ZZ" <=> pos \in 1 .. Len(input)
  BY <1>2 DEF KindAt, Kinds
<1> QED BY <1>1, <1>3, <1>4 DEF Positions

\* What a step finds behind it once it has taken the token at p.
LEMMA CleanNext ==
  ASSUME NEW p \in Nat \ {0}, Clean(p), ~Misplaced(p)
  PROVE  Clean(p + 1)
<1>1. \A i \in 1 .. (p + 1) - 1 : i \in 1 .. p - 1 \/ i = p
  OBVIOUS
<1> QED BY <1>1 DEF Clean

LEMMA RecordedNext ==
  ASSUME NEW p \in Nat \ {0}, NEW e, Recorded(p, e)
  PROVE  /\ ~Undecodable(p) => Recorded(p + 1, e)
         /\ Undecodable(p) /\ DeferDecode => Recorded(p + 1, IF e = 0 THEN p ELSE e)
<1>1. \A i \in 1 .. (p + 1) - 1 : i \in 1 .. p - 1 \/ i = p
  OBVIOUS
<1>2. \A i \in 1 .. p - 1 : i \in 1 .. (p + 1) - 1
  OBVIOUS
<1>3. p \in 1 .. (p + 1) - 1 /\ p # 0
  OBVIOUS
<1>4. ASSUME ~Undecodable(p) PROVE Recorded(p + 1, e)
  BY <1>1, <1>2, <1>4 DEF Recorded
<1>5. ASSUME Undecodable(p), DeferDecode PROVE Recorded(p + 1, IF e = 0 THEN p ELSE e)
  BY <1>2, <1>3, <1>5 DEF Recorded, FirstBad
<1> QED BY <1>4, <1>5

-----------------------------------------------------------------------------
(* The ends of a parse.                                                    *)

LEMMA EndsDecoding ==
  ASSUME TypeOK, Placed, ~DeferDecode, KindAt(pos) # "ZZ", Undecodable(pos), ~Misplaced(pos),
         outcome' = [kind |-> "decode", at |-> pos], input' = input
  PROVE  VerdictExact'
<1>1. pos \in Positions /\ pos \in Nat \ {0} /\ input \in Seq(Tokens)
  BY TokensAhead DEF TypeOK
<1>2. FirstBad(pos)
  BY DEF Placed, Recorded, FirstBad
<1>3. \A i \in 1 .. pos : ~Misplaced(i)
  <2>1. \A i \in 1 .. pos : i \in 1 .. pos - 1 \/ i = pos
    BY <1>1
  <2> QED BY <2>1 DEF Placed, Clean
<1>4. Verdict' = [kind |-> "decode", at |-> pos]
  BY <1>1, <1>2, <1>3, VerdictIs, SameTokens
<1> QED BY <1>4 DEF VerdictExact

\* A recorded error wins.
LEMMA EndsRecorded ==
  ASSUME TypeOK, Placed, decodeErr # 0
  PROVE  \A kind : Ended(kind, pos) = Verdict
<1>1. /\ decodeErr \in 1 .. pos - 1 /\ FirstBad(decodeErr)
      /\ Clean(pos) /\ pos \in Nat /\ pos <= Len(input) + 1
      /\ Len(input) \in Nat /\ Positions = 1 .. Len(input) /\ input \in Seq(Tokens)
  BY TokensAhead DEF Placed, Recorded, TypeOK
<1>2. decodeErr \in Positions
  BY <1>1
<1>3. \A i \in 1 .. decodeErr : ~Misplaced(i)
  BY <1>1 DEF Clean
<1> QED BY <1>1, <1>2, <1>3, VerdictIs DEF Ended

LEMMA EndsUnexpected ==
  ASSUME TypeOK, Placed, KindAt(pos) # "ZZ", Misplaced(pos),
         outcome' = Ended("unexpected", pos), input' = input
  PROVE  VerdictExact'
<1>1. pos \in Positions /\ input \in Seq(Tokens)
  BY TokensAhead DEF TypeOK
<1>2. CASE decodeErr # 0
  BY <1>2, EndsRecorded, SameTokens DEF VerdictExact
<1>3. CASE decodeErr = 0
  <2>1. Verdict = [kind |-> "unexpected", at |-> pos]
    BY <1>1, <1>3, VerdictIs DEF Placed, Recorded
  <2> QED BY <1>3, <2>1, SameTokens DEF VerdictExact, Ended
<1> QED BY <1>2, <1>3

LEMMA EndsAtEnd ==
  ASSUME TypeOK, Placed, KindAt(pos) = "ZZ",
         outcome' = Ended(IF input = << >> THEN "empty" ELSE "ok", pos), input' = input
  PROVE  VerdictExact'
<1>1. /\ pos = Len(input) + 1 /\ Len(input) \in Nat /\ Positions = 1 .. Len(input)
      /\ input \in Seq(Tokens)
  BY TokensAhead DEF TypeOK
<1>2. CASE decodeErr # 0
  BY <1>2, EndsRecorded, SameTokens DEF VerdictExact
<1>3. CASE decodeErr = 0
  <2>1. \A i \in Positions : i \in 1 .. pos - 1
    BY <1>1
  <2>2. \A i \in Positions : ~Misplaced(i) /\ ~Undecodable(i)
    BY <1>3, <2>1 DEF Placed, Clean, Recorded
  <2>3. input = << >> => pos = 1
    <3>1. input = << >> => Len(input) = 0
      OBVIOUS
    <3> QED BY <1>1, <3>1
  <2>4. Verdict = IF input = << >> THEN [kind |-> "empty", at |-> pos]
                  ELSE [kind |-> "ok", at |-> pos]
    BY <1>1, <2>2, <2>3, VerdictIs
  <2> QED BY <1>3, <2>4, SameTokens DEF VerdictExact, Ended
<1> QED BY <1>2, <1>3

-----------------------------------------------------------------------------
(* The three ways a step leaves the stack: which frame is the current one. *)

LEMMA Offsets ==
  /\ \A f : f.rule = "gbnf" => Offset(f) = 1
  /\ \A f : f.rule = "prod" => Offset(f) = 2
  /\ \A f : f.rule = "alts" => Offset(f) = 3
  /\ \A f : f.rule = "seq" => Offset(f) = 4
  /\ \A f : f.rule = "elem" => Offset(f) = 5
  /\ \A f : f.rule = "atom" => Offset(f) = IF f.grouped THEN 2 ELSE 6
  /\ "prod" \in Rules /\ "alts" \in Rules /\ "seq" \in Rules /\ "elem" \in Rules /\ "atom" \in Rules
BY DEF Offset, Rules

\* What the invariants say of the current frame.
LEMMA Current ==
  ASSUME FInv, Placed
  PROVE  /\ TypeOK /\ Len(stack) \in Nat \ {0} /\ Top \in Frames /\ Top = stack[Len(stack)]
         /\ stack \in Seq(Frames) /\ stack # << >>
         /\ Top.rule = RuleAt(Len(stack)) /\ Top.rule \in Rules
         /\ Top.rule = "gbnf" <=> Len(stack) = 1
         /\ Top.rule = "prod" <=> Len(stack) = 2
         /\ Top.grouped => Top.rule = "atom" /\ Top.phase = "close"
         /\ Top.grouped \in BOOLEAN /\ Top.node \in Nat /\ Top.child \in Nat
         /\ Fresh \in Nat /\ Fresh # Undef
         /\ pos \in Nat \ {0} /\ OpenBefore(pos) \in Int
<1>1. TypeOK /\ Shaped(stack) /\ stack \in Seq(Frames) /\ heap \in Seq(Cells)
  BY DEF FInv, IInv, TypeOK, StackShape
<1>2. Len(stack) \in Nat \ {0} /\ Top \in Frames /\ Top.rule = RuleAt(Len(stack))
  BY <1>1, TopFrame
<1>3. (Top.rule = "gbnf" <=> Len(stack) = 1) /\ (Top.rule = "prod" <=> Len(stack) = 2)
  <2>1. \A m \in Nat \ {0} : (RuleAt(m) = "gbnf" <=> m = 1) /\ (RuleAt(m) = "prod" <=> m = 2)
    BY NextRule
  <2> QED BY <1>2, <2>1
<1>4. Top.grouped => Top.rule = "atom" /\ Top.phase = "close"
  BY TopFacts
<1>5. Fresh \in Nat /\ Fresh # Undef
  BY <1>1, LenProperties DEF Fresh, Undef
<1>6. pos \in Nat \ {0} /\ OpenBefore(pos) \in Int
  BY <1>1, TokensAhead, OpenType
<1>7. stack # << >>
  BY <1>2, EmptySeq
<1> QED BY <1>1, <1>2, <1>3, <1>4, <1>5, <1>6, <1>7 DEF Top, Frames

LEMMA Stayed ==
  ASSUME FInv, Placed, NEW f \in Frames, stack' = Stay(f), Len(stack) = 2 => f.node = Top.node
  PROVE  /\ Len(stack') = Len(stack) /\ Shared(stack')
         /\ Top'.rule = f.rule /\ Top'.phase = "close" /\ Top'.node = f.node
         /\ Top'.child = f.child /\ Top'.grouped = f.grouped
<1> DEFINE n == Len(stack)
<1>1. n \in Nat \ {0} /\ stack \in Seq(Frames) /\ stack # << >> /\ Top = stack[n]
  BY Current
<1>0. (n >= 2 => stack[2].node = stack[1].node) /\ (n = 2 => f.node = stack[2].node)
  BY <1>1 DEF Placed, Shared
<1>2. /\ Len(stack') = n /\ stack'[n] = [f EXCEPT !.phase = "close"]
      /\ SameBelow(stack, stack', n - 1)
  BY <1>1, StayFrames
<1>3. Top' = stack'[n]
  BY <1>2 DEF Top
<1>4. \A i \in 1 .. n - 1 : stack'[i].node = stack[i].node
  BY <1>2 DEF SameBelow, SameFrame
<1>5. stack'[n].node = f.node /\ stack'[n].rule = f.rule /\ stack'[n].phase = "close"
      /\ stack'[n].child = f.child /\ stack'[n].grouped = f.grouped
  BY <1>2 DEF Frames
<1> HIDE DEF n
<1>6. Shared(stack')
  <2>1. n = 1 => ~(Len(stack') >= 2)
    BY <1>2
  <2>2. n = 2 => stack'[2].node = f.node /\ stack'[1].node = stack[1].node
    BY <1>4, <1>5
  <2>3. n > 2 => stack'[2].node = stack[2].node /\ stack'[1].node = stack[1].node
    BY <1>1, <1>4
  <2> QED BY <1>0, <1>1, <2>1, <2>2, <2>3 DEF Shared
<1> QED BY <1>2, <1>3, <1>5, <1>6 DEF n

LEMMA Entered ==
  ASSUME FInv, Placed, NEW f \in Frames, NEW rule \in Rules, stack' = PushRule(f, rule),
         Len(stack) = 2 => f.node = Top.node
  PROVE  /\ Len(stack') = Len(stack) + 1 /\ Shared(stack')
         /\ Top'.rule = rule /\ Top'.phase = "open" /\ Top'.grouped = FALSE
<1> DEFINE n == Len(stack)
<1>1. n \in Nat \ {0} /\ stack \in Seq(Frames) /\ stack # << >> /\ Top = stack[n]
  BY Current
<1>0. (n >= 2 => stack[2].node = stack[1].node) /\ (n = 2 => f.node = stack[2].node)
  BY <1>1 DEF Placed, Shared
<1>2. /\ Len(stack') = n + 1 /\ stack'[n] = [f EXCEPT !.phase = "close"]
      /\ stack'[n + 1] = NewFrame(rule, f.node)
      /\ SameBelow(stack, stack', n - 1)
  BY <1>1, PushFrames
<1>3. Top' = stack'[n + 1]
  BY <1>2 DEF Top
<1>4. \A i \in 1 .. n - 1 : stack'[i].node = stack[i].node
  BY <1>2 DEF SameBelow, SameFrame
<1>5. stack'[n].node = f.node /\ stack'[n + 1].node = f.node
  BY <1>2 DEF Frames, NewFrame
<1>6. Top'.rule = rule /\ Top'.phase = "open" /\ Top'.grouped = FALSE
  BY <1>2, <1>3 DEF NewFrame
<1> HIDE DEF n
<1>7. Shared(stack')
  <2>1. n = 1 => stack'[2].node = f.node /\ stack'[1].node = f.node
    BY <1>5
  <2>2. n = 2 => stack'[2].node = f.node /\ stack'[1].node = stack[1].node
    BY <1>4, <1>5
  <2>3. n > 2 => stack'[2].node = stack[2].node /\ stack'[1].node = stack[1].node
    BY <1>1, <1>4
  <2> QED BY <1>0, <1>1, <2>1, <2>2, <2>3 DEF Shared
<1> QED BY <1>2, <1>6, <1>7 DEF n

LEMMA LeftRule ==
  ASSUME FInv, Placed, Top.rule # "gbnf", NEW node \in Nat, stack' = PopRule(node)
  PROVE  /\ Len(stack') = Len(stack) - 1 /\ Len(stack') \in Nat \ {0} /\ Shared(stack')
         /\ Top'.phase = "close" /\ Top'.child = node /\ Top'.node = stack[Len(stack) - 1].node
         /\ Top.rule = "prod" => Top'.rule = "gbnf" /\ Top'.node = Top.node
         /\ Top.rule = "alts" => Top'.rule = "prod" \/ (Top'.rule = "atom" /\ Top'.grouped)
         /\ Top.rule = "seq" => Top'.rule = "alts"
         /\ Top.rule = "elem" => Top'.rule = "seq"
         /\ Top.rule = "atom" => Top'.rule = "elem"
         /\ Top'.grouped \in BOOLEAN
<1> DEFINE n == Len(stack) - 1
<1>1. /\ Len(stack) \in Nat \ {0} /\ stack \in Seq(Frames) /\ Top = stack[Len(stack)]
      /\ Len(stack) # 1 /\ (Top.rule = "prod" <=> Len(stack) = 2) /\ Top.rule = RuleAt(Len(stack))
  BY Current
<1>2. /\ n \in Nat \ {0} /\ Len(stack') = n /\ stack'[n].child = node
      /\ SameBelow(stack, stack', n)
  BY <1>1, PopFrames
<1>3. Top' = stack'[n] /\ Len(stack) = n + 1
  BY <1>1, <1>2 DEF Top
<1>4. ShapedAt(stack, n) /\ n < Len(stack) /\ stack[n] \in Frames
  BY <1>1, <1>2, ElementOfSeq DEF FInv, IInv, StackShape, Shaped
<1> HIDE DEF n
<1>5. \A i \in 1 .. n : stack'[i].node = stack[i].node
  BY <1>2 DEF SameBelow, SameFrame
<1>6. /\ Top'.rule = RuleAt(n) /\ Top'.phase = "close" /\ Top'.child = node
      /\ Top'.node = stack[n].node /\ (Top'.rule = "atom" => Top'.grouped)
      /\ Top'.grouped \in BOOLEAN
  <2>1. SameFrame(stack[n], stack'[n])
    BY <1>2 DEF SameBelow
  <2> QED BY <1>2, <1>3, <1>4, <2>1 DEF ShapedAt, SameFrame, Frames
<1>7. /\ Top.rule = "prod" => RuleAt(n) = "gbnf"
      /\ Top.rule = "alts" => RuleAt(n) \in {"prod", "atom"}
      /\ Top.rule = "seq" => RuleAt(n) = "alts"
      /\ Top.rule = "elem" => RuleAt(n) = "seq"
      /\ Top.rule = "atom" => RuleAt(n) = "elem"
  BY <1>1, <1>2, <1>3, PrevRule
<1>8. Shared(stack')
  BY <1>2, <1>3, <1>5 DEF Placed, Shared
<1>9. Top.rule = "prod" => stack[n].node = Top.node
  <2> SUFFICES ASSUME Top.rule = "prod" PROVE stack[n].node = Top.node
    OBVIOUS
  <2>1. Len(stack) = 2 /\ n = 1
    BY <1>1, <1>2, <1>3
  <2> QED BY <1>1, <2>1 DEF Placed, Shared
<1> QED BY <1>2, <1>3, <1>6, <1>7, <1>8, <1>9 DEF n

-----------------------------------------------------------------------------
(* Each action.                                                            *)

LEMMA OpenGbnfPlaced == FInv /\ Placed /\ OpenGbnf => Placed'
<1> SUFFICES ASSUME FInv, Placed, OpenGbnf PROVE Placed'
  OBVIOUS
<1> DEFINE f == [Top EXCEPT !.node = Fresh]
<1>1. /\ Top.rule = "gbnf" /\ Top.phase = "open" /\ pos = 1 /\ ~ProdAt(pos - 1)
      /\ input' = input /\ pos' = pos /\ decodeErr' = decodeErr
      /\ heap' = Append(heap, List("prods"))
      /\ Clean(pos) /\ Recorded(pos, decodeErr)
      /\ Len(stack) = 1
  BY Current DEF OpenGbnf, At, Placed, Placement, Expects, Inside
<1>2. f \in Frames /\ f.rule = "gbnf" /\ f.node = Fresh
  BY <1>1, Current DEF Frames
<1>5. stack' = IF KindAt(pos) = "ZZ" THEN Stay(f) ELSE PushRule(f, "prod")
  BY DEF OpenGbnf
<1> HIDE DEF f
<1>3. CASE KindAt(pos) = "ZZ"
  <2>1. stack' = Stay(f)
    BY <1>3, <1>5
  <2>2. /\ Shared(stack') /\ Top'.rule = "gbnf" /\ Top'.phase = "close" /\ Top'.node = Fresh
    BY <1>1, <1>2, <2>1, Stayed
  <2>3. heap'[Fresh].kids = << >>
    BY <1>1, FreshCells, TopFacts, AppendProperties DEF CellKinds
  <2>4. input = << >>
    <3>1. pos = Len(input) + 1 /\ Len(input) \in Nat
      BY <1>3, Current, TokensAhead
    <3>2. Len(input) = 0 /\ input \in Seq(Tokens)
      BY <1>1, <3>1 DEF FInv, IInv, TypeOK
    <3> QED BY <3>2, EmptySeq
  <2>5. Placement(Top', pos', Len(stack'), heap')
    BY <1>1, <1>3, <2>2, <2>3, <2>4
       DEF Placement, Expects, Inside, Levelled, Settled, Counted
  <2> QED BY <1>1, <2>2, <2>5, PlacedNext
<1>4. CASE KindAt(pos) # "ZZ"
  <2>1. stack' = PushRule(f, "prod")
    BY <1>4, <1>5
  <2>2. Shared(stack') /\ Top'.rule = "prod" /\ Top'.phase = "open"
    <3> DEFINE rule == "prod"
    <3>1. f \in Frames /\ rule \in Rules /\ stack' = PushRule(f, rule)
          /\ (Len(stack) = 2 => f.node = Top.node)
      BY <1>1, <1>2, <2>1, Offsets
    <3>2. rule = "prod"
      OBVIOUS
    <3> HIDE DEF rule
    <3> QED BY <3>1, <3>2, Entered
  <2>3. Placement(Top', pos', Len(stack'), heap')
    BY <1>1, <1>4, <2>2 DEF Placement, Expects, Inside, Levelled, Settled, Counted
  <2> QED BY <1>1, <2>2, <2>3, PlacedNext
<1> QED BY <1>3, <1>4

\* Two tokens, each in place.
LEMMA OpenProdPlaced == FInv /\ Placed /\ OpenProd => Placed'
<1> SUFFICES ASSUME FInv, Placed, OpenProd PROVE Placed'
  OBVIOUS
<1> DEFINE f == [Top EXCEPT !.tok = pos]
<1>1. /\ Top.rule = "prod" /\ Top.phase = "open" /\ ProdAt(pos) /\ Len(stack) = 2
      /\ input' = input /\ pos' = pos + 2 /\ decodeErr' = decodeErr /\ heap' = heap
      /\ stack' = PushRule(f, "alts")
      /\ Clean(pos) /\ Recorded(pos, decodeErr) /\ pos \in Nat \ {0}
  BY Current DEF OpenProd, At, Placed
<1>2. f \in Frames /\ f.node = Top.node
  BY <1>1, Current DEF Frames
<1> HIDE DEF f
<1>3. /\ Len(stack') = 3 /\ Shared(stack') /\ Top'.rule = "alts" /\ Top'.phase = "open"
      /\ Top'.grouped = FALSE
  <2> DEFINE rule == "alts"
  <2>1. f \in Frames /\ rule \in Rules /\ stack' = PushRule(f, rule)
        /\ Len(stack) = 2 /\ f.node = Top.node
    BY <1>1, <1>2, Offsets
  <2>2. rule = "alts"
    OBVIOUS
  <2> HIDE DEF rule
  <2>3. /\ Len(stack') = Len(stack) + 1 /\ Shared(stack') /\ Top'.rule = rule
        /\ Top'.phase = "open" /\ Top'.grouped = FALSE
    BY <2>1, Entered
  <2> QED BY <2>1, <2>2, <2>3
<1>4. KindAt(pos) = "NM" /\ KindAt(pos + 1) = "DEF" /\ ~ProdAt(pos + 1)
  BY <1>1 DEF ProdAt
<1>5. /\ pos' - 1 = pos + 1 /\ pos' # 1 /\ pos + 1 # 1 /\ (pos + 1) - 1 = pos
      /\ pos + 1 \in Nat \ {0} /\ (pos + 1) + 1 = pos'
  BY <1>1
<1>6. ~Misplaced(pos) /\ ~Misplaced(pos + 1) /\ ~Undecodable(pos) /\ ~Undecodable(pos + 1)
  BY <1>1, <1>4, <1>5 DEF Misplaced, Undecodable
<1>7. Clean(pos') /\ Recorded(pos', decodeErr')
  BY <1>1, <1>5, <1>6, CleanNext, RecordedNext
<1>8. ~ProdAt(pos') => OpenBefore(pos') = 0
  <2>1. OpenBefore(pos) = 0
    BY <1>1, OpenFirst
  <2>2. OpenBefore(pos + 1) = 0
    BY <1>1, <1>4, <2>1, OpenNext
  <2> QED BY <1>4, <1>5, <2>2, OpenNext
<1>9. Bare(pos')
  BY <1>4, <1>5 DEF Bare, Ends
<1>10. Expects(Top', pos') /\ Inside(Top', pos') /\ Counted(Top', heap')
  BY <1>3, <1>4, <1>5, <1>9 DEF Expects, Inside, Counted
<1>11. Levelled(Top', pos', Len(stack'))
  BY <1>3, <1>8, Offsets DEF Levelled, Settled
<1> QED BY <1>1, <1>3, <1>7, <1>10, <1>11, PlacedNext DEF Placement

\* Steps that take no token and enter a rule, or stay in one.
LEMMA OpenListPlaced == FInv /\ Placed /\ (OpenAlts \/ OpenSeq \/ OpenElem) => Placed'
<1> SUFFICES ASSUME FInv, Placed, OpenAlts \/ OpenSeq \/ OpenElem PROVE Placed'
  OBVIOUS
<1> DEFINE f == [Top EXCEPT !.node = Fresh]
           n == Len(stack)
<1>1. /\ Top.rule \in {"alts", "seq", "elem"} /\ Top.phase = "open" /\ Top.grouped = FALSE
      /\ input' = input /\ pos' = pos /\ decodeErr' = decodeErr
      /\ Clean(pos) /\ Recorded(pos, decodeErr)
      /\ n \in Nat /\ n # 2 /\ pos # 1 /\ ~ProdAt(pos - 1) /\ Bare(pos)
      /\ Top.rule = "elem" => ~Boundary(pos)
      /\ ~(ProdAt(pos) \/ KindAt(pos) = "ZZ") => n = 4 * OpenBefore(pos) + Offset(Top)
      /\ OpenBefore(pos) \in Int
  BY Current DEF OpenAlts, OpenSeq, OpenElem, At, Placed, Placement, Expects, Inside, Levelled, Settled
<1>2. f \in Frames /\ f.rule = Top.rule /\ f.grouped = FALSE /\ Top \in Frames
  BY <1>1, Current DEF Frames
<1>3. \/ /\ Top.rule = "alts" /\ stack' = PushRule(f, "seq")
      \/ Top.rule = "seq" /\ AtBoundary /\ stack' = Stay(f)
      \/ Top.rule = "seq" /\ ~AtBoundary /\ stack' = PushRule(f, "elem")
      \/ Top.rule = "elem" /\ stack' = PushRule(Top, "atom")
  BY <1>1 DEF OpenAlts, OpenSeq, OpenElem, At
<1>4. CASE Top.rule = "seq" /\ AtBoundary /\ stack' = Stay(f)
  <2>1. /\ Len(stack') = n /\ Shared(stack') /\ Top'.rule = "seq" /\ Top'.phase = "close"
    BY <1>1, <1>2, <1>4, Stayed
  <2>2. Placement(Top', pos', Len(stack'), heap')
    BY <1>1, <1>4, <2>1 DEF Placement, Expects, Inside, Levelled, Settled, Offset, Counted
  <2> QED BY <1>1, <2>1, <2>2, PlacedNext
<1>5. CASE ~(Top.rule = "seq" /\ AtBoundary)
  <2> DEFINE rule == IF Top.rule = "alts" THEN "seq" ELSE IF Top.rule = "seq" THEN "elem" ELSE "atom"
  <2>1. \E g \in Frames : stack' = PushRule(g, rule)
    BY <1>1, <1>2, <1>3, <1>5
  <2>2. rule \in Rules
    BY DEF Rules
  <2>3. /\ Len(stack') = n + 1 /\ Shared(stack')
        /\ Top'.rule = rule /\ Top'.phase = "open" /\ Top'.grouped = FALSE
    BY <1>1, <2>1, <2>2, Entered
  <2>4. rule # "seq" => ~Boundary(pos)
    BY <1>1, <1>5 DEF AtBoundary, Boundary
  <2>5. Expects(Top', pos') /\ Inside(Top', pos') /\ Counted(Top', heap')
    BY <1>1, <2>3, <2>4 DEF Expects, Inside, Counted
  <2>6. Levelled(Top', pos', Len(stack'))
    <3>1. Offset(Top') = Offset(Top) + 1
      BY <1>1, <2>3, Offsets
    <3>2. Offset(Top) \in Int
      BY <1>1, Offsets
    <3>3. Len(stack') = n + 1 /\ pos' = pos /\ OpenBefore(pos) \in Int
          /\ (~(ProdAt(pos) \/ KindAt(pos) = "ZZ") => n = 4 * OpenBefore(pos) + Offset(Top))
      BY <1>1, <2>3
    <3> HIDE DEF n
    <3> QED BY <3>1, <3>2, <3>3 DEF Levelled, Settled
  <2> QED BY <1>1, <2>3, <2>5, <2>6, PlacedNext DEF Placement
<1> QED BY <1>3, <1>4, <1>5

\* An atom about to be read has no boundary ahead.
LEMMA AtomAhead ==
  ASSUME FInv, Placed, At("atom", "open")
  PROVE  /\ Top.rule = "atom" /\ Top.phase = "open" /\ Top.grouped = FALSE /\ Len(stack) # 2
         /\ Len(stack) = 4 * OpenBefore(pos) + 6 /\ OpenBefore(pos) \in Int
         /\ pos # 1 /\ pos \in Nat \ {0} /\ (pos + 1) - 1 = pos /\ pos + 1 # 1
         /\ KindAt(pos) \notin {"ALT", "RP", "ZZ"} /\ ~ProdAt(pos) /\ ~ProdAt(pos - 1) /\ Bare(pos)
         /\ Clean(pos) /\ Recorded(pos, decodeErr)
<1>1. Top.rule = "atom" /\ Top.phase = "open" /\ Top.grouped = FALSE /\ Len(stack) # 2
  BY Current DEF At
<1>2. ~Boundary(pos) /\ Bare(pos) /\ ~ProdAt(pos - 1) /\ pos # 1
      /\ Clean(pos) /\ Recorded(pos, decodeErr) /\ Levelled(Top, pos, Len(stack))
  BY <1>1 DEF Placed, Placement, Expects, Inside
<1>3. KindAt(pos) \notin {"ALT", "RP", "ZZ"} /\ ~ProdAt(pos)
  BY <1>2 DEF Boundary
<1>4. Len(stack) = 4 * OpenBefore(pos) + 6
  BY <1>1, <1>2, <1>3, Offsets DEF Levelled, Settled
<1>5. pos \in Nat \ {0} /\ OpenBefore(pos) \in Int
  BY Current
<1>6. (pos + 1) - 1 = pos /\ pos + 1 # 1
  BY <1>5
<1> QED BY <1>1, <1>2, <1>3, <1>4, <1>5, <1>6

\* An atom that takes a leaf or nothing.
LEMMA LeafPlaced ==
  ASSUME FInv, Placed, At("atom", "open"), KindAt(pos) \in {"TERM", "NM", "EMPTY", "BADTERM"},
         NEW node \in Nat, node = Undef <=> KindAt(pos) \in Nodeless,
         stack' = Stay([Top EXCEPT !.node = node]), pos' = pos + 1, input' = input,
         Recorded(pos + 1, decodeErr')
  PROVE  Placed'
<1> DEFINE f == [Top EXCEPT !.node = node]
<1>1. f \in Frames /\ f.rule = "atom" /\ f.grouped = FALSE /\ f.node = node /\ Len(stack) # 2
  BY Current, AtomAhead DEF Frames
<1>2. stack' = Stay(f)
  OBVIOUS
<1> HIDE DEF f
<1>3. /\ Len(stack') = Len(stack) /\ Shared(stack') /\ Top'.rule = "atom" /\ Top'.phase = "close"
      /\ Top'.node = node /\ Top'.grouped = FALSE
  BY <1>1, <1>2, Stayed
<1>4. KindAt(pos' - 1) = KindAt(pos) /\ pos' # 1 /\ ~ProdAt(pos' - 1)
  BY AtomAhead
<1>5. ~Misplaced(pos) /\ Clean(pos')
  <2>1. ~Misplaced(pos)
    BY AtomAhead DEF Misplaced
  <2> QED BY <2>1, AtomAhead, CleanNext
<1>6. Left(pos', node) /\ KindAt(pos' - 1) # "RP"
  BY <1>4 DEF Left, Ends
<1>7. Expects(Top', pos') /\ Inside(Top', pos') /\ Counted(Top', heap')
  BY <1>3, <1>4, <1>6 DEF Expects, Inside, Counted
<1>8. Levelled(Top', pos', Len(stack'))
  <2>1. Offset(Top') = 6
    BY <1>3, Offsets
  <2>2. ~ProdAt(pos') => OpenBefore(pos') = OpenBefore(pos)
    <3>1. KindAt(pos) \notin {"LP", "RP"} /\ pos \in Nat
      BY AtomAhead
    <3> QED BY <3>1, OpenOn
  <2>3. ~ProdAt(pos') => Len(stack') = 4 * OpenBefore(pos') + 6
    BY <1>3, <2>2, AtomAhead
  <2> QED BY <2>1, <2>3 DEF Levelled, Settled
<1> QED BY <1>3, <1>5, <1>7, <1>8, PlacedNext DEF Placement

LEMMA AtomTermPlaced == FInv /\ Placed /\ AtomTerm => Placed'
<1> SUFFICES ASSUME FInv, Placed, AtomTerm PROVE Placed'
  OBVIOUS
<1>1. /\ At("atom", "open") /\ KindAt(pos) \in {"TERM", "NM"} /\ input' = input /\ pos' = pos + 1
      /\ stack' = Stay([Top EXCEPT !.node = Fresh]) /\ decodeErr' = decodeErr
  BY DEF AtomTerm
<1>2. ~Undecodable(pos) /\ Fresh \in Nat /\ (Fresh = Undef <=> KindAt(pos) \in Nodeless)
  BY <1>1, Current DEF Undecodable, Nodeless
<1>3. Recorded(pos + 1, decodeErr')
  BY <1>1, <1>2, AtomAhead, RecordedNext
<1> QED BY <1>1, <1>2, <1>3, LeafPlaced

LEMMA AtomEmptyPlaced == FInv /\ Placed /\ AtomEmpty => Placed'
<1> SUFFICES ASSUME FInv, Placed, AtomEmpty PROVE Placed'
  OBVIOUS
<1>1. /\ At("atom", "open") /\ KindAt(pos) = "EMPTY" /\ input' = input /\ pos' = pos + 1
      /\ stack' = Stay([Top EXCEPT !.node = Undef]) /\ decodeErr' = decodeErr
  BY DEF AtomEmpty
<1>2. ~Undecodable(pos) /\ KindAt(pos) \in Nodeless /\ Undef \in Nat
  BY <1>1 DEF Undecodable, Nodeless, Undef
<1>3. Recorded(pos + 1, decodeErr')
  BY <1>1, <1>2, AtomAhead, RecordedNext
<1> QED BY <1>1, <1>2, <1>3, LeafPlaced

LEMMA AtomBadPlaced ==
  FInv /\ Placed /\ AtomBad => IF DeferDecode THEN Placed' /\ outcome' = outcome ELSE VerdictExact'
<1> SUFFICES ASSUME FInv, Placed, AtomBad
             PROVE  IF DeferDecode THEN Placed' /\ outcome' = outcome ELSE VerdictExact'
  OBVIOUS
<1>1. At("atom", "open") /\ KindAt(pos) = "BADTERM" /\ Undecodable(pos) /\ input' = input
  BY DEF AtomBad, Undecodable
<1>2. CASE DeferDecode
  <2>1. /\ decodeErr' = IF decodeErr = 0 THEN pos ELSE decodeErr
        /\ stack' = Stay([Top EXCEPT !.node = Undef]) /\ pos' = pos + 1 /\ outcome' = outcome
    BY <1>2 DEF AtomBad, FirstError
  <2>2. Recorded(pos + 1, decodeErr')
    BY <1>1, <1>2, <2>1, AtomAhead, RecordedNext
  <2>3. KindAt(pos) \in Nodeless /\ Undef \in Nat
    BY <1>1 DEF Nodeless, Undef
  <2> QED BY <1>1, <1>2, <2>1, <2>2, <2>3, LeafPlaced
<1>3. CASE ~DeferDecode
  <2>1. outcome' = [kind |-> "decode", at |-> pos]
    BY <1>3 DEF AtomBad
  <2>2. ~Misplaced(pos)
    BY <1>1, AtomAhead DEF Misplaced
  <2>3. TypeOK
    BY Current
  <2> QED BY <1>1, <1>3, <2>1, <2>2, <2>3, EndsDecoding
<1> QED BY <1>2, <1>3

LEMMA AtomGroupPlaced == FInv /\ Placed /\ AtomGroup => Placed'
<1> SUFFICES ASSUME FInv, Placed, AtomGroup PROVE Placed'
  OBVIOUS
<1> DEFINE f == [Top EXCEPT !.node = Undef, !.tok = pos, !.grouped = TRUE]
           rule == "alts"
<1>1. At("atom", "open") /\ KindAt(pos) = "LP" /\ input' = input /\ pos' = pos + 1
      /\ decodeErr' = decodeErr
  BY DEF AtomGroup
<1>2. f \in Frames /\ rule \in Rules /\ stack' = PushRule(f, rule) /\ Len(stack) # 2
  BY AtomAhead, Current, <1>1, Offsets DEF AtomGroup, Frames, Undef
<1>3. rule = "alts"
  OBVIOUS
<1> HIDE DEF f, rule
<1>4. /\ Len(stack') = Len(stack) + 1 /\ Shared(stack') /\ Top'.rule = "alts"
      /\ Top'.phase = "open" /\ Top'.grouped = FALSE
  BY <1>2, <1>3, Entered
<1>5. KindAt(pos' - 1) = "LP" /\ pos' # 1 /\ ~ProdAt(pos' - 1)
  BY <1>1, AtomAhead
<1>6. ~Misplaced(pos) /\ ~Undecodable(pos)
  BY <1>1, AtomAhead DEF Misplaced, Undecodable
<1>7. Clean(pos') /\ Recorded(pos', decodeErr')
  BY <1>1, <1>6, AtomAhead, CleanNext, RecordedNext
<1>8. Bare(pos')
  BY <1>5 DEF Bare, Ends
<1>9. Expects(Top', pos') /\ Inside(Top', pos') /\ Counted(Top', heap')
  BY <1>4, <1>5, <1>8 DEF Expects, Inside, Counted
<1>10. Levelled(Top', pos', Len(stack'))
  <2>1. Offset(Top') = 3
    BY <1>4, Offsets
  <2>2. ~ProdAt(pos') => OpenBefore(pos') = OpenBefore(pos) + 1
    <3>1. pos \in Nat
      BY <1>1, AtomAhead
    <3> QED BY <1>1, <3>1, OpenOn
  <2>3. Len(stack') = 4 * (OpenBefore(pos) + 1) + 3
    <3>1. Len(stack) = 4 * OpenBefore(pos) + 6 /\ OpenBefore(pos) \in Int
      BY <1>1, AtomAhead
    <3> QED BY <1>4, <3>1
  <2> QED BY <2>1, <2>2, <2>3 DEF Levelled, Settled
<1> QED BY <1>1, <1>4, <1>7, <1>9, <1>10, PlacedNext DEF Placement

\* What a pop that takes no token does to the depth.
LEMMA PoppedLevel ==
  ASSUME FInv, Placed, pos' = pos, Len(stack') = Len(stack) - 1,
         Settled(Top, pos) => Settled(Top', pos), Offset(Top') = Offset(Top) - 1, Offset(Top) \in Int
  PROVE  Levelled(Top', pos', Len(stack'))
<1>1. Len(stack) \in Nat /\ OpenBefore(pos) \in Int
  BY Current
<1>2. Settled(Top, pos) \/ Len(stack) = 4 * OpenBefore(pos) + Offset(Top)
  BY DEF Placed, Placement, Levelled
<1>3. CASE Settled(Top, pos)
  BY <1>3 DEF Levelled
<1>4. CASE Len(stack) = 4 * OpenBefore(pos) + Offset(Top)
  <2>1. Len(stack') = 4 * OpenBefore(pos) + Offset(Top')
    BY <1>1, <1>4
  <2> QED BY <2>1 DEF Levelled
<1> QED BY <1>2, <1>3, <1>4

LEMMA CloseGroupPlaced == FInv /\ Placed /\ CloseGroup => Placed'
<1> SUFFICES ASSUME FInv, Placed, CloseGroup PROVE Placed'
  OBVIOUS
<1>1. /\ Top.rule = "atom" /\ Top.phase = "close" /\ Top.grouped /\ KindAt(pos) = "RP"
      /\ input' = input /\ pos' = pos + 1 /\ decodeErr' = decodeErr /\ stack' = PopRule(Fresh)
  BY DEF CloseGroup, At, GroupAhead
<1>2. /\ Len(stack') = Len(stack) - 1 /\ Shared(stack') /\ Top'.rule = "elem"
      /\ Top'.phase = "close" /\ Top'.child = Fresh
  BY <1>1, Current, LeftRule
<1>3. /\ pos \in Nat \ {0} /\ (pos + 1) - 1 = pos /\ pos + 1 # 1 /\ pos # 1
      /\ Len(stack) \in Nat /\ Len(stack) # 2 /\ OpenBefore(pos) \in Int
      /\ Clean(pos) /\ Recorded(pos, decodeErr) /\ ~ProdAt(pos)
      /\ Fresh # Undef
  <2>1. pos \in Nat \ {0} /\ Len(stack) \in Nat /\ Len(stack) # 2 /\ OpenBefore(pos) \in Int
        /\ Fresh # Undef
    BY <1>1, Current
  <2>2. Clean(pos) /\ Recorded(pos, decodeErr) /\ pos # 1
    BY <1>1 DEF Placed, Placement, Inside
  <2>3. ~ProdAt(pos)
    BY <1>1 DEF ProdAt
  <2>4. (pos + 1) - 1 = pos /\ pos + 1 # 1
    BY <2>1
  <2> QED BY <2>1, <2>2, <2>3, <2>4
<1>4. Len(stack) = 4 * OpenBefore(pos) + 2
  <2>1. Offset(Top) = 2 /\ ~Settled(Top, pos)
    BY <1>1, <1>3, Offsets DEF Settled
  <2> QED BY <2>1 DEF Placed, Placement, Levelled
<1>5. ~Misplaced(pos) /\ ~Undecodable(pos)
  <2>1. OpenBefore(pos) # 0
    BY <1>3, <1>4
  <2> QED BY <1>1, <1>3, <2>1 DEF Misplaced, Undecodable
<1>6. Clean(pos') /\ Recorded(pos', decodeErr')
  BY <1>1, <1>3, <1>5, CleanNext, RecordedNext
<1>7. Left(pos', Top'.child)
  BY <1>1, <1>2, <1>3 DEF Left, Ends, Nodeless
<1>8. Expects(Top', pos') /\ Inside(Top', pos') /\ Counted(Top', heap')
  BY <1>1, <1>2, <1>3, <1>7 DEF Expects, Inside, Counted
<1>9. Levelled(Top', pos', Len(stack'))
  <2>1. Offset(Top') = 5
    BY <1>2, Offsets
  <2>2. ~ProdAt(pos') => OpenBefore(pos') = OpenBefore(pos) - 1
    BY <1>1, <1>3, OpenOn
  <2>3. Len(stack') = 4 * (OpenBefore(pos) - 1) + 5
    BY <1>2, <1>3, <1>4
  <2> QED BY <2>1, <2>2, <2>3 DEF Levelled, Settled
<1> QED BY <1>1, <1>2, <1>6, <1>8, <1>9, PlacedNext DEF Placement

LEMMA CloseAtomPlaced == FInv /\ Placed /\ CloseAtom => Placed'
<1> SUFFICES ASSUME FInv, Placed, CloseAtom PROVE Placed'
  OBVIOUS
<1>1. /\ Top.rule = "atom" /\ Top.phase = "close" /\ ~(Top.grouped /\ KindAt(pos) = "RP")
      /\ input' = input /\ pos' = pos /\ decodeErr' = decodeErr /\ stack' = PopRule(Top.node)
      /\ Clean(pos) /\ Recorded(pos, decodeErr) /\ pos # 1 /\ ~ProdAt(pos - 1)
  BY DEF CloseAtom, At, GroupAhead, Placed, Placement, Inside
<1>2. /\ Len(stack') = Len(stack) - 1 /\ Shared(stack') /\ Top'.rule = "elem"
      /\ Top'.phase = "close" /\ Top'.child = Top.node
  BY <1>1, Current, LeftRule
<1>3. IF Top.grouped THEN ProdAt(pos) \/ KindAt(pos) = "ZZ" ELSE Left(pos, Top.node)
  BY <1>1 DEF Placed, Placement, Expects, Closing
<1>4. Expects(Top', pos') /\ Inside(Top', pos') /\ Counted(Top', heap')
  <2>1. KindAt(pos) = "POST" => Left(pos, Top'.child)
    BY <1>2, <1>3 DEF ProdAt
  <2> QED BY <1>1, <1>2, <2>1 DEF Expects, Inside, Counted
<1>5. Levelled(Top', pos', Len(stack'))
  <2>1. CASE Top.grouped
    BY <1>1, <1>3, <2>1 DEF Levelled, Settled
  <2>2. CASE ~Top.grouped
    <3>1. Offset(Top) = 6 /\ Offset(Top') = 5
      BY <1>1, <1>2, <2>2, Offsets
    <3>2. Settled(Top, pos) => Settled(Top', pos)
      BY <1>1, <1>2 DEF Settled
    <3> QED BY <1>1, <1>2, <3>1, <3>2, PoppedLevel
  <2> QED BY <2>1, <2>2
<1> QED BY <1>1, <1>2, <1>4, <1>5, PlacedNext DEF Placement

\* An element that is complete, with or without operators.
LEMMA ElemPlaced ==
  ASSUME FInv, Placed, At("elem", "close"), stack' = PopRule(Top.node), input' = input,
         \/ pos' = pos /\ KindAt(pos) # "POST" /\ decodeErr' = decodeErr
         \/ pos' = pos + 1 /\ KindAt(pos) = "POST" /\ Recorded(pos + 1, decodeErr')
  PROVE  Placed'
<1>1. /\ Top.rule = "elem" /\ Top.phase = "close" /\ Clean(pos) /\ Recorded(pos, decodeErr)
      /\ pos # 1 /\ ~ProdAt(pos - 1) /\ (KindAt(pos) = "POST" => Left(pos, Top.child))
  BY DEF At, Placed, Placement, Inside, Expects
<1>2. /\ Len(stack') = Len(stack) - 1 /\ Shared(stack') /\ Top'.rule = "seq" /\ Top'.phase = "close"
  BY <1>1, Current, LeftRule
<1>3. pos \in Nat \ {0} /\ Len(stack) \in Nat /\ OpenBefore(pos) \in Int
  BY Current
<1>4. Offset(Top) = 5 /\ Offset(Top') = 4 /\ (Settled(Top, pos) => Settled(Top', pos))
  BY <1>1, <1>2, Offsets DEF Settled
<1>5. CASE pos' = pos /\ KindAt(pos) # "POST" /\ decodeErr' = decodeErr
  <2>1. Expects(Top', pos') /\ Inside(Top', pos') /\ Counted(Top', heap')
    BY <1>1, <1>2, <1>5 DEF Expects, Inside, Counted, Bare
  <2>2. Levelled(Top', pos', Len(stack'))
    BY <1>2, <1>4, <1>5, PoppedLevel
  <2> QED BY <1>1, <1>2, <1>5, <2>1, <2>2, PlacedNext DEF Placement
<1>6. CASE pos' = pos + 1 /\ KindAt(pos) = "POST" /\ Recorded(pos + 1, decodeErr')
  <2>1. /\ pos' - 1 = pos /\ pos' # 1 /\ ~ProdAt(pos)
    BY <1>3, <1>6 DEF ProdAt
  <2>2. ~Misplaced(pos)
    BY <1>1, <1>6 DEF Misplaced, Left, Ends
  <2>3. Clean(pos')
    BY <1>1, <1>3, <1>6, <2>2, CleanNext
  <2>4. Bare(pos')
    BY <1>6, <2>1 DEF Bare, Ends
  <2>5. Expects(Top', pos') /\ Inside(Top', pos') /\ Counted(Top', heap')
    BY <1>2, <2>1, <2>4 DEF Expects, Inside, Counted
  <2>6. Levelled(Top', pos', Len(stack'))
    <3>1. Len(stack) = 4 * OpenBefore(pos) + 5
      <4>1. ~Settled(Top, pos)
        BY <1>1, <1>6, <2>1 DEF Settled
      <4> QED BY <1>4, <4>1 DEF Placed, Placement, Levelled
    <3>2. Len(stack') = 4 * OpenBefore(pos) + 4
      BY <1>2, <1>3, <3>1
    <3>3. ~ProdAt(pos') => OpenBefore(pos') = OpenBefore(pos)
      BY <1>3, <1>6, OpenOn
    <3> QED BY <1>4, <3>2, <3>3 DEF Levelled, Settled
  <2> QED BY <1>6, <1>2, <2>3, <2>5, <2>6, PlacedNext DEF Placement
<1> QED BY <1>5, <1>6

LEMMA ElemPlainPlaced == FInv /\ Placed /\ ElemPlain => Placed'
BY ElemPlaced DEF ElemPlain

LEMMA ElemPostPlaced == FInv /\ Placed /\ ElemPost => Placed'
<1> SUFFICES ASSUME FInv, Placed, ElemPost PROVE Placed'
  OBVIOUS
<1>1. /\ At("elem", "close") /\ KindAt(pos) = "POST" /\ (Top.child = Undef \/ ~BadRun(input[pos].ops))
      /\ stack' = PopRule(Top.node) /\ pos' = pos + 1 /\ input' = input /\ decodeErr' = decodeErr
  BY DEF ElemPost
<1>2. Left(pos, Top.child) /\ Recorded(pos, decodeErr) /\ pos \in Nat \ {0}
  BY <1>1, Current DEF At, Placed, Placement, Expects
<1>3. ~Undecodable(pos)
  BY <1>1, <1>2 DEF Undecodable, Left, Nodeless
<1>4. Recorded(pos + 1, decodeErr')
  BY <1>1, <1>2, <1>3, RecordedNext
<1> QED BY <1>1, <1>4, ElemPlaced

LEMMA ElemPostBadPlaced ==
  FInv /\ Placed /\ ElemPostBad => IF DeferDecode THEN Placed' /\ outcome' = outcome ELSE VerdictExact'
<1> SUFFICES ASSUME FInv, Placed, ElemPostBad
             PROVE  IF DeferDecode THEN Placed' /\ outcome' = outcome ELSE VerdictExact'
  OBVIOUS
<1>1. /\ At("elem", "close") /\ KindAt(pos) = "POST" /\ Top.child # Undef /\ BadRun(input[pos].ops)
      /\ input' = input
  BY DEF ElemPostBad
<1>2. /\ Left(pos, Top.child) /\ Recorded(pos, decodeErr) /\ pos \in Nat \ {0} /\ TypeOK /\ pos # 1
  BY <1>1, Current DEF At, Placed, Placement, Expects, Inside
<1>3. Undecodable(pos)
  BY <1>1, <1>2 DEF Undecodable, Left, Nodeless
<1>4. CASE DeferDecode
  <2>1. /\ decodeErr' = IF decodeErr = 0 THEN pos ELSE decodeErr
        /\ stack' = PopRule(Top.node) /\ pos' = pos + 1 /\ outcome' = outcome
    BY <1>4 DEF ElemPostBad, FirstError
  <2>2. Recorded(pos + 1, decodeErr')
    BY <1>2, <1>3, <1>4, <2>1, RecordedNext
  <2> QED BY <1>1, <1>4, <2>1, <2>2, ElemPlaced
<1>5. CASE ~DeferDecode
  <2>1. outcome' = [kind |-> "decode", at |-> pos]
    BY <1>5 DEF ElemPostBad
  <2>2. ~Misplaced(pos)
    BY <1>1, <1>2 DEF Misplaced, Left, Ends
  <2> QED BY <1>1, <1>2, <1>3, <1>5, <2>1, <2>2, EndsDecoding
<1> QED BY <1>4, <1>5

LEMMA CloseSeqPlaced == FInv /\ Placed /\ CloseSeq => Placed'
<1> SUFFICES ASSUME FInv, Placed, CloseSeq PROVE Placed'
  OBVIOUS
<1>1. /\ Top.rule = "seq" /\ Top.phase = "close" /\ input' = input /\ pos' = pos
      /\ decodeErr' = decodeErr
      /\ stack' = IF AtBoundary THEN PopRule(Top.node) ELSE PushRule(Top, "elem")
      /\ Clean(pos) /\ Recorded(pos, decodeErr) /\ pos # 1 /\ ~ProdAt(pos - 1) /\ Bare(pos)
      /\ Levelled(Top, pos, Len(stack))
  BY DEF CloseSeq, At, Placed, Placement, Inside, Expects
<1>2. /\ Len(stack) \in Nat /\ Len(stack) # 2 /\ OpenBefore(pos) \in Int /\ Top \in Frames
      /\ Top.node \in Nat
  BY <1>1, Current
<1>3. CASE AtBoundary
  <2>1. /\ Len(stack') = Len(stack) - 1 /\ Shared(stack') /\ Top'.rule = "alts" /\ Top'.phase = "close"
    BY <1>1, <1>2, <1>3, LeftRule
  <2>2. Boundary(pos)
    BY <1>3 DEF AtBoundary, Boundary
  <2>3. Expects(Top', pos') /\ Inside(Top', pos') /\ Counted(Top', heap')
    BY <1>1, <2>1, <2>2 DEF Expects, Inside, Counted
  <2>4. Levelled(Top', pos', Len(stack'))
    <3>1. Offset(Top) = 4 /\ Offset(Top') = 3 /\ (Settled(Top, pos) => Settled(Top', pos))
      BY <1>1, <2>1, Offsets DEF Settled
    <3> QED BY <1>1, <2>1, <3>1, PoppedLevel
  <2> QED BY <1>1, <2>1, <2>3, <2>4, PlacedNext DEF Placement
<1>4. CASE ~AtBoundary
  <2> DEFINE rule == "elem"
  <2>1. rule \in Rules /\ stack' = PushRule(Top, rule) /\ rule = "elem"
    BY <1>1, <1>4, Offsets
  <2> HIDE DEF rule
  <2>2. /\ Len(stack') = Len(stack) + 1 /\ Shared(stack') /\ Top'.rule = "elem" /\ Top'.phase = "open"
    BY <1>2, <2>1, Entered
  <2>3. ~Boundary(pos) /\ ~Settled(Top, pos)
    BY <1>1, <1>4 DEF AtBoundary, Boundary, Settled
  <2>4. Expects(Top', pos') /\ Inside(Top', pos') /\ Counted(Top', heap')
    BY <1>1, <2>2, <2>3 DEF Expects, Inside, Counted
  <2>5. Levelled(Top', pos', Len(stack'))
    <3>1. Offset(Top) = 4 /\ Offset(Top') = 5
      BY <1>1, <2>2, Offsets
    <3>2. Len(stack) = 4 * OpenBefore(pos) + 4
      BY <1>1, <2>3, <3>1 DEF Levelled
    <3>3. Len(stack') = 4 * OpenBefore(pos) + 5
      BY <1>2, <2>2, <3>2
    <3> QED BY <1>1, <3>1, <3>3 DEF Levelled
  <2> QED BY <1>1, <2>2, <2>4, <2>5, PlacedNext DEF Placement
<1> QED BY <1>3, <1>4

LEMMA CloseAltsPlaced == FInv /\ Placed /\ CloseAlts => Placed'
<1> SUFFICES ASSUME FInv, Placed, CloseAlts PROVE Placed'
  OBVIOUS
<1>1. /\ Top.rule = "alts" /\ Top.phase = "close" /\ input' = input
      /\ decodeErr' = decodeErr
      /\ IF KindAt(pos) = "ALT" THEN stack' = PushRule(Top, "seq") /\ pos' = pos + 1
         ELSE stack' = PopRule(Top.node) /\ pos' = pos
      /\ Clean(pos) /\ Recorded(pos, decodeErr) /\ pos # 1 /\ ~ProdAt(pos - 1) /\ Boundary(pos)
      /\ Levelled(Top, pos, Len(stack))
  BY DEF CloseAlts, At, Placed, Placement, Inside, Expects
<1>2. /\ Len(stack) \in Nat /\ Len(stack) # 2 /\ OpenBefore(pos) \in Int /\ Top \in Frames
      /\ Top.node \in Nat /\ pos \in Nat \ {0} /\ (pos + 1) - 1 = pos /\ pos + 1 # 1
  <2>1. pos \in Nat \ {0}
    BY Current
  <2>2. (pos + 1) - 1 = pos /\ pos + 1 # 1
    BY <2>1
  <2> QED BY <1>1, <2>1, <2>2, Current
<1>3. CASE KindAt(pos) = "ALT"
  <2> DEFINE rule == "seq"
  <2>1. rule \in Rules /\ stack' = PushRule(Top, rule) /\ rule = "seq" /\ pos' = pos + 1
    BY <1>1, <1>3, Offsets
  <2> HIDE DEF rule
  <2>2. /\ Len(stack') = Len(stack) + 1 /\ Shared(stack') /\ Top'.rule = "seq" /\ Top'.phase = "open"
    BY <1>2, <2>1, Entered
  <2>3. /\ ~Misplaced(pos) /\ ~Undecodable(pos) /\ ~ProdAt(pos) /\ ~Settled(Top, pos)
    BY <1>1, <1>3 DEF Misplaced, Undecodable, ProdAt, Settled
  <2>4. Clean(pos') /\ Recorded(pos', decodeErr')
    BY <1>1, <1>2, <2>1, <2>3, CleanNext, RecordedNext
  <2>5. Bare(pos')
    BY <1>2, <1>3, <2>1 DEF Bare, Ends
  <2>6. Expects(Top', pos') /\ Inside(Top', pos') /\ Counted(Top', heap')
    BY <1>2, <2>1, <2>2, <2>3, <2>5 DEF Expects, Inside, Counted
  <2>7. Levelled(Top', pos', Len(stack'))
    <3>1. Offset(Top) = 3 /\ Offset(Top') = 4
      BY <1>1, <2>2, Offsets
    <3>2. Len(stack) = 4 * OpenBefore(pos) + 3
      BY <1>1, <2>3, <3>1 DEF Levelled
    <3>3. Len(stack') = 4 * OpenBefore(pos) + 4
      BY <1>2, <2>2, <3>2
    <3>4. ~ProdAt(pos') => OpenBefore(pos') = OpenBefore(pos)
      BY <1>2, <1>3, <2>1, OpenOn
    <3> QED BY <3>1, <3>3, <3>4 DEF Levelled, Settled
  <2> QED BY <1>1, <2>2, <2>4, <2>6, <2>7, PlacedNext DEF Placement
<1>4. CASE KindAt(pos) # "ALT"
  <2>1. stack' = PopRule(Top.node) /\ pos' = pos /\ Closing(pos)
    BY <1>1, <1>4 DEF Boundary, Closing
  <2>2. /\ Len(stack') = Len(stack) - 1 /\ Shared(stack') /\ Top'.phase = "close"
        /\ Top'.rule = "prod" \/ (Top'.rule = "atom" /\ Top'.grouped)
    BY <1>1, <1>2, <2>1, LeftRule
  <2>3. Expects(Top', pos') /\ Inside(Top', pos') /\ Counted(Top', heap')
    BY <1>1, <2>1, <2>2 DEF Expects, Inside, Counted
  <2>4. Levelled(Top', pos', Len(stack'))
    <3>1. Offset(Top) = 3 /\ Offset(Top') = 2 /\ (Settled(Top, pos) => Settled(Top', pos))
      BY <1>1, <2>2, Offsets DEF Settled
    <3> QED BY <2>1, <2>2, <3>1, PoppedLevel
  <2> QED BY <1>1, <2>1, <2>2, <2>3, <2>4, PlacedNext DEF Placement
<1> QED BY <1>3, <1>4

\* A production that is appended makes the list one that is not empty.
LEMMA ProductionKept ==
  ASSUME FInv, CloseProd, Top.node \in DOMAIN heap
  PROVE  heap'[Top.node].kids # << >>
<1> DEFINE c == Node("prod", Top.tok, Top.tok, 0, <<Top.child>>)
           h == Append(heap, c)
<1>1. Top.rule = "prod" /\ Top.phase = "close"
  BY DEF CloseProd, At
<1>2. /\ Top.child # Undef /\ Top.child \in Nat /\ Top.tok \in Nat
      /\ heap \in Seq(Cells) /\ Fresh \in Nat
      /\ Len(heap) \in Nat /\ DOMAIN heap = 1 .. Len(heap)
  BY <1>1, ChildFacts, HandedSpares, TopFacts
<1>3. heap' = PushNode(h, Top.node, Fresh)
  BY <1>2 DEF CloseProd
<1>4. c \in Cells
  BY <1>2, MadeNode, FreshCells DEF CellKinds
<1> HIDE DEF c
<1>5. h \in Seq(Cells) /\ Top.node \in 1 .. Len(h)
  BY <1>2, <1>4, AppendProperties
<1> HIDE DEF h
<1>6. h[Top.node] \in Cells
  BY <1>5, ElementOfSeq
<1>7. h[Top.node].kids \in Seq(Nat)
  BY <1>6 DEF Cells
<1>8. Append(h[Top.node].kids, Fresh) # << >>
  BY <1>2, <1>7, AppendProperties, EmptySeq, SMTT(20)
<1>9. heap'[Top.node].kids = Append(h[Top.node].kids, Fresh)
  <2>1. DOMAIN h = 1 .. Len(h)
    BY <1>5, LenProperties
  <2> QED BY <1>3, <1>5, <1>6, <2>1 DEF PushNode, Cells
<1> QED BY <1>8, <1>9

LEMMA CloseProdPlaced == FInv /\ Placed /\ CloseProd => Placed'
<1> SUFFICES ASSUME FInv, Placed, CloseProd PROVE Placed'
  OBVIOUS
<1>1. /\ Top.rule = "prod" /\ Top.phase = "close" /\ input' = input /\ pos' = pos
      /\ decodeErr' = decodeErr
      /\ stack' = IF ProdAt(pos) THEN [stack EXCEPT ![Len(stack)] = NewFrame("prod", Top.node)]
                  ELSE PopRule(Top.node)
      /\ Clean(pos) /\ Recorded(pos, decodeErr) /\ pos # 1 /\ ~ProdAt(pos - 1) /\ Closing(pos)
      /\ Levelled(Top, pos, Len(stack))
  BY DEF CloseProd, At, Placed, Placement, Inside, Expects
<1>2. /\ Len(stack) = 2 /\ stack \in Seq(Frames) /\ Top \in Frames /\ Top.node \in Nat
      /\ Top = stack[Len(stack)]
  BY <1>1, Current
<1>3. CASE ProdAt(pos)
  <2> DEFINE g == NewFrame("prod", Top.node)
  <2>1. g \in Frames /\ g.node = Top.node /\ g.rule = "prod" /\ g.phase = "open"
    BY <1>2 DEF NewFrame, Frames, Rules, Undef
  <2>2. stack' = [stack EXCEPT ![2] = g]
    BY <1>1, <1>2, <1>3
  <2> HIDE DEF g
  <2>3. Len(stack') = 2 /\ stack'[2] = g /\ stack'[1] = stack[1]
    BY <1>2, <2>1, <2>2, ExceptSeq
  <2>4. Top' = g
    BY <2>3 DEF Top
  <2>5. Shared(stack')
    BY <1>2, <2>1, <2>3 DEF Placed, Shared
  <2>6. Placement(Top', pos', Len(stack'), heap')
    BY <1>1, <1>3, <2>1, <2>4 DEF Placement, Expects, Inside, Levelled, Settled, Counted
  <2> QED BY <1>1, <2>5, <2>6, PlacedNext
<1>4. CASE ~ProdAt(pos)
  <2>1. /\ Len(stack') = Len(stack) - 1 /\ Shared(stack') /\ Top'.rule = "gbnf"
        /\ Top'.phase = "close" /\ Top'.node = Top.node
    BY <1>1, <1>2, <1>4, LeftRule
  <2>2. KindAt(pos) \in {"RP", "ZZ"}
    BY <1>1, <1>4 DEF Closing
  <2>3. heap'[Top.node].kids # << >>
    <3>1. Top.node \in DOMAIN heap
      BY <1>1, TopFacts DEF Is
    <3> QED BY <3>1, ProductionKept
  <2>4. input # << >>
    <3>1. pos \in Nat \ {0} /\ pos <= Len(input) + 1 /\ Len(input) \in Nat
      BY Current, TokensAhead
    <3>2. Len(input) # 0
      BY <1>1, <3>1
    <3> QED BY <3>2, EmptySeq
  <2>5. Expects(Top', pos') /\ Inside(Top', pos') /\ Counted(Top', heap')
    BY <1>1, <2>1, <2>2, <2>3, <2>4 DEF Expects, Inside, Counted
  <2>6. Levelled(Top', pos', Len(stack'))
    <3>1. Offset(Top) = 2 /\ Offset(Top') = 1 /\ (Settled(Top, pos) => Settled(Top', pos))
      BY <1>1, <2>1, Offsets DEF Settled
    <3> QED BY <1>1, <2>1, <3>1, PoppedLevel
  <2> QED BY <1>1, <2>1, <2>5, <2>6, PlacedNext DEF Placement
<1> QED BY <1>3, <1>4

LEMMA CloseGbnfEnds == FInv /\ Placed /\ CloseGbnf => VerdictExact'
<1> SUFFICES ASSUME FInv, Placed, CloseGbnf PROVE VerdictExact'
  OBVIOUS
<1>1. /\ Top.rule = "gbnf" /\ Top.phase = "close" /\ KindAt(pos) = "ZZ" /\ input' = input
      /\ outcome' = Ended(IF heap[Top.node].kids = << >> THEN "empty" ELSE "ok", pos)
  BY DEF CloseGbnf, At
<1>2. heap[Top.node].kids = << >> <=> input = << >>
  BY <1>1 DEF Placed, Placement, Counted
<1>3. outcome' = Ended(IF input = << >> THEN "empty" ELSE "ok", pos) /\ TypeOK
  BY <1>1, <1>2, Current
<1> QED BY <1>1, <1>3, EndsAtEnd

LEMMA UnexpectedEnds == FInv /\ Placed /\ Unexpected => VerdictExact'
<1> SUFFICES ASSUME FInv, Placed, Unexpected PROVE VerdictExact'
  OBVIOUS
<1>1. outcome' = Ended("unexpected", pos) /\ input' = input /\ TypeOK /\ NoAlternative
  BY Current DEF Unexpected
<1>2. CASE At("prod", "open") /\ ~ProdAt(pos)
  <2>1. pos = 1 /\ KindAt(pos) # "ZZ"
    BY <1>2 DEF At, Placed, Placement, Expects
  <2>2. Misplaced(pos)
    BY <1>2, <2>1 DEF Misplaced
  <2> QED BY <1>1, <2>1, <2>2, EndsUnexpected
<1>3. CASE At("atom", "open") /\ KindAt(pos) \in {"DEF", "ALT", "RP", "POST", "ZZ"}
  <2>1. KindAt(pos) \in {"DEF", "POST"} /\ ~ProdAt(pos - 1) /\ Bare(pos)
    BY <1>3, AtomAhead
  <2>2. Misplaced(pos)
    BY <2>1 DEF Misplaced, Bare, Ends
  <2>3. KindAt(pos) # "ZZ"
    BY <2>1
  <2> QED BY <1>1, <2>2, <2>3, EndsUnexpected
<1>4. CASE At("gbnf", "close") /\ KindAt(pos) # "ZZ"
  <2>1. Top.rule = "gbnf" /\ Top.phase = "close" /\ KindAt(pos) = "RP" /\ Len(stack) = 1
    BY <1>4, Current DEF At, Placed, Placement, Expects
  <2>2. ~Settled(Top, pos) /\ Offset(Top) = 1
    BY <2>1, Offsets DEF Settled, ProdAt
  <2>3. 1 = 4 * OpenBefore(pos) + 1 /\ OpenBefore(pos) \in Int
    BY <2>1, <2>2, Current DEF Placed, Placement, Levelled
  <2>4. OpenBefore(pos) = 0
    BY <2>3
  <2>5. Misplaced(pos)
    BY <2>1, <2>4 DEF Misplaced
  <2> QED BY <1>1, <1>4, <2>5, EndsUnexpected
<1> QED BY <1>1, <1>2, <1>3, <1>4 DEF NoAlternative

-----------------------------------------------------------------------------
(* The parse ends as its tokens say.                                       *)

LEMMA InitPlaced == Init => Placed
<1> SUFFICES ASSUME Init PROVE Placed
  OBVIOUS
<1> DEFINE f == NewFrame("gbnf", Undef)
<1>1. /\ stack = <<f>> /\ pos = 1 /\ decodeErr = 0
      /\ f.rule = "gbnf" /\ f.phase = "open"
  BY DEF Init, NewFrame
<1>2. Len(stack) = 1 /\ Top = f /\ Shared(stack)
  BY <1>1 DEF Top, Shared
<1>3. ~ProdAt(pos - 1)
  <2>1. KindAt(0) = "ZZ"
    <3>1. input \in Seq(Tokens)
      BY InputsAssumption DEF Init
    <3>2. 0 \notin 1 .. Len(input)
      BY <3>1, LenProperties
    <3> QED BY <3>2 DEF KindAt
  <2>2. pos - 1 = 0
    BY <1>1
  <2> QED BY <2>1, <2>2 DEF ProdAt
<1> HIDE DEF f
<1>4. Placement(Top, pos, Len(stack), heap)
  BY <1>1, <1>2, <1>3 DEF Placement, Expects, Inside, Levelled, Settled, Counted
<1>5. Clean(pos) /\ Recorded(pos, decodeErr)
  <2>1. \A i \in 1 .. pos - 1 : FALSE
    BY <1>1
  <2> QED BY <1>1, <2>1 DEF Clean, Recorded
<1> QED BY <1>2, <1>4, <1>5 DEF Placed

LEMMA InitBInv == Init => BInv
<1>1. Init => Running
  BY DEF Init, Running
<1> QED BY <1>1, InitFInv, InitPlaced DEF BInv, VerdictExact

LEMMA StepBInv == BInv /\ [Next]_vars => BInv'
<1> SUFFICES ASSUME BInv, [Next]_vars PROVE BInv'
  OBVIOUS
<1>1. FInv'
  BY StepFInv DEF BInv
<1> SUFFICES VerdictExact' /\ (Running' => Placed')
  BY <1>1 DEF BInv
<1>2. ASSUME UNCHANGED vars PROVE VerdictExact' /\ (Running' => Placed')
  <2>1. input' = input /\ outcome' = outcome
    BY <1>2 DEF vars
  <2>2. VerdictExact'
    BY <2>1, SameTokens DEF BInv, VerdictExact, Running
  <2>3. ASSUME Running' PROVE Placed'
    <3>1. Placed
      BY <2>1, <2>3 DEF BInv, Running
    <3>2. Top' = Top /\ pos' = pos /\ stack' = stack /\ heap' = heap /\ decodeErr' = decodeErr
      BY <1>2 DEF vars, Top
    <3> QED BY <2>1, <3>1, <3>2, PlacedNext DEF Placed
  <2> QED BY <2>2, <2>3
<1>3. ASSUME Step PROVE VerdictExact' /\ (Running' => Placed')
  <2>1. Running
    BY <1>3 DEF Step, OpenGbnf, OpenProd, OpenAlts, OpenSeq, OpenElem, AtomTerm, AtomEmpty, AtomBad,
      AtomGroup, CloseGroup, CloseAtom, ElemPlain, ElemPost, ElemPostBad, CloseSeq, CloseAlts,
      CloseProd, CloseGbnf, Unexpected, NoAlternative, At
  <2>2. FInv /\ Placed
    BY <2>1 DEF BInv
  <2>3. ASSUME outcome' = outcome PROVE VerdictExact'
    BY <2>1, <2>3 DEF VerdictExact, Running
  <2>4. ASSUME outcome'.kind # "running" PROVE ~Running'
    BY <2>4 DEF Running
  <2>5. \A kind, at : kind # "running" => Ended(kind, at).kind # "running"
    BY DEF Ended
  <2>6. CASE \/ OpenGbnf \/ OpenProd \/ OpenAlts \/ OpenSeq \/ OpenElem
             \/ AtomTerm \/ AtomEmpty \/ AtomGroup \/ CloseGroup \/ CloseAtom
             \/ ElemPlain \/ ElemPost \/ CloseSeq \/ CloseAlts \/ CloseProd
    <3>1. outcome' = outcome
      BY <2>6 DEF OpenGbnf, OpenProd, OpenAlts, OpenSeq, OpenElem, AtomTerm, AtomEmpty,
        AtomGroup, CloseGroup, CloseAtom, ElemPlain, ElemPost, CloseSeq, CloseAlts, CloseProd
    <3>2. Placed'
      BY <2>2, <2>6, OpenGbnfPlaced, OpenProdPlaced, OpenListPlaced, AtomTermPlaced,
         AtomEmptyPlaced, AtomGroupPlaced, CloseGroupPlaced, CloseAtomPlaced, ElemPlainPlaced,
         ElemPostPlaced, CloseSeqPlaced, CloseAltsPlaced, CloseProdPlaced
    <3> QED BY <2>3, <3>1, <3>2
  <2>7. CASE AtomBad \/ ElemPostBad
    <3>1. IF DeferDecode THEN Placed' /\ outcome' = outcome ELSE VerdictExact'
      BY <2>2, <2>7, AtomBadPlaced, ElemPostBadPlaced
    <3>2. ~DeferDecode => outcome'.kind # "running"
      BY <2>7 DEF AtomBad, ElemPostBad
    <3> QED BY <2>3, <2>4, <3>1, <3>2
  <2>8. CASE CloseGbnf
    <3>1. outcome'.kind # "running"
      BY <2>5, <2>8 DEF CloseGbnf
    <3> QED BY <2>2, <2>4, <2>8, <3>1, CloseGbnfEnds
  <2>9. CASE Unexpected
    <3>1. outcome'.kind # "running"
      BY <2>5, <2>9 DEF Unexpected
    <3> QED BY <2>2, <2>4, <2>9, <3>1, UnexpectedEnds
  <2> QED BY <1>3, <2>6, <2>7, <2>8, <2>9 DEF Step
<1> QED BY <1>2, <1>3 DEF Next, Finished

\* Whatever the source, and however long, the parse accepts it exactly when
\* every token is in place and decodes, and otherwise stops at, or reports,
\* the first fault from the left (parseGbnf, converter.ts; ParseGbnf in Go).
THEOREM VerdictRight == Spec => []VerdictExact
<1>1. BInv => VerdictExact
  BY DEF BInv
<1> QED BY InitBInv, StepBInv, <1>1, PTL DEF Spec
=============================================================================
