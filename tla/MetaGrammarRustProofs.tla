------------------------ MODULE MetaGrammarRustProofs ------------------------
(***************************************************************************)
(* Proofs about the Rust port of the meta-grammar, whatever the source:    *)
(*   - the engine's stack of rules stays within a constant of the group    *)
(*     cap. The depth of a frame fixes its rule (StackShape), so it is     *)
(*     enough that no frame below the top one is a group past the cap;     *)
(*   - nothing too deep hangs in the tree, what is built and dropped is at *)
(*     most one too deep, and NEST_KEY is the true depth of what elem is   *)
(*     about to push. The registers are tied to the tree by what the rules *)
(*     on the stack have gathered so far (Registers), which in turn needs  *)
(*     to know which lists are nobody's child yet (FInv).                  *)
(*   - the parse is refused for its depth exactly when the tokens say so.  *)
(*     What a level holds is tied to the tokens its group has taken so far *)
(*     (Told), in the same way, and nothing too deep is behind (Kept).     *)
(* Height and TokenHeight are recursive functions: that the first is well  *)
(* defined is part of the invariant (Solves), carried from one heap to the *)
(* next; the second is built up from the first token (TokenHeightsExist).  *)
(***************************************************************************)
EXTENDS MetaGrammarRustProps, MetaGrammarProofs

-----------------------------------------------------------------------------
(* Every step is a step of the common table, or a refusal.                 *)

Refuses == \E kind \in {"depth", "nest"} : Refuse(kind)

LEMMA StepOrRefusal == [RustNext]_rustVars => [Next]_vars \/ Refuses
<1> SUFFICES ASSUME [RustNext]_rustVars PROVE [Next]_vars \/ Refuses
  OBVIOUS
<1>1. CASE Unguarded
  BY <1>1 DEF Unguarded, Next, Step
<1>2. CASE RustAtom \/ RustAtomGroup \/ RustCloseGroup \/ RustCloseAtom
  BY <1>2 DEF RustAtom, RustAtomGroup, RustCloseGroup, RustCloseAtom, Next, Step
<1>3. CASE RustElemPlain \/ RustElemPost \/ RustElemPostBad \/ RustUnexpected
  BY <1>3 DEF RustElemPlain, RustElemPost, RustElemPostBad, RustUnexpected, Next, Step
<1>4. CASE Refusal
  BY <1>4 DEF Refusal, RefuseGroup, RefuseCloseGroup, RefusePost, Refuses
<1>5. CASE UNCHANGED rustVars
  BY <1>5 DEF rustVars, vars
<1> QED BY <1>1, <1>2, <1>3, <1>4, <1>5 DEF RustNext, RustStep

LEMMA RustStepIInv == IInv /\ [RustNext]_rustVars => IInv'
<1> SUFFICES ASSUME IInv, [RustNext]_rustVars PROVE IInv'
  OBVIOUS
<1>1. CASE [Next]_vars
  BY <1>1, StepIInv
<1>2. CASE Refuses
  <2>1. PICK kind \in {"depth", "nest"} : Refuse(kind)
    BY <1>2 DEF Refuses
  <2>2. Len(input) \in Nat
    BY LenProperties DEF IInv, TypeOK
  <2>3. Ended(kind, pos) \in [kind : Outcomes, at : 0 .. Len(input) + 1]
    BY <2>2 DEF Ended, Outcomes, IInv, TypeOK
  <2> QED BY <2>1, <2>3 DEF Refuse, IInv, TypeOK, StackShape, Shaped, ShapedAt
<1> QED BY <1>1, <1>2, StepOrRefusal

-----------------------------------------------------------------------------
(* How long the stack becomes.                                             *)

LEMMA StayLength ==
  ASSUME stack \in Seq(Frames), Len(stack) > 0, NEW f, NEW e
  PROVE  /\ Len(Stay(f)) = Len(stack)
         /\ Len(Append(Stay(f), e)) = Len(stack) + 1
<1> DEFINE g == [f EXCEPT !.phase = "close"]
           S == Frames \cup {g, e}
<1>1. stack \in Seq(S) /\ Len(stack) \in 1 .. Len(stack)
  BY LenProperties, SeqDef
<1>2. Stay(f) \in Seq(S) /\ Len(Stay(f)) = Len(stack)
  BY <1>1, ExceptSeq DEF Stay
<1> QED BY <1>2, AppendProperties

LEMMA PopLength ==
  ASSUME stack \in Seq(Frames), Len(stack) > 0, NEW node, PopRule(node) \in Seq(Frames)
  PROVE  Len(PopRule(node)) = Len(stack) - 1
<1>1. Len(stack) \in Nat /\ Len(PopRule(node)) \in Nat
  BY LenProperties
<1>2. DOMAIN PopRule(node) = 1 .. Len(stack) - 1
  BY DEF PopRule
<1>3. DOMAIN PopRule(node) = 1 .. Len(PopRule(node))
  BY LenProperties
<1> QED BY <1>1, <1>2, <1>3

LEMMA SameInterval ==
  ASSUME NEW m \in Nat, NEW n \in Nat, 1 .. m = 1 .. n
  PROVE  m = n
<1>1. m > 0 => m \in 1 .. n
  <2>1. m > 0 => m \in 1 .. m
    OBVIOUS
  <2> QED BY <2>1
<1>2. n > 0 => n \in 1 .. m
  <2>1. n > 0 => n \in 1 .. n
    OBVIOUS
  <2> QED BY <2>1
<1> QED BY <1>1, <1>2

\* No group past the cap has anything above it.
GroupsCapped == \A i \in 1 .. Len(stack) - 1 : RuleAt(i) = "atom" => i - 1 <= MaxGroupDepth

\* A step that lengthens the stack adds one frame, and never on top of a
\* group past the cap.
LEMMA Growth ==
  ASSUME IInv, IInv', RustStep
  PROVE  \/ Len(stack') <= Len(stack)
         \/ /\ Len(stack') = Len(stack) + 1
            /\ RuleAt(Len(stack)) = "atom" => Depth <= MaxGroupDepth
<1>a. /\ stack \in Seq(Frames) /\ Len(stack) \in Nat /\ Len(stack) > 0
      /\ Top.rule = RuleAt(Len(stack))
      /\ stack' \in Seq(Frames)
  BY TopFrame DEF IInv, TypeOK, StackShape
<1>stay. \A f : Len(Stay(f)) = Len(stack)
  BY <1>a, StayLength
<1>push. \A f, rule : Len(PushRule(f, rule)) = Len(stack) + 1
  BY <1>a, StayLength DEF PushRule
<1>pop. ASSUME NEW node, stack' = PopRule(node) PROVE Len(stack') = Len(stack) - 1
  BY <1>a, <1>pop, PopLength
<1>1. CASE Unguarded
  <2>1. CASE OpenGbnf
    BY <1>a, <1>stay, <1>push, <2>1 DEF OpenGbnf, At
  <2>2. CASE OpenProd
    BY <1>a, <1>push, <2>2 DEF OpenProd, At
  <2>3. CASE OpenAlts
    BY <1>a, <1>push, <2>3 DEF OpenAlts, At
  <2>4. CASE OpenSeq
    BY <1>a, <1>stay, <1>push, <2>4 DEF OpenSeq, At
  <2>5. CASE OpenElem
    BY <1>a, <1>push, <2>5 DEF OpenElem, At
  <2>6. CASE CloseSeq
    BY <1>a, <1>push, <1>pop, <2>6 DEF CloseSeq, At
  <2>7. CASE CloseAlts
    BY <1>a, <1>push, <1>pop, <2>7 DEF CloseAlts, At
  <2>8. CASE CloseProd
    <3>1. CASE ProdAt(pos)
      <4> DEFINE g == NewFrame("prod", Top.node)
      <4>1. stack' = [stack EXCEPT ![Len(stack)] = g]
        BY <2>8, <3>1 DEF CloseProd
      <4>2. DOMAIN stack' = DOMAIN stack
        BY <4>1
      <4>3. DOMAIN stack' = 1 .. Len(stack') /\ DOMAIN stack = 1 .. Len(stack)
            /\ Len(stack') \in Nat
        BY <1>a, LenProperties
      <4>4. 1 .. Len(stack') = 1 .. Len(stack)
        BY <4>2, <4>3
      <4>5. Len(stack') \in Nat /\ Len(stack) \in Nat
        BY <1>a, <4>3
      <4>6. Len(stack') = Len(stack)
        BY <4>4, <4>5, SameInterval, Zenon
      <4> QED BY <4>5, <4>6
    <3>2. CASE ~ProdAt(pos)
      BY <1>a, <1>pop, <2>8, <3>2 DEF CloseProd
    <3> QED BY <3>1, <3>2
  <2>9. CASE CloseGbnf
    BY <1>a, <2>9 DEF CloseGbnf
  <2> QED BY <1>1, <2>1, <2>2, <2>3, <2>4, <2>5, <2>6, <2>7, <2>8, <2>9 DEF Unguarded
<1>2. CASE RustAtom
  BY <1>2, <1>a, <1>stay DEF RustAtom, AtomTerm, AtomEmpty, AtomBad
<1>3. CASE RustAtomGroup
  <2>1. MaxGroupDepth \in Nat /\ Depth \in Int
    BY <1>a, DepthAssumption DEF Depth
  <2>2. Depth <= MaxGroupDepth
    BY <1>3, <2>1 DEF RustAtomGroup, TooManyGroups
  <2>3. Len(stack') = Len(stack) + 1
    BY <1>3, <1>push DEF RustAtomGroup, AtomGroup
  <2> QED BY <2>2, <2>3
<1>4. CASE RustCloseGroup \/ RustCloseAtom
  BY <1>4, <1>a, <1>pop DEF RustCloseGroup, RustCloseAtom, CloseGroup, CloseAtom
<1>5. CASE RustElemPlain \/ RustElemPost \/ RustElemPostBad
  <2>1. ElemPlain \/ ElemPost \/ ElemPostBad
    BY <1>5 DEF RustElemPlain, RustElemPost, RustElemPostBad
  <2>2. stack' = stack \/ \E n : stack' = PopRule(n)
    BY <2>1 DEF ElemPlain, ElemPost, ElemPostBad
  <2> QED BY <2>2, <1>a, <1>pop
<1>6. CASE RustUnexpected \/ Refusal
  BY <1>6, <1>a
     DEF RustUnexpected, Unexpected, Refusal, RefuseGroup, RefuseCloseGroup, RefusePost, Refuse
<1> QED BY <1>1, <1>2, <1>3, <1>4, <1>5, <1>6 DEF RustStep

-----------------------------------------------------------------------------
RustIInv == IInv /\ GroupsCapped

LEMMA InitRustIInv == RustInit => RustIInv
<1> SUFFICES ASSUME RustInit PROVE RustIInv
  OBVIOUS
<1>1. IInv
  BY InitIInv DEF RustInit
<1>2. Len(stack) = 1
  BY DEF RustInit, Init
<1> QED BY <1>1, <1>2 DEF RustIInv, GroupsCapped

LEMMA StepRustIInv == RustIInv /\ [RustNext]_rustVars => RustIInv'
<1> SUFFICES ASSUME RustIInv, [RustNext]_rustVars PROVE RustIInv'
  OBVIOUS
<1>1. IInv /\ IInv'
  BY RustStepIInv DEF RustIInv
<1>2. /\ Len(stack) \in Nat /\ Len(stack') \in Nat
      /\ GroupsCapped
  BY <1>1, LenProperties DEF IInv, TypeOK, RustIInv
<1>3. CASE RustStep
  <2>1. CASE Len(stack') <= Len(stack)
    BY <1>1, <1>2, <2>1 DEF RustIInv, GroupsCapped, RuleAt
  <2>2. CASE /\ Len(stack') = Len(stack) + 1
             /\ RuleAt(Len(stack)) = "atom" => Depth <= MaxGroupDepth
    BY <1>1, <1>2, <2>2 DEF RustIInv, GroupsCapped, Depth
  <2> QED BY <1>1, <1>3, <2>1, <2>2, Growth
<1>4. CASE UNCHANGED stack
  BY <1>1, <1>2, <1>4 DEF RustIInv, GroupsCapped
<1> QED BY <1>3, <1>4 DEF RustNext, rustVars

\* Any four frames in a row above the second hold an atom.
LEMMA AtomEveryFour ==
  ASSUME NEW n \in Nat, n > 2
  PROVE  \E i \in n .. n + 3 : RuleAt(i) = "atom"
<1>1. \A i \in Nat : i > 2 /\ (i - 3) % 4 = 3 => RuleAt(i) = "atom"
  BY SMT DEF RuleAt
<1>2. \E i \in n .. n + 3 : (i - 3) % 4 = 3
  BY SMTT(20)
<1> QED BY <1>1, <1>2

-----------------------------------------------------------------------------
(* Theorems.                                                               *)

\* Whatever the source, the engine's stack of rules never grows more than
\* five frames past MAX_GROUP_DEPTH: @atom-lp refuses a group before any
\* rule is pushed for it.
THEOREM DepthCapped == RustSpec => []StackBounded
<1>1. ASSUME RustIInv PROVE StackBounded
  <2>1. Len(stack) \in Nat /\ MaxGroupDepth \in Nat \ {0}
    BY <1>1, LenProperties, DepthAssumption DEF RustIInv, IInv, TypeOK
  <2>2. SUFFICES ASSUME Len(stack) > MaxGroupDepth + 5 PROVE FALSE
    BY <2>1 DEF StackBounded
  <2> DEFINE n == Len(stack) - 4
  <2>n. n \in Nat /\ n > 2
    BY <2>1, <2>2
  <2>3. PICK i \in n .. n + 3 : RuleAt(i) = "atom"
    <3> HIDE DEF n
    <3> QED BY <2>n, AtomEveryFour
  <2>4. i \in 1 .. Len(stack) - 1 /\ i - 1 > MaxGroupDepth
    BY <2>1, <2>2, <2>3
  <2> QED BY <1>1, <2>1, <2>3, <2>4 DEF RustIInv, GroupsCapped
<1> QED BY <1>1, InitRustIInv, StepRustIInv, PTL DEF RustSpec

-----------------------------------------------------------------------------
(* How deep elements nest: Height is well defined on every heap the parse  *)
(* builds, and what is built later leaves it as it is.                     *)

LEMMA RustStepFInv == FInv /\ [RustNext]_rustVars => FInv'
<1> SUFFICES ASSUME FInv, [RustNext]_rustVars PROVE FInv'
  OBVIOUS
<1>1. CASE [Next]_vars
  BY <1>1, StepFInv
<1>2. CASE Refuses
  <2>1. IInv'
    BY RustStepIInv DEF FInv
  <2> QED BY <1>2, <2>1 DEF Refuses, Refuse, FInv
<1> QED BY <1>1, <1>2, StepOrRefusal

\* d gives every cell of h its height, and nothing else does.
Measures(h, d) == d = [r \in DOMAIN h |-> HeightOf(h, d, r)]
Solves(h, d) ==
  /\ d \in [DOMAIN h -> Nat] /\ Measures(h, d)
  /\ \A e : Measures(h, e) => e = d

LEMMA HeightSolves ==
  /\ \A d : Solves(heap, d) => Height = d
  /\ \A d : Solves(heap', d) => Height' = d
<1> DEFINE In(h) == CHOOSE e : e = [r \in DOMAIN h |-> HeightOf(h, e, r)]
<1>1. ASSUME NEW h, NEW d, Solves(h, d) PROVE In(h) = d
  <2>1. d = [r \in DOMAIN h |-> HeightOf(h, d, r)]
    BY <1>1 DEF Solves, Measures
  <2>2. In(h) = [r \in DOMAIN h |-> HeightOf(h, In(h), r)]
    BY <2>1
  <2> HIDE DEF In
  <2> QED BY <1>1, <2>2 DEF Solves, Measures
<1>2. Height = In(heap) /\ Height' = In(heap')
  BY DEF Height
<1> HIDE DEF In
<1> QED BY <1>1, <1>2

\* A wrapper and a group have what they were built around.
Single(h) == \A r \in DOMAIN h : h[r].kind \in {"rep", "group"} => 1 \in DOMAIN h[r].kids

\* From h to k only list changes, and what is new.
Untouched(h, k, list) == \A r \in DOMAIN h : r \in DOMAIN k /\ (r # list => k[r] = h[r])
\* The list is being filled: it hangs from nothing.
Filling(h, list) ==
  list \in DOMAIN h => Free(h, list) /\ h[list].kind \in {"prods", "alts", "seq"}

\* Heights in k of what h holds are those in h.
Stable(h, k) ==
  \A r \in DOMAIN h : \A f, g :
    (\A m \in DOMAIN h : f[m] = g[m]) => HeightOf(k, f, r) = HeightOf(h, g, r)

LEMMA KidsIn ==
  ASSUME NEW h, Tidy(h), NEW r \in DOMAIN h
  PROVE  /\ Kids(h, r) \subseteq DOMAIN h /\ Members(h, r) \subseteq DOMAIN h
         /\ \A list : Free(h, list) => list \notin Kids(h, r)
<1>1. ASSUME NEW p \in DOMAIN h PROVE Kids(h, p) \subseteq DOMAIN h
  <2>1. \A i \in DOMAIN h[p].kids : h[p].kids[i] \in DOMAIN h
    BY DEF Tidy
  <2> QED BY <2>1 DEF Kids
<1>2. Members(h, r) \subseteq DOMAIN h
  BY <1>1 DEF Members
<1>3. \A list : Free(h, list) => list \notin Kids(h, r)
  BY DEF Free, Kids
<1> QED BY <1>1, <1>2, <1>3

LEMMA KidsKept ==
  ASSUME NEW h, NEW k, NEW list, Tidy(h), Untouched(h, k, list), Filling(h, list),
         NEW r \in DOMAIN h, r # list
  PROVE  Kids(k, r) = Kids(h, r) /\ Members(k, r) = Members(h, r)
<1>1. \A p \in DOMAIN h : p # list => Kids(k, p) = Kids(h, p)
  BY DEF Untouched, Kids
<1>2. \A q \in Kids(h, r) : q \in DOMAIN h /\ q # list
  BY KidsIn DEF Filling
<1>3. \A q \in Kids(h, r) : Kids(k, q) = Kids(h, q)
  BY <1>1, <1>2
<1>4. Kids(k, r) = Kids(h, r)
  BY <1>1
<1> QED BY <1>3, <1>4 DEF Members

LEMMA StableHeap ==
  ASSUME NEW h, NEW k, NEW list, Tidy(h), Single(h), Untouched(h, k, list), Filling(h, list),
         list \in DOMAIN h => k[list].kind = h[list].kind
  PROVE  Stable(h, k)
<1> SUFFICES ASSUME NEW r \in DOMAIN h, NEW f, NEW g, \A m \in DOMAIN h : f[m] = g[m]
             PROVE  HeightOf(k, f, r) = HeightOf(h, g, r)
  BY DEF Stable
<1>1. CASE r = list
  BY <1>1 DEF HeightOf, Filling
<1>2. CASE r # list
  <2>1. k[r] = h[r]
    BY <1>2 DEF Untouched
  <2> DEFINE a == h[r].kids[1]
  <2>2. CASE h[r].kind = "rep"
    <3>1. a \in DOMAIN h
      BY <2>2 DEF Single, Tidy
    <3> QED BY <2>1, <2>2, <3>1 DEF HeightOf
  <2>3. CASE h[r].kind = "group"
    <3>1. 1 \in DOMAIN h[r].kids /\ a \in DOMAIN h
      BY <2>3 DEF Single, Tidy
    <3>2. a # list
      BY <3>1 DEF Filling, Free
    <3> HIDE DEF a
    <3>3. Members(k, a) = Members(h, a) /\ Members(h, a) \subseteq DOMAIN h
      BY <3>1, <3>2, KidsKept, KidsIn
    <3>4. {f[m] : m \in Members(k, a)} = {g[m] : m \in Members(h, a)}
      BY <3>3
    <3>5. /\ HeightOf(k, f, r) = 1 + Tallest({f[m] : m \in Members(k, a)})
          /\ HeightOf(h, g, r) = 1 + Tallest({g[m] : m \in Members(h, a)})
      BY <2>1, <2>3 DEF HeightOf, a
    <3> QED BY <3>4, <3>5
  <2>4. CASE h[r].kind \notin {"rep", "group"}
    BY <2>1, <2>4 DEF HeightOf
  <2> QED BY <2>2, <2>3, <2>4
<1> QED BY <1>1, <1>2

LEMMA SolvesOn ==
  ASSUME NEW h, NEW k, NEW d, Solves(h, d), Stable(h, k), DOMAIN k = DOMAIN h
  PROVE  Solves(k, d)
<1>1. \A e : [r \in DOMAIN k |-> HeightOf(k, e, r)] = [r \in DOMAIN h |-> HeightOf(h, e, r)]
  BY DEF Stable
<1>2. \A e : Measures(k, e) <=> Measures(h, e)
  BY <1>1 DEF Measures
<1> QED BY <1>2 DEF Solves

\* n is the one new cell of k, and v its height over those of h.
Adds(h, k, d, n, v) ==
  /\ n \notin DOMAIN h /\ DOMAIN k = DOMAIN h \cup {n} /\ v \in Nat
  /\ \A f : (\A m \in DOMAIN h : f[m] = d[m]) => HeightOf(k, f, n) = v

LEMMA SolvesNew ==
  ASSUME NEW h, NEW k, NEW d, NEW n, NEW v,
         Solves(h, d), Stable(h, k), Adds(h, k, d, n, v)
  PROVE  \E e : /\ Solves(k, e) /\ e[n] = v
                /\ \A m \in DOMAIN h : e[m] = d[m]
<1> DEFINE e == [r \in DOMAIN k |-> IF r = n THEN v ELSE d[r]]
<1>0. /\ n \notin DOMAIN h /\ DOMAIN k = DOMAIN h \cup {n} /\ v \in Nat
      /\ \A f : (\A m \in DOMAIN h : f[m] = d[m]) => HeightOf(k, f, n) = v
  BY DEF Adds
<1>1. /\ d \in [DOMAIN h -> Nat] /\ d = [r \in DOMAIN h |-> HeightOf(h, d, r)]
      /\ \A f : f = [r \in DOMAIN h |-> HeightOf(h, f, r)] => f = d
  BY DEF Solves, Measures
<1>2. /\ e \in [DOMAIN k -> Nat] /\ e[n] = v /\ n \in DOMAIN k
      /\ \A m \in DOMAIN h : e[m] = d[m] /\ m \in DOMAIN k
  BY <1>0, <1>1
<1>3. HeightOf(k, e, n) = v
  <2> HIDE DEF e
  <2> QED BY <1>0, <1>2
<1>4. \A r \in DOMAIN h : HeightOf(k, e, r) = d[r]
  <2>1. \A r \in DOMAIN h : HeightOf(k, e, r) = HeightOf(h, d, r)
    <3> HIDE DEF e
    <3> QED BY <1>2 DEF Stable
  <2> QED BY <1>1, <2>1
<1>5. Measures(k, e)
  <2>1. \A r \in DOMAIN k : e[r] = HeightOf(k, e, r)
    <3> HIDE DEF e
    <3> QED BY <1>0, <1>2, <1>3, <1>4
  <2>2. e = [r \in DOMAIN k |-> e[r]]
    OBVIOUS
  <2> HIDE DEF e
  <2> QED BY <2>1, <2>2 DEF Measures
<1>6. ASSUME NEW f, Measures(k, f) PROVE f = e
  <2> DEFINE g == [r \in DOMAIN h |-> f[r]]
  <2>1. f = [r \in DOMAIN k |-> HeightOf(k, f, r)]
    BY <1>6 DEF Measures
  <2>2. \A m \in DOMAIN h : f[m] = g[m]
    OBVIOUS
  <2>3. \A r \in DOMAIN h : f[r] = HeightOf(h, g, r)
    <3>1. \A r \in DOMAIN h : f[r] = HeightOf(k, f, r)
      BY <1>2, <2>1
    <3> HIDE DEF g
    <3> QED BY <2>2, <3>1 DEF Stable
  <2>4. g = [r \in DOMAIN h |-> HeightOf(h, g, r)]
    <3>1. g = [r \in DOMAIN h |-> f[r]]
      OBVIOUS
    <3> HIDE DEF g
    <3> QED BY <2>3, <3>1
  <2>5. g = d
    <3> HIDE DEF g
    <3> QED BY <1>1, <2>4
  <2>6. \A m \in DOMAIN h : f[m] = d[m]
    BY <2>2, <2>5
  <2>7. f[n] = v
    BY <1>0, <1>2, <2>1, <2>6
  <2>8. f = [r \in DOMAIN k |-> f[r]]
    BY <2>1
  <2>9. \A r \in DOMAIN k : f[r] = IF r = n THEN v ELSE d[r]
    BY <1>0, <2>6, <2>7
  <2> QED BY <2>8, <2>9
<1>7. Solves(k, e)
  <2> HIDE DEF e
  <2> QED BY <1>2, <1>5, <1>6 DEF Solves
<1> HIDE DEF e
<1> QED BY <1>2, <1>7

-----------------------------------------------------------------------------
(* The tallest of a set, and what a new cell makes of the heights.         *)

\* v is the height of the tallest of the elements M, 0 if there is none.
Fits(d, M, v) == v \in Nat /\ (\A m \in M : d[m] <= v) /\ (v = 0 \/ \E m \in M : d[m] = v)

LEMMA FitsTallest ==
  ASSUME NEW D, NEW d \in [D -> Nat], NEW M \in SUBSET D, NEW v, Fits(d, M, v)
  PROVE  Tallest({d[m] : m \in M}) = v
<1> DEFINE S == {d[m] : m \in M}
<1>1. S \subseteq Nat /\ v \in Nat /\ (\A n \in S : n <= v) /\ v \in S \cup {0}
  BY DEF Fits
<1> HIDE DEF S
<1>2. \A w \in S \cup {0} : (\A n \in S : n <= w) => w = v
  <2> SUFFICES ASSUME NEW w \in S \cup {0}, \A n \in S : n <= w PROVE w = v
    OBVIOUS
  <2>1. w \in Nat /\ w <= v
    BY <1>1
  <2>2. v <= w
    BY <1>1, <2>1
  <2> QED BY <1>1, <2>1, <2>2
<1>3. Tallest(S) = v
  BY <1>1, <1>2 DEF Tallest
<1> QED BY <1>3 DEF S

LEMMA FitsNone == ASSUME NEW d PROVE Fits(d, {}, 0)
BY DEF Fits

\* One more element, and the taller of the two (note_level).
LEMMA FitsMore ==
  ASSUME NEW d, NEW M, NEW v, NEW x, Fits(d, M, v), \A m \in M \cup {x} : d[m] \in Nat
  PROVE  Fits(d, M \cup {x}, IF v < d[x] THEN d[x] ELSE v)
<1>1. CASE v < d[x]
  <2>1. \A m \in M \cup {x} : d[m] <= d[x]
    <3>1. \A m \in M : d[m] <= v
      BY DEF Fits
    <3> QED BY <1>1, <3>1 DEF Fits
  <2> QED BY <1>1, <2>1 DEF Fits
<1>2. CASE ~(v < d[x])
  BY <1>2 DEF Fits
<1> QED BY <1>1, <1>2

LEMMA FitsOn ==
  ASSUME NEW d, NEW e, NEW M, NEW v, Fits(d, M, v), \A m \in M : e[m] = d[m]
  PROVE  Fits(e, M, v)
BY DEF Fits

\* The invariant of the heights: they are well defined, and bounded.
Built == Solves(heap, Height) /\ Single(heap) /\ TreeBounded

LEMMA BuiltOn ==
  ASSUME FInv, Built, NEW list, Untouched(heap, heap', list), Filling(heap, list),
         list \in DOMAIN heap => heap'[list].kind = heap[list].kind,
         DOMAIN heap' = DOMAIN heap
  PROVE  Built' /\ \A m \in DOMAIN heap : Height'[m] = Height[m]
<1>1. Stable(heap, heap')
  BY StableHeap DEF FInv, Built
<1>2. Solves(heap', Height)
  BY <1>1, SolvesOn DEF Built
<1>3. Height' = Height
  BY <1>2, HeightSolves
<1>4. \A r \in DOMAIN heap : heap'[r].kind = heap[r].kind
                             /\ (heap[r].kind \in {"rep", "group"} => heap'[r] = heap[r])
  BY DEF Untouched, Filling
<1>5. Single(heap')
  BY <1>4 DEF Built, Single
<1>6. TreeBounded'
  BY <1>3, <1>4 DEF TreeBounded, Elements, Built
<1> QED BY <1>2, <1>3, <1>5, <1>6 DEF Built

LEMMA BuiltNew ==
  ASSUME FInv, Built, NEW list, Untouched(heap, heap', list), Filling(heap, list),
         list \in DOMAIN heap => heap'[list].kind = heap[list].kind,
         NEW n, NEW v, Adds(heap, heap', Height, n, v),
         heap'[n].kind \in {"rep", "group"} => 1 \in DOMAIN heap'[n].kids,
         heap'[n].kind \in {"term", "rep", "group"} => v <= MaxNestDepth
  PROVE  /\ Built' /\ Height'[n] = v
         /\ \A m \in DOMAIN heap : Height'[m] = Height[m]
<1>1. Stable(heap, heap')
  BY StableHeap DEF FInv, Built
<1>2. PICK e : /\ Solves(heap', e) /\ e[n] = v
               /\ \A m \in DOMAIN heap : e[m] = Height[m]
  <2>1. Solves(heap, Height)
    BY DEF Built
  <2> QED BY <1>1, <2>1, SolvesNew
<1>3. Height' = e
  BY <1>2, HeightSolves
<1>4. \A r \in DOMAIN heap : heap'[r].kind = heap[r].kind
                             /\ (heap[r].kind \in {"rep", "group"} => heap'[r] = heap[r])
  BY DEF Untouched, Filling
<1>0. DOMAIN heap' = DOMAIN heap \cup {n}
  BY DEF Adds
<1>5. Single(heap')
  BY <1>0, <1>4 DEF Built, Single
<1>6. TreeBounded'
  <2> SUFFICES ASSUME NEW r \in DOMAIN heap', heap'[r].kind \in {"term", "rep", "group"}
               PROVE  Height'[r] <= MaxNestDepth
    BY DEF TreeBounded, Elements
  <2>1. CASE r = n
    BY <1>2, <1>3, <2>1
  <2>2. CASE r \in DOMAIN heap
    BY <1>2, <1>3, <1>4, <2>2 DEF TreeBounded, Elements, Built
  <2> QED BY <1>0, <2>1, <2>2
<1> QED BY <1>2, <1>3, <1>5, <1>6 DEF Built

-----------------------------------------------------------------------------
(* What each way of building leaves of the heap and of its heights.        *)

LEMMA Appended ==
  ASSUME NEW h \in Seq(Cells), NEW c \in Cells
  PROVE  LET k == Append(h, c)
             n == Len(h) + 1
         IN  /\ n \notin DOMAIN h /\ DOMAIN k = DOMAIN h \cup {n} /\ k[n] = c
             /\ \A list : Untouched(h, k, list)
<1> DEFINE k == Append(h, c)
           n == Len(h) + 1
<1>1. /\ Len(h) \in Nat /\ DOMAIN h = 1 .. Len(h)
      /\ DOMAIN k = 1 .. n /\ k[n] = c /\ \A r \in DOMAIN h : k[r] = h[r] /\ r \in DOMAIN k
  BY HeapCells, AppendProperties
<1>2. n \notin DOMAIN h /\ 1 .. n = (1 .. Len(h)) \cup {n}
  BY <1>1
<1> HIDE DEF k
<1>3. \A list : Untouched(h, k, list)
  BY <1>1 DEF Untouched
<1> QED BY <1>1, <1>2, <1>3 DEF k

LEMMA PushedList ==
  ASSUME NEW h \in Seq(Cells), NEW list \in DOMAIN h, NEW r \in Nat
  PROVE  LET k == PushNode(h, list, r)
         IN  /\ DOMAIN k = DOMAIN h /\ k[list].kind = h[list].kind
             /\ Untouched(h, k, list) /\ Kids(k, list) = Kids(h, list) \cup {r}
<1> DEFINE k == PushNode(h, list, r)
           old == h[list].kids
           n == Len(old) + 1
<1>1. /\ DOMAIN h = 1 .. Len(h) /\ \A p \in DOMAIN h : h[p] \in Cells
      /\ old \in Seq(Nat) /\ DOMAIN old = 1 .. Len(old) /\ Len(old) \in Nat
  BY HeapCells
<1>2. k = [h EXCEPT ![list] = [h[list] EXCEPT !.kids = Append(old, r)]]
  BY DEF PushNode
<1>3. /\ DOMAIN k = DOMAIN h
      /\ \A p \in DOMAIN h : p # list => k[p] = h[p]
      /\ k[list].kind = h[list].kind /\ k[list].kids = Append(old, r)
  BY <1>1, <1>2 DEF Cells
<1>4. /\ DOMAIN Append(old, r) = DOMAIN old \cup {n} /\ Append(old, r)[n] = r
      /\ \A i \in DOMAIN old : Append(old, r)[i] = old[i]
  BY <1>1, AppendProperties
<1> HIDE DEF k, old, n
<1>5. Untouched(h, k, list)
  BY <1>3 DEF Untouched
<1>6. Kids(k, list) = Kids(h, list) \cup {r}
  BY <1>3, <1>4 DEF Kids, old
<1> QED BY <1>3, <1>5, <1>6 DEF k

LEMMA HeapFacts ==
  ASSUME FInv
  PROVE  /\ heap \in Seq(Cells) /\ Tidy(heap) /\ Fresh = Len(heap) + 1
         /\ Fresh \in Nat /\ Fresh \notin DOMAIN heap /\ Undef \notin DOMAIN heap
         /\ Filling(heap, Undef)
         /\ \A list : list \notin DOMAIN heap => Filling(heap, list)
<1>1. /\ heap \in Seq(Cells) /\ Tidy(heap) /\ Fresh = Len(heap) + 1
      /\ Fresh \in Nat /\ Fresh \notin DOMAIN heap
      /\ Len(heap) \in Nat /\ DOMAIN heap = 1 .. Len(heap)
  BY TopFacts
<1>2. Undef \notin DOMAIN heap
  BY <1>1 DEF Undef
<1> QED BY <1>1, <1>2 DEF Filling

LEMMA BuiltSame ==
  ASSUME FInv, Built, heap' = heap
  PROVE  Built' /\ Height' = Height
<1>1. Solves(heap', Height)
  BY DEF Built
<1>2. Height' = Height
  BY <1>1, HeightSolves
<1> QED BY <1>1, <1>2 DEF Built, TreeBounded, Elements

\* A new cell whose height is v over any heights of the others.
LEMMA BuiltCell ==
  ASSUME FInv, Built, NEW c \in Cells, NEW v \in Nat, heap' = Append(heap, c),
         c.kind \in {"rep", "group"} => 1 \in DOMAIN c.kids,
         c.kind \in {"term", "rep", "group"} => v <= MaxNestDepth,
         \A f : (\A m \in DOMAIN heap : f[m] = Height[m]) => HeightOf(heap', f, Fresh) = v
  PROVE  /\ Built' /\ Height'[Fresh] = v
         /\ \A m \in DOMAIN heap : Height'[m] = Height[m]
<1>1. /\ Fresh \notin DOMAIN heap /\ DOMAIN heap' = DOMAIN heap \cup {Fresh}
      /\ heap'[Fresh] = c /\ Untouched(heap, heap', Undef)
  BY HeapFacts, Appended
<1>2. Adds(heap, heap', Height, Fresh, v)
  BY <1>1 DEF Adds
<1>3. Filling(heap, Undef) /\ Undef \notin DOMAIN heap
  BY HeapFacts
<1> QED BY <1>1, <1>2, <1>3, BuiltNew

\* A new cell that becomes the last child of a list.
LEMMA BuiltPushed ==
  ASSUME FInv, Built, NEW c \in Cells, NEW v \in Nat, NEW list \in DOMAIN heap,
         Filling(heap, list), heap' = PushNode(Append(heap, c), list, Fresh),
         c.kind \in {"rep", "group"} => 1 \in DOMAIN c.kids,
         c.kind \in {"term", "rep", "group"} => v <= MaxNestDepth,
         \A f : (\A m \in DOMAIN heap : f[m] = Height[m]) => HeightOf(heap', f, Fresh) = v
  PROVE  /\ Built' /\ Height'[Fresh] = v /\ heap'[Fresh] = c
         /\ \A m \in DOMAIN heap : Height'[m] = Height[m]
         /\ Untouched(heap, heap', list) /\ Kids(heap', list) = Kids(heap, list) \cup {Fresh}
<1> DEFINE k == Append(heap, c)
<1>1. /\ Fresh \notin DOMAIN heap /\ DOMAIN k = DOMAIN heap \cup {Fresh}
      /\ k[Fresh] = c /\ Untouched(heap, k, Undef) /\ Undef \notin DOMAIN heap
      /\ k \in Seq(Cells) /\ Fresh \in Nat
  BY HeapFacts, Appended, AppendProperties
<1> HIDE DEF k
<1>2. list \in DOMAIN k /\ list # Fresh /\ k[list] = heap[list]
  BY <1>1 DEF Untouched
<1>3. heap' = PushNode(k, list, Fresh)
  BY DEF k
<1>4. /\ DOMAIN heap' = DOMAIN k /\ heap'[list].kind = k[list].kind
      /\ Untouched(k, heap', list) /\ Kids(heap', list) = Kids(k, list) \cup {Fresh}
  BY <1>1, <1>2, <1>3, PushedList
<1>5. Untouched(heap, heap', list)
  BY <1>1, <1>4 DEF Untouched
<1>6. Kids(heap', list) = Kids(heap, list) \cup {Fresh}
  BY <1>2, <1>4 DEF Kids
<1>7. heap'[Fresh] = c
  BY <1>1, <1>2, <1>4 DEF Untouched
<1>8. Adds(heap, heap', Height, Fresh, v)
  BY <1>1, <1>4 DEF Adds
<1>9. heap'[list].kind = heap[list].kind
  BY <1>2, <1>4
<1> QED BY <1>5, <1>6, <1>7, <1>8, <1>9, BuiltNew

\* The finished child becomes the last one of a list.
LEMMA BuiltPush ==
  ASSUME FInv, Built, NEW list \in DOMAIN heap, NEW r \in Nat,
         Filling(heap, list), heap' = PushNode(heap, list, r)
  PROVE  /\ Built' /\ \A m \in DOMAIN heap : Height'[m] = Height[m]
         /\ Untouched(heap, heap', list) /\ Kids(heap', list) = Kids(heap, list) \cup {r}
<1>1. /\ DOMAIN heap' = DOMAIN heap /\ heap'[list].kind = heap[list].kind
      /\ Untouched(heap, heap', list) /\ Kids(heap', list) = Kids(heap, list) \cup {r}
  BY HeapFacts, PushedList
<1> QED BY <1>1, BuiltOn

-----------------------------------------------------------------------------
(* The invariant of the registers.                                         *)

\* The elements the alternatives of frame i have gathered so far: in the
\* array of alts, in the sequence being filled above it, and in the finished
\* one it is about to take.
Gathered(h, s, i) ==
  (IF s[i].phase = "close" THEN Members(h, s[i].node) ELSE {})
    \cup (IF i + 1 <= Len(s) /\ s[i + 1].phase = "close" THEN Kids(h, s[i + 1].node) ELSE {})
    \cup (IF i = Len(s) /\ s[i].phase = "close" THEN Kids(h, s[i].child) ELSE {})

\* The level of the j-th open group, counted from the outermost.
LevelAt(j) == IF j = Len(outer) THEN level ELSE outer[j + 1]

\* Nothing inside a group can follow: the rules above are all to leave, a
\* group left open on the way does not put the enclosing level back, and
\* nobody will ask for it.
Rest == ProdAt(pos) \/ KindAt(pos) = "ZZ"

\* Every group on the stack has saved a level.
OuterShape ==
  LET n == Len(stack)
      g == Len(outer)
  IN /\ Top.rule \in {"gbnf", "prod"} => g = 0
     /\ Top.rule = "alts" => n = 4 * g + 3
     /\ Top.rule = "seq" => n = 4 * g + 4
     /\ Top.rule = "elem" => n = 4 * g + 5
     /\ Top.rule = "atom" => n = IF Top.grouped THEN 4 * g + 2 ELSE 4 * g + 6

\* elem works on the list of the sequence below it.
Inherits == \A i \in 2 .. Len(stack) : stack[i].rule = "elem" => stack[i].node = stack[i - 1].node

\* What a rule already knows of the tokens ahead.
Reading ==
  /\ Top.rule \in {"elem", "atom"} /\ Top.phase = "open" => ~AtBoundary
  /\ Top.rule = "alts" /\ Top.phase = "close" => AtBoundary
  /\ Top.grouped => AtBoundary /\ KindAt(pos) # "ALT"

NestKept ==
  /\ Top.rule = "elem" /\ Top.phase = "close" /\ Top.child # Undef => nest = Height[Top.child]
  /\ Top.rule = "atom" /\ Top.phase = "close" /\ ~Top.grouped => nest = 1

LevelsKept ==
  ~Rest =>
    /\ \A j \in 1 .. Len(outer) :
         4 * j + 3 <= Len(stack) => Fits(Height, Gathered(heap, stack, 4 * j + 3), LevelAt(j))
    /\ Top.grouped => Fits(Height, Members(heap, Top.child), level)

Registers ==
  /\ nest \in Nat /\ level \in Nat /\ outer \in Seq(Nat)
  /\ OuterShape /\ Inherits /\ Reading /\ NestKept /\ LevelsKept

HInv == FInv /\ Built /\ (Running => Registers)

-----------------------------------------------------------------------------
(* The levels of the groups a step does not touch.                         *)

LEMMA LevelRules ==
  ASSUME NEW j \in Nat
  PROVE  RuleAt(4 * j + 3) = "alts" /\ RuleAt(4 * j + 4) = "seq"
<1>1. 4 * j + 3 > 2 /\ (4 * j + 3 - 3) % 4 = 0 /\ 4 * j + 3 # 1 /\ 4 * j + 3 # 2
  BY SMT
<1>2. 4 * j + 4 > 2 /\ (4 * j + 4 - 3) % 4 = 1 /\ 4 * j + 4 # 1 /\ 4 * j + 4 # 2
  BY SMT
<1>3. RuleAt(4 * j + 3) = "alts"
  BY <1>1 DEF RuleAt
<1>4. RuleAt(4 * j + 4) = "seq"
  BY <1>2 DEF RuleAt
<1> QED BY <1>3, <1>4

\* Two lists that are being filled are two cells.
LEMMA ListsApart ==
  ASSUME FInv, NEW i \in 1 .. Len(stack), NEW k \in 1 .. Len(stack), i < k,
         stack[i].rule \in Owners, stack[k].rule \in Owners, stack[k].phase = "close"
  PROVE  stack[i].node # stack[k].node
<1>1. Holds(heap, stack, k) /\ Len(stack) \in Nat
  BY TopFacts DEF FInv, Anchored, Held
<1>2. i \in 1 .. k - 1
  BY <1>1
<1>3. stack[i].node < stack[k].node
  BY <1>1, <1>2 DEF Holds
<1>4. stack[i] \in Frames /\ stack \in Seq(Frames)
  BY ElementOfSeq DEF FInv, IInv, TypeOK
<1>5. stack[i].node \in Nat
  BY <1>4 DEF Frames
<1> QED BY <1>3, <1>5

LEMMA FrameRule ==
  ASSUME FInv, NEW i \in 1 .. Len(stack)
  PROVE  /\ stack[i].rule = RuleAt(i) /\ stack[i] \in Frames
         /\ i < Len(stack) => stack[i].phase = "close"
         /\ stack[i].rule \in Owners /\ stack[i].phase = "close" =>
              stack[i].node \in DOMAIN heap /\ Free(heap, stack[i].node)
<1>1. ShapedAt(stack, i) /\ stack[i] \in Frames
  BY ElementOfSeq DEF FInv, IInv, TypeOK, StackShape, Shaped
<1>2. Holds(heap, stack, i)
  BY DEF FInv, Anchored, Held
<1> QED BY <1>1, <1>2 DEF ShapedAt, Holds, Free

LEMMA LevelBelow ==
  ASSUME FInv, Registers, ~Rest, NEW j \in 1 .. Len(outer),
         NEW m \in Nat, 4 * j + 4 <= m, m <= Len(stack), m <= Len(stack'),
         SameBelow(stack, stack', m),
         NEW list, Untouched(heap, heap', list), Filling(heap, list),
         stack[4 * j + 3].node # list,
         stack[4 * j + 4].phase = "close" => stack[4 * j + 4].node # list,
         \A x \in DOMAIN heap : Height'[x] = Height[x]
  PROVE  Fits(Height', Gathered(heap', stack', 4 * j + 3), LevelAt(j))
<1> DEFINE i == 4 * j + 3
<1>1. /\ Len(stack) \in Nat /\ Len(outer) \in Nat /\ j \in Nat
      /\ i \in 1 .. m /\ i + 1 \in 1 .. m /\ i \in 1 .. Len(stack) /\ i + 1 \in 1 .. Len(stack)
      /\ i < Len(stack) /\ i < Len(stack') /\ i # Len(stack) /\ i # Len(stack')
      /\ i + 1 <= Len(stack) /\ i + 1 <= Len(stack') /\ 4 * j + 4 = i + 1
  <2>1. Len(stack) \in Nat /\ Len(outer) \in Nat /\ Len(stack') \in Nat
    BY TopFacts, LenProperties DEF Registers
  <2> QED BY <2>1
<1>2. RuleAt(i) = "alts" /\ RuleAt(i + 1) = "seq"
  BY <1>1, LevelRules
<1>3. Fits(Height, Gathered(heap, stack, i), LevelAt(j))
  BY <1>1 DEF Registers, LevelsKept
<1>4. /\ stack[i].node # list
      /\ stack[i + 1].phase = "close" => stack[i + 1].node # list
  BY <1>1
<1> HIDE DEF i
<1>5. /\ stack[i].node = stack'[i].node /\ stack[i].phase = stack'[i].phase
      /\ stack[i + 1].node = stack'[i + 1].node /\ stack[i + 1].phase = stack'[i + 1].phase
  BY <1>1 DEF SameBelow, SameFrame
<1>6. /\ stack[i].phase = "close" /\ stack[i].node \in DOMAIN heap
      /\ stack[i + 1].phase = "close" => stack[i + 1].node \in DOMAIN heap
  BY <1>1, <1>2, FrameRule DEF Owners
<1>7. Tidy(heap)
  BY DEF FInv
<1>8. /\ Members(heap', stack[i].node) = Members(heap, stack[i].node)
      /\ Members(heap, stack[i].node) \subseteq DOMAIN heap
  BY <1>4, <1>6, <1>7, KidsKept, KidsIn
<1>9. stack[i + 1].phase = "close" =>
        /\ Kids(heap', stack[i + 1].node) = Kids(heap, stack[i + 1].node)
        /\ Kids(heap, stack[i + 1].node) \subseteq DOMAIN heap
  BY <1>4, <1>6, <1>7, KidsKept, KidsIn
<1>10. Gathered(heap', stack', i) = Gathered(heap, stack, i)
       /\ Gathered(heap, stack, i) \subseteq DOMAIN heap
  BY <1>1, <1>5, <1>6, <1>8, <1>9 DEF Gathered
<1>11. Fits(Height', Gathered(heap', stack', i), LevelAt(j))
  BY <1>3, <1>10, FitsOn
<1> QED BY <1>11 DEF i

LEMMA LevelsUnder ==
  ASSUME FInv, Registers, ~Rest,
         NEW m \in Nat, m <= Len(stack), m <= Len(stack'), SameBelow(stack, stack', m),
         NEW list, Untouched(heap, heap', list), Filling(heap, list), SparedBelow(stack, m, list),
         \A x \in DOMAIN heap : Height'[x] = Height[x]
  PROVE  \A j \in 1 .. Len(outer) :
           4 * j + 4 <= m => Fits(Height', Gathered(heap', stack', 4 * j + 3), LevelAt(j))
<1> SUFFICES ASSUME NEW j \in 1 .. Len(outer), 4 * j + 4 <= m
             PROVE  Fits(Height', Gathered(heap', stack', 4 * j + 3), LevelAt(j))
  OBVIOUS
<1>1. Len(outer) \in Nat /\ j \in Nat /\ Len(stack) \in Nat
  BY LenProperties, TopFacts DEF Registers
<1>2. 4 * j + 3 \in 1 .. m /\ 4 * j + 4 \in 1 .. m
      /\ 4 * j + 3 \in 1 .. Len(stack) /\ 4 * j + 4 \in 1 .. Len(stack) /\ 4 * j + 3 < Len(stack)
  BY <1>1
<1>3. /\ stack[4 * j + 3].rule = "alts" /\ stack[4 * j + 4].rule = "seq"
      /\ stack[4 * j + 3].phase = "close"
  BY <1>1, <1>2, LevelRules, FrameRule
<1>4. /\ stack[4 * j + 3].node # list
      /\ stack[4 * j + 4].phase = "close" => stack[4 * j + 4].node # list
  BY <1>2, <1>3 DEF SparedBelow, Owners
<1> QED BY <1>4, LevelBelow

\* The same three ways of leaving the stack, for the lists elem inherits.
LEMMA StayTop ==
  ASSUME FInv, Inherits, NEW f \in Frames, f.rule = Top.rule, Top.rule # "elem", stack' = Stay(f)
  PROVE  LET n == Len(stack) IN
         /\ n \in Nat \ {0} /\ Len(stack') = n /\ SameBelow(stack, stack', n - 1)
         /\ Top' = [f EXCEPT !.phase = "close"] /\ stack'[n] = Top' /\ Inherits'
<1> DEFINE n == Len(stack)
<1>1. stack \in Seq(Frames) /\ stack # << >> /\ n \in Nat \ {0}
  BY TopFacts DEF FInv, IInv, TypeOK
<1>2. /\ Len(stack') = n /\ stack'[n] = [f EXCEPT !.phase = "close"]
      /\ SameBelow(stack, stack', n - 1)
  BY <1>1, StayFrames
<1>3. Top' = stack'[n] /\ stack'[n].rule # "elem"
  BY <1>2 DEF Top, Frames
<1>4. Inherits'
  <2> SUFFICES ASSUME NEW i \in 2 .. n, stack'[i].rule = "elem"
               PROVE  stack'[i].node = stack'[i - 1].node
    BY <1>2 DEF Inherits
  <2>1. i # n
    BY <1>3
  <2>2. i \in 1 .. n - 1 /\ i - 1 \in 1 .. n - 1
    BY <1>1, <2>1
  <2> QED BY <1>2, <2>2 DEF SameBelow, SameFrame, Inherits
<1> QED BY <1>1, <1>2, <1>3, <1>4

LEMMA PushTop ==
  ASSUME FInv, Inherits, NEW f \in Frames, NEW rule \in Rules, f.rule = Top.rule,
         Top.rule = "elem" => f.node = Top.node, stack' = PushRule(f, rule)
  PROVE  LET n == Len(stack) IN
         /\ n \in Nat \ {0} /\ Len(stack') = n + 1 /\ SameBelow(stack, stack', n - 1)
         /\ stack'[n] = [f EXCEPT !.phase = "close"]
         /\ Top' = NewFrame(rule, f.node) /\ stack'[n + 1] = Top' /\ Inherits'
<1> DEFINE n == Len(stack)
<1>1. stack \in Seq(Frames) /\ stack # << >> /\ n \in Nat \ {0}
  BY TopFacts DEF FInv, IInv, TypeOK
<1>2. /\ Len(stack') = n + 1 /\ stack'[n] = [f EXCEPT !.phase = "close"]
      /\ stack'[n + 1] = NewFrame(rule, f.node)
      /\ SameBelow(stack, stack', n - 1)
  BY <1>1, PushFrames
<1>3. Top' = stack'[n + 1] /\ stack'[n].node = f.node /\ stack'[n + 1].node = f.node
      /\ stack'[n].rule = Top.rule
  BY <1>2 DEF Top, Frames, NewFrame
<1>4. Inherits'
  <2> SUFFICES ASSUME NEW i \in 2 .. n + 1, stack'[i].rule = "elem"
               PROVE  stack'[i].node = stack'[i - 1].node
    BY <1>2 DEF Inherits
  <2>1. CASE i = n + 1
    BY <1>1, <1>3, <2>1
  <2>2. CASE i = n
    <3>1. Top.rule = "elem" /\ Top = stack[n] /\ n \in 2 .. n /\ n - 1 \in 1 .. n - 1
      BY <1>1, <1>3, <2>2 DEF Top
    <3> QED BY <1>2, <1>3, <2>2, <3>1 DEF Inherits, SameBelow, SameFrame
  <2>3. CASE i \in 2 .. n - 1
    <3>1. i \in 1 .. n - 1 /\ i - 1 \in 1 .. n - 1 /\ i \in 2 .. n
      BY <1>1, <2>3
    <3> QED BY <1>2, <3>1 DEF SameBelow, SameFrame, Inherits
  <2> QED BY <1>1, <2>1, <2>2, <2>3
<1> QED BY <1>1, <1>2, <1>3, <1>4

LEMMA PopTop ==
  ASSUME FInv, Inherits, Top.rule # "gbnf", NEW node \in Nat, stack' = PopRule(node)
  PROVE  LET n == Len(stack) - 1 IN
         /\ n \in Nat \ {0} /\ n + 1 = Len(stack) /\ Len(stack') = n
         /\ SameBelow(stack, stack', n)
         /\ Top' = stack'[n] /\ Top'.child = node /\ Top'.rule = RuleAt(n) /\ Top'.phase = "close"
         /\ Top'.node = stack[n].node /\ (Top'.grouped <=> RuleAt(n) = "atom")
         /\ Inherits'
<1> DEFINE n == Len(stack) - 1
<1>1. stack \in Seq(Frames) /\ Len(stack) \in Nat \ {0} /\ Shaped(stack) /\ Top.rule = RuleAt(Len(stack))
  BY TopFrame DEF FInv, IInv, TypeOK, StackShape
<1>2. Len(stack) # 1
  <2>1. ASSUME NEW m \in Nat \ {0}, RuleAt(m) # "gbnf" PROVE m # 1
    BY <2>1 DEF RuleAt
  <2> QED BY <1>1, <2>1
<1>3. /\ n \in Nat \ {0} /\ Len(stack') = n /\ stack'[n].child = node
      /\ SameBelow(stack, stack', n)
  <2>1. Len(stack) \notin {0, 1}
    BY <1>1, <1>2
  <2> QED BY <1>1, <2>1, PopFrames
<1>4. n + 1 = Len(stack) /\ n < Len(stack) /\ n \in 1 .. n
  BY <1>1, <1>3
<1>5. ShapedAt(stack, n)
  BY <1>1, <1>3, <1>4 DEF Shaped
<1> HIDE DEF n
<1>6. SameFrame(stack[n], stack'[n])
  BY <1>3, <1>4 DEF SameBelow
<1>7. /\ stack'[n].rule = RuleAt(n) /\ stack'[n].phase = "close" /\ stack'[n].node = stack[n].node
      /\ stack'[n].grouped <=> RuleAt(n) = "atom"
  BY <1>4, <1>5, <1>6 DEF SameFrame, ShapedAt
<1>8. Inherits'
  <2> SUFFICES ASSUME NEW i \in 2 .. n, stack'[i].rule = "elem"
               PROVE  stack'[i].node = stack'[i - 1].node
    BY <1>3 DEF Inherits
  <2>1. i \in 1 .. n /\ i - 1 \in 1 .. n /\ i \in 2 .. Len(stack)
    BY <1>3, <1>4
  <2> QED BY <1>3, <2>1 DEF SameBelow, SameFrame, Inherits
<1>9. Top' = stack'[n]
  BY <1>3 DEF Top
<1> QED BY <1>3, <1>4, <1>7, <1>8, <1>9 DEF n

-----------------------------------------------------------------------------
(* The registers, one action at a time.                                    *)

LEMMA SameAhead ==
  ASSUME UNCHANGED <<input, pos>>
  PROVE  Rest' = Rest /\ AtBoundary' = AtBoundary /\ KindAt(pos)' = KindAt(pos)
BY DEF Rest, AtBoundary, ProdAt, KindAt

LEMMA NoRest ==
  /\ ~AtBoundary => ~Rest
  /\ KindAt(pos) \in {"ALT", "RP", "POST", "LP"} => ~Rest
BY DEF AtBoundary, Rest, ProdAt

\* Where the current frame is.
LEMMA Place ==
  ASSUME FInv, Registers
  PROVE  LET n == Len(stack)
             g == Len(outer)
         IN  /\ n \in Nat \ {0} /\ g \in Nat /\ Top = stack[n] /\ Top.rule = RuleAt(n)
             /\ Top \in Frames /\ Inherits /\ OuterShape
             /\ Top.rule = "gbnf" <=> n = 1
             /\ Top.rule = "prod" <=> n = 2
             /\ Top.grouped => Top.rule = "atom" /\ Top.phase = "close"
             /\ SparedBelow(stack, n - 1, Undef) /\ SparedBelow(stack, n, Undef)
<1>1. /\ Len(stack) \in Nat \ {0} /\ Top = stack[Len(stack)] /\ Top.rule = RuleAt(Len(stack))
      /\ Top \in Frames
  BY TopFacts, TopFrame DEF FInv, IInv, TypeOK, StackShape, Top
<1>2. Len(outer) \in Nat /\ OuterShape /\ Inherits
  BY LenProperties DEF Registers
<1>3. /\ Top.rule = "gbnf" <=> Len(stack) = 1
      /\ Top.rule = "prod" <=> Len(stack) = 2
  <2>1. \A m \in Nat \ {0} : (RuleAt(m) = "gbnf" <=> m = 1) /\ (RuleAt(m) = "prod" <=> m = 2)
    BY NextRule
  <2> QED BY <1>1, <2>1
<1>4. SparedBelow(stack, Len(stack) - 1, Undef) /\ SparedBelow(stack, Len(stack), Undef)
  BY TopFacts, HeldLists DEF FInv, SparedBelow
<1>5. Top.grouped => Top.rule = "atom" /\ Top.phase = "close"
  BY TopFacts
<1> QED BY <1>1, <1>2, <1>3, <1>4, <1>5

LEMMA ListBuilt ==
  ASSUME FInv, Built, NEW kind \in {"prods", "alts", "seq"}, heap' = Append(heap, List(kind))
  PROVE  /\ Built' /\ \A m \in DOMAIN heap : Height'[m] = Height[m]
         /\ Untouched(heap, heap', Undef) /\ Filling(heap, Undef)
         /\ Kids(heap', Fresh) = {} /\ Members(heap', Fresh) = {}
<1>1. List(kind) \in Cells /\ List(kind).kind = kind /\ List(kind).kids = << >>
  BY FreshCells DEF CellKinds
<1>2. /\ heap'[Fresh] = List(kind) /\ Untouched(heap, heap', Undef) /\ Filling(heap, Undef)
  BY <1>1, HeapFacts, Appended
<1>3. Kids(heap', Fresh) = {}
  BY <1>1, <1>2 DEF Kids
<1>4. Members(heap', Fresh) = {}
  BY <1>3 DEF Members
<1>5. \A f : HeightOf(heap', f, Fresh) = 0
  BY <1>1, <1>2 DEF HeightOf
<1>6. Built' /\ \A m \in DOMAIN heap : Height'[m] = Height[m]
  BY <1>1, <1>5, BuiltCell
<1> QED BY <1>2, <1>3, <1>4, <1>6

\* No group is open yet.
LEMMA OpenGbnfHeights ==
  ASSUME FInv, Built, Registers, OpenGbnf, UNCHANGED registers
  PROVE  Built' /\ Registers'
<1> DEFINE f == [Top EXCEPT !.node = Fresh]
<1>1. Top.rule = "gbnf" /\ (stack' = Stay(f) \/ stack' = PushRule(f, "prod"))
      /\ heap' = Append(heap, List("prods")) /\ UNCHANGED <<nest, level, outer>>
  BY DEF OpenGbnf, At, registers
<1>2. Built'
  BY <1>1, ListBuilt
<1>3. Len(outer) = 0 /\ Top \in Frames /\ ~Top.grouped /\ Inherits
  BY <1>1, Place DEF OuterShape
<1>4. f \in Frames /\ f.rule = Top.rule /\ ~f.grouped
  BY <1>3, TopFacts DEF Frames
<1> HIDE DEF f
<1>5. Top'.rule \in {"gbnf", "prod"} /\ ~Top'.grouped /\ Inherits'
  <2>1. CASE stack' = Stay(f)
    BY <1>1, <1>3, <1>4, <2>1, StayTop DEF Frames
  <2>2. CASE stack' = PushRule(f, "prod")
    <3>1. "prod" \in Rules /\ Top.rule # "elem"
      BY <1>1 DEF Rules
    <3>2. Top' = NewFrame("prod", f.node) /\ Inherits'
      BY <1>3, <1>4, <2>2, <3>1, PushTop
    <3> QED BY <3>2 DEF NewFrame
  <2> QED BY <1>1, <2>1, <2>2
<1>6. nest' \in Nat /\ level' \in Nat /\ outer' \in Seq(Nat) /\ Len(outer') = 0
  BY <1>1, <1>3 DEF Registers
<1>7. OuterShape' /\ Reading' /\ NestKept' /\ LevelsKept'
  BY <1>5, <1>6 DEF OuterShape, Reading, NestKept, LevelsKept
<1> QED BY <1>2, <1>5, <1>6, <1>7 DEF Registers

LEMMA OpenProdHeights ==
  ASSUME FInv, Built, Registers, OpenProd, UNCHANGED registers
  PROVE  Built' /\ Registers'
<1> DEFINE f == [Top EXCEPT !.tok = pos]
<1>1. Top.rule = "prod" /\ stack' = PushRule(f, "alts")
      /\ heap' = heap /\ UNCHANGED <<nest, level, outer>>
  BY DEF OpenProd, At, registers
<1>2. Built'
  BY <1>1, BuiltSame
<1>3. Len(outer) = 0 /\ Top \in Frames /\ Inherits /\ Len(stack) = 2 /\ pos \in Nat
  BY <1>1, Place, FreshCells DEF OuterShape
<1>4. f \in Frames /\ f.rule = Top.rule
  BY <1>3 DEF Frames
<1> HIDE DEF f
<1>5. Len(stack') = 3 /\ Top' = NewFrame("alts", f.node) /\ Inherits'
  <2>1. "alts" \in Rules /\ Top.rule # "elem"
    BY <1>1 DEF Rules
  <2>2. Len(stack') = Len(stack) + 1 /\ Top' = NewFrame("alts", f.node) /\ Inherits'
    BY <1>1, <1>3, <1>4, <2>1, PushTop
  <2> QED BY <1>3, <2>2
<1>6. Top'.rule = "alts" /\ Top'.phase = "open" /\ ~Top'.grouped
  BY <1>5 DEF NewFrame
<1>7. nest' \in Nat /\ level' \in Nat /\ outer' \in Seq(Nat) /\ Len(outer') = 0
  BY <1>1, <1>3 DEF Registers
<1>8. OuterShape' /\ Reading' /\ NestKept' /\ LevelsKept'
  BY <1>5, <1>6, <1>7 DEF OuterShape, Reading, NestKept, LevelsKept
<1> QED BY <1>2, <1>5, <1>7, <1>8 DEF Registers

\* The levels of a step that touches no register.
LEMMA LevelsSame ==
  ASSUME UNCHANGED <<level, outer>>, ~Top'.grouped,
         ~Rest' => \A j \in 1 .. Len(outer) :
           4 * j + 3 <= Len(stack') => Fits(Height', Gathered(heap', stack', 4 * j + 3), LevelAt(j))
  PROVE  LevelsKept'
<1>1. \A j : LevelAt(j)' = LevelAt(j)
  BY DEF LevelAt
<1> QED BY <1>1 DEF LevelsKept

\* alts starts an array: no group below it has gathered anything else, and
\* its own group nothing yet.
LEMMA OpenAltsHeights ==
  ASSUME FInv, Built, Registers, OpenAlts, UNCHANGED registers
  PROVE  Built' /\ Registers'
<1> DEFINE f == [Top EXCEPT !.node = Fresh]
           n == Len(stack)
           g == Len(outer)
<1>1. /\ Top.rule = "alts" /\ Top.phase = "open" /\ stack' = PushRule(f, "seq")
      /\ heap' = Append(heap, List("alts")) /\ UNCHANGED <<nest, level, outer>>
      /\ UNCHANGED <<input, pos>>
  BY DEF OpenAlts, At, registers
<1>2. /\ Built' /\ \A m \in DOMAIN heap : Height'[m] = Height[m]
      /\ Untouched(heap, heap', Undef) /\ Filling(heap, Undef)
      /\ Members(heap', Fresh) = {}
  BY <1>1, ListBuilt
<1>3. /\ n \in Nat \ {0} /\ g \in Nat /\ Top = stack[n] /\ Top \in Frames /\ Inherits
      /\ SparedBelow(stack, n - 1, Undef) /\ ~Top.grouped /\ n = 4 * g + 3 /\ Fresh \in Nat
  BY <1>1, Place, TopFacts DEF OuterShape
<1>4. f \in Frames /\ f.rule = "alts" /\ f.node = Fresh
  BY <1>1, <1>3 DEF Frames
<1> HIDE DEF f
<1>5. /\ Len(stack') = n + 1 /\ SameBelow(stack, stack', n - 1)
      /\ stack'[n] = [f EXCEPT !.phase = "close"]
      /\ Top' = NewFrame("seq", Fresh) /\ Top' = stack'[n + 1] /\ Inherits'
  <2>1. "seq" \in Rules /\ Top.rule # "elem"
    BY <1>1 DEF Rules
  <2> QED BY <1>1, <1>3, <1>4, <2>1, PushTop
<1>6. /\ stack'[n].phase = "close" /\ stack'[n].node = Fresh
      /\ Top'.rule = "seq" /\ Top'.phase = "open" /\ ~Top'.grouped
  BY <1>4, <1>5 DEF NewFrame, Frames
<1>7. nest' \in Nat /\ level' \in Nat /\ outer' \in Seq(Nat) /\ outer' = outer
  BY <1>1 DEF Registers
<1>8. OuterShape' /\ Reading' /\ NestKept'
  BY <1>3, <1>5, <1>6, <1>7 DEF OuterShape, Reading, NestKept
<1>9. ASSUME ~Rest', NEW j \in 1 .. g
      PROVE  Fits(Height', Gathered(heap', stack', 4 * j + 3), LevelAt(j))
  <2>1. ~Rest
    BY <1>1, <1>9, SameAhead
  <2>2. CASE j = g
    <3>1. Fits(Height, Gathered(heap, stack, n), level)
      BY <1>3, <2>1, <2>2 DEF Registers, LevelsKept, LevelAt
    <3>2. Gathered(heap, stack, n) = {}
      BY <1>1, <1>3 DEF Gathered
    <3>3. Gathered(heap', stack', n) = {}
      BY <1>2, <1>3, <1>5, <1>6 DEF Gathered
    <3>4. Fits(Height', Gathered(heap', stack', n), level)
      BY <3>1, <3>2, <3>3, FitsOn
    <3> QED BY <1>3, <2>2, <3>4 DEF LevelAt
  <2>3. CASE j # g
    <3>1. 4 * j + 4 <= n - 1 /\ n - 1 \in Nat /\ n - 1 <= n /\ n - 1 <= Len(stack')
      BY <1>3, <1>5, <2>3
    <3> QED BY <1>2, <1>3, <1>5, <2>1, <3>1, LevelsUnder
  <2> QED BY <2>2, <2>3
<1>10. LevelsKept'
  BY <1>1, <1>6, <1>9, LevelsSame
<1> QED BY <1>2, <1>5, <1>7, <1>8, <1>10 DEF Registers

\* seq starts an array: an empty one adds nothing to what its group holds.
LEMMA OpenSeqHeights ==
  ASSUME FInv, Built, Registers, OpenSeq, UNCHANGED registers
  PROVE  Built' /\ Registers'
<1> DEFINE f == [Top EXCEPT !.node = Fresh]
           n == Len(stack)
           g == Len(outer)
<1>1. /\ Top.rule = "seq" /\ Top.phase = "open"
      /\ \/ stack' = Stay(f)
         \/ stack' = PushRule(f, "elem") /\ ~AtBoundary
      /\ heap' = Append(heap, List("seq")) /\ UNCHANGED <<nest, level, outer>>
      /\ UNCHANGED <<input, pos>>
  BY DEF OpenSeq, At, registers
<1>2. /\ Built' /\ \A m \in DOMAIN heap : Height'[m] = Height[m]
      /\ Untouched(heap, heap', Undef) /\ Filling(heap, Undef)
      /\ Kids(heap', Fresh) = {}
  BY <1>1, ListBuilt
<1>3. /\ n \in Nat \ {0} /\ g \in Nat /\ Top = stack[n] /\ Top \in Frames /\ Inherits
      /\ SparedBelow(stack, n - 1, Undef) /\ ~Top.grouped /\ n = 4 * g + 4 /\ Fresh \in Nat
  BY <1>1, Place, TopFacts DEF OuterShape
<1>4. f \in Frames /\ f.rule = "seq" /\ f.node = Fresh /\ ~f.grouped
  BY <1>1, <1>3 DEF Frames
<1> HIDE DEF f
<1>5. /\ Len(stack') \in {n, n + 1} /\ SameBelow(stack, stack', n - 1)
      /\ stack'[n] = [f EXCEPT !.phase = "close"] /\ Inherits'
      /\ ~Top'.grouped
      /\ \/ Top'.rule = "seq" /\ Len(stack') = n
         \/ Top'.rule = "elem" /\ Top'.phase = "open" /\ Len(stack') = n + 1 /\ ~AtBoundary
  <2>1. CASE stack' = Stay(f)
    BY <1>1, <1>3, <1>4, <2>1, StayTop DEF Frames
  <2>2. CASE stack' = PushRule(f, "elem") /\ ~AtBoundary
    <3>1. "elem" \in Rules /\ Top.rule # "elem"
      BY <1>1 DEF Rules
    <3>2. /\ Len(stack') = n + 1 /\ SameBelow(stack, stack', n - 1)
          /\ stack'[n] = [f EXCEPT !.phase = "close"] /\ Inherits'
          /\ Top' = NewFrame("elem", f.node)
      BY <1>1, <1>3, <1>4, <2>2, <3>1, PushTop
    <3> QED BY <2>2, <3>2 DEF NewFrame
  <2> QED BY <1>1, <2>1, <2>2
<1>6. stack'[n].phase = "close" /\ stack'[n].node = Fresh
  BY <1>4, <1>5 DEF Frames
<1>7. nest' \in Nat /\ level' \in Nat /\ outer' \in Seq(Nat) /\ outer' = outer
  BY <1>1 DEF Registers
<1>8. OuterShape' /\ Reading' /\ NestKept'
  BY <1>1, <1>3, <1>5, <1>6, <1>7, SameAhead DEF OuterShape, Reading, NestKept
<1>9. ASSUME ~Rest', NEW j \in 1 .. g
      PROVE  Fits(Height', Gathered(heap', stack', 4 * j + 3), LevelAt(j))
  <2>1. ~Rest
    BY <1>1, <1>9, SameAhead
  <2>2. CASE j = g
    <3> DEFINE i == 4 * j + 3
    <3>1. /\ i \in 1 .. n - 1 /\ i + 1 = n /\ i \in 1 .. n /\ i # n /\ i # Len(stack')
          /\ i + 1 <= Len(stack') /\ i < n /\ i <= n
      BY <1>3, <1>5, <2>2
    <3>2. Fits(Height, Gathered(heap, stack, i), LevelAt(j))
      BY <1>3, <2>1, <3>1 DEF Registers, LevelsKept
    <3>3. stack[i].rule = "alts" /\ stack[i].phase = "close" /\ stack[i].node \in DOMAIN heap
      BY <1>3, <3>1, FrameRule, LevelRules DEF Owners
    <3> HIDE DEF i
    <3>4. stack'[i].phase = "close" /\ stack'[i].node = stack[i].node
      BY <1>5, <3>1, <3>3 DEF SameBelow, SameFrame
    <3>5. /\ Members(heap', stack[i].node) = Members(heap, stack[i].node)
          /\ Members(heap, stack[i].node) \subseteq DOMAIN heap
      BY <1>2, <3>3, KidsKept, KidsIn, HeapFacts
    <3>6. Gathered(heap, stack, i) = Members(heap, stack[i].node)
      BY <1>1, <1>3, <3>1, <3>3 DEF Gathered
    <3>7. Gathered(heap', stack', i) = Members(heap, stack[i].node)
      BY <1>2, <1>6, <3>1, <3>4, <3>5 DEF Gathered
    <3>8. Fits(Height', Gathered(heap', stack', i), LevelAt(j))
      BY <1>2, <3>2, <3>5, <3>6, <3>7, FitsOn
    <3> QED BY <3>8 DEF i
  <2>3. CASE j # g
    <3>1. 4 * j + 4 <= n - 1 /\ n - 1 \in Nat /\ n - 1 <= n /\ n - 1 <= Len(stack')
      BY <1>3, <1>5, <2>3
    <3> QED BY <1>2, <1>3, <1>5, <2>1, <3>1, LevelsUnder
  <2> QED BY <2>2, <2>3
<1>10. LevelsKept'
  BY <1>1, <1>5, <1>9, LevelsSame
<1> QED BY <1>2, <1>5, <1>7, <1>8, <1>10 DEF Registers

LEMMA SameHeap ==
  ASSUME FInv, Built, heap' = heap
  PROVE  /\ Built' /\ Height' = Height /\ \A m \in DOMAIN heap : Height'[m] = Height[m]
         /\ Untouched(heap, heap', Undef) /\ Filling(heap, Undef)
<1>1. Built' /\ Height' = Height
  BY BuiltSame
<1>2. Filling(heap, Undef)
  BY HeapFacts
<1> QED BY <1>1, <1>2 DEF Untouched

\* A step that leaves the frames below the top of a sequence alone.
LEMMA LevelsAbove ==
  ASSUME FInv, Registers, UNCHANGED <<level, outer>>, ~Top'.grouped, Rest => Rest',
         NEW m \in Nat, m <= Len(stack), m <= Len(stack'), SameBelow(stack, stack', m),
         4 * Len(outer) + 4 <= m,
         Untouched(heap, heap', Undef), Filling(heap, Undef), SparedBelow(stack, m, Undef),
         \A x \in DOMAIN heap : Height'[x] = Height[x]
  PROVE  LevelsKept'
<1>1. Len(outer) \in Nat
  BY Place
<1>2. \A j \in 1 .. Len(outer) : 4 * j + 4 <= m
  BY <1>1
<1>3. ~Rest' => \A j \in 1 .. Len(outer) :
        Fits(Height', Gathered(heap', stack', 4 * j + 3), LevelAt(j))
  BY <1>2, LevelsUnder
<1> QED BY <1>3, LevelsSame

LEMMA OpenElemHeights ==
  ASSUME FInv, Built, Registers, OpenElem, UNCHANGED registers
  PROVE  Built' /\ Registers'
<1> DEFINE n == Len(stack)
           g == Len(outer)
<1>1. /\ Top.rule = "elem" /\ Top.phase = "open" /\ stack' = PushRule(Top, "atom")
      /\ heap' = heap /\ UNCHANGED <<nest, level, outer>> /\ UNCHANGED <<input, pos>>
  BY DEF OpenElem, At, registers
<1>2. /\ Built' /\ \A m \in DOMAIN heap : Height'[m] = Height[m]
      /\ Untouched(heap, heap', Undef) /\ Filling(heap, Undef)
  BY <1>1, SameHeap
<1>3. /\ n \in Nat \ {0} /\ g \in Nat /\ Top \in Frames /\ Inherits
      /\ SparedBelow(stack, n - 1, Undef) /\ n = 4 * g + 5
  BY <1>1, Place DEF OuterShape
<1>5. /\ Len(stack') = n + 1 /\ SameBelow(stack, stack', n - 1)
      /\ Top' = NewFrame("atom", Top.node) /\ Inherits'
  <2>1. "atom" \in Rules
    BY DEF Rules
  <2> QED BY <1>1, <1>3, <2>1, PushTop
<1>6. Top'.rule = "atom" /\ Top'.phase = "open" /\ ~Top'.grouped
  BY <1>5 DEF NewFrame
<1>7. nest' \in Nat /\ level' \in Nat /\ outer' \in Seq(Nat) /\ outer' = outer
  BY <1>1 DEF Registers
<1>8. OuterShape' /\ NestKept'
  BY <1>3, <1>5, <1>6, <1>7 DEF OuterShape, NestKept
<1>9. Reading'
  BY <1>1, <1>6, SameAhead DEF Registers, Reading
<1>10. LevelsKept'
  <2>1. n - 1 \in Nat /\ n - 1 <= Len(stack) /\ n - 1 <= Len(stack') /\ 4 * g + 4 <= n - 1
    BY <1>3, <1>5
  <2> QED BY <1>1, <1>2, <1>3, <1>5, <1>6, <2>1, SameAhead, LevelsAbove
<1> QED BY <1>2, <1>5, <1>7, <1>8, <1>9, <1>10 DEF Registers

\* A plain atom nests one deep, and leaves its group's level to elem.
LEMMA RustAtomHeights ==
  ASSUME FInv, Built, Registers, RustAtom
  PROVE  Built' /\ Registers'
<1> DEFINE n == Len(stack)
           g == Len(outer)
           c == Node("term", pos, pos, 0, << >>)
<1>1. /\ Top.rule = "atom" /\ Top.phase = "open" /\ nest' = 1 /\ UNCHANGED <<level, outer>>
      /\ \/ heap' = heap
         \/ heap' = Append(heap, c)
      /\ \/ stack' = Stay([Top EXCEPT !.node = Fresh])
         \/ stack' = Stay([Top EXCEPT !.node = Undef])
  BY RustDefersAssumption DEF RustAtom, AtomTerm, AtomEmpty, AtomBad, At
<1>2. /\ Built' /\ \A m \in DOMAIN heap : Height'[m] = Height[m]
      /\ Untouched(heap, heap', Undef) /\ Filling(heap, Undef)
  <2>1. CASE heap' = heap
    BY <2>1, SameHeap
  <2>2. CASE heap' = Append(heap, c)
    <3>1. << >> \in Seq(Nat) /\ 0 \in Nat /\ "term" \in CellKinds /\ pos \in Nat
      BY FreshCells DEF CellKinds
    <3>2. c \in Cells /\ c.kind = "term"
      <4>1. c \in Cells
        BY <3>1, MadeNode
      <4> QED BY <4>1 DEF Node
    <3> HIDE DEF c
    <3>3. heap'[Fresh] = c /\ Untouched(heap, heap', Undef) /\ Filling(heap, Undef)
      BY <2>2, <3>2, HeapFacts, Appended
    <3>4. \A f : HeightOf(heap', f, Fresh) = 1
      BY <3>2, <3>3 DEF HeightOf
    <3>5. 1 \in Nat /\ 1 <= MaxNestDepth
      BY DepthAssumption
    <3>6. Built' /\ \A m \in DOMAIN heap : Height'[m] = Height[m]
      BY <2>2, <3>2, <3>4, <3>5, BuiltCell
    <3> QED BY <3>3, <3>6
  <2> QED BY <1>1, <2>1, <2>2
<1>3. /\ n \in Nat \ {0} /\ g \in Nat /\ Top \in Frames /\ Inherits /\ Fresh \in Nat
      /\ SparedBelow(stack, n - 1, Undef) /\ ~Top.grouped /\ n = 4 * g + 6
  BY <1>1, Place, TopFacts DEF OuterShape
<1>4. PICK node \in Nat : stack' = Stay([Top EXCEPT !.node = node])
  BY <1>1, <1>3 DEF Undef
<1> DEFINE f == [Top EXCEPT !.node = node]
<1>5. f \in Frames /\ f.rule = "atom" /\ ~f.grouped
  BY <1>1, <1>3 DEF Frames
<1> HIDE DEF f
<1>6. /\ Len(stack') = n /\ SameBelow(stack, stack', n - 1)
      /\ Top' = [f EXCEPT !.phase = "close"] /\ Inherits'
  <2>1. stack' = Stay(f)
    BY <1>4 DEF f
  <2> QED BY <1>1, <1>3, <1>5, <2>1, StayTop
<1>7. Top'.rule = "atom" /\ Top'.phase = "close" /\ ~Top'.grouped
  BY <1>5, <1>6 DEF Frames
<1>8. nest' \in Nat /\ level' \in Nat /\ outer' \in Seq(Nat) /\ outer' = outer
  BY <1>1 DEF Registers
<1>9. OuterShape' /\ Reading' /\ NestKept'
  BY <1>1, <1>3, <1>6, <1>7, <1>8 DEF OuterShape, Reading, NestKept
<1>10. ~Rest
  BY <1>1, NoRest DEF Registers, Reading
<1>11. LevelsKept'
  <2>1. n - 1 \in Nat /\ n - 1 <= Len(stack) /\ n - 1 <= Len(stack') /\ 4 * g + 4 <= n - 1
    BY <1>3, <1>6
  <2> QED BY <1>1, <1>2, <1>3, <1>6, <1>7, <1>10, <2>1, LevelsAbove
<1> QED BY <1>2, <1>6, <1>8, <1>9, <1>11 DEF Registers

\* A group saves the level around it, and starts its own from nothing.
LEMMA RustAtomGroupHeights ==
  ASSUME FInv, Built, Registers, RustAtomGroup
  PROVE  Built' /\ Registers'
<1> DEFINE f == [Top EXCEPT !.node = Undef, !.tok = pos, !.grouped = TRUE]
           n == Len(stack)
           g == Len(outer)
<1>1. /\ Top.rule = "atom" /\ Top.phase = "open" /\ stack' = PushRule(f, "alts")
      /\ heap' = heap /\ nest' = 1 /\ level' = 0 /\ outer' = Append(outer, level)
  BY DEF RustAtomGroup, AtomGroup, At
<1>2. /\ Built' /\ \A m \in DOMAIN heap : Height'[m] = Height[m]
      /\ Untouched(heap, heap', Undef) /\ Filling(heap, Undef)
  BY <1>1, SameHeap
<1>3. /\ n \in Nat \ {0} /\ g \in Nat /\ Top \in Frames /\ Inherits /\ pos \in Nat
      /\ SparedBelow(stack, n - 1, Undef) /\ ~Top.grouped /\ n = 4 * g + 6
  BY <1>1, Place, FreshCells DEF OuterShape
<1>4. f \in Frames /\ f.rule = "atom"
  BY <1>1, <1>3 DEF Frames, Undef
<1> HIDE DEF f
<1>5. /\ Len(stack') = n + 1 /\ SameBelow(stack, stack', n - 1)
      /\ Top' = NewFrame("alts", f.node) /\ Top' = stack'[n + 1] /\ Inherits'
  <2>1. "alts" \in Rules /\ Top.rule # "elem"
    BY <1>1 DEF Rules
  <2> QED BY <1>1, <1>3, <1>4, <2>1, PushTop
<1>6. Top'.rule = "alts" /\ Top'.phase = "open" /\ ~Top'.grouped
  BY <1>5 DEF NewFrame
<1>7. /\ outer \in Seq(Nat) /\ level \in Nat
      /\ outer' \in Seq(Nat) /\ Len(outer') = g + 1 /\ outer'[g + 1] = level
      /\ \A j \in 1 .. g : outer'[j] = outer[j]
  <2>1. outer \in Seq(Nat) /\ level \in Nat
    BY DEF Registers
  <2> QED BY <1>1, <2>1, AppendProperties
<1>8. OuterShape' /\ Reading' /\ NestKept'
  BY <1>3, <1>5, <1>6, <1>7 DEF OuterShape, Reading, NestKept
<1>9. ~Rest
  BY <1>1, NoRest DEF Registers, Reading
<1>10. LevelsKept'
  <2>1. ASSUME NEW j \in 1 .. g + 1
        PROVE  Fits(Height', Gathered(heap', stack', 4 * j + 3), LevelAt(j)')
    <3>1. CASE j = g + 1
      <4>1. Gathered(heap', stack', n + 1) = {}
        BY <1>3, <1>5, <1>6 DEF Gathered
      <4>2. 4 * j + 3 = n + 1 /\ LevelAt(j)' = 0
        BY <1>1, <1>3, <1>7, <3>1 DEF LevelAt
      <4> QED BY <4>1, <4>2, FitsNone
    <3>2. CASE j # g + 1
      <4>1. j \in 1 .. g /\ j + 1 \in 1 .. g + 1 /\ 4 * j + 4 <= n - 1 /\ n - 1 \in Nat
            /\ n - 1 <= n /\ n - 1 <= Len(stack')
        BY <1>3, <1>5, <3>2
      <4>2. LevelAt(j)' = LevelAt(j)
        <5>1. LevelAt(j)' = outer'[j + 1]
          BY <1>7, <3>2 DEF LevelAt
        <5>2. CASE j = g
          BY <1>7, <5>1, <5>2 DEF LevelAt
        <5>3. CASE j # g
          <6>1. j + 1 \in 1 .. g
            BY <1>3, <4>1, <5>3
          <6> QED BY <1>7, <5>1, <5>3, <6>1 DEF LevelAt
        <5> QED BY <5>2, <5>3
      <4> QED BY <1>2, <1>3, <1>5, <1>9, <4>1, <4>2, LevelsUnder
    <3> QED BY <3>1, <3>2
  <2> QED BY <1>6, <1>7, <2>1 DEF LevelsKept
<1> QED BY <1>1, <1>2, <1>5, <1>7, <1>8, <1>10 DEF Registers

\* What has been gathered under a list is gathered under another cell too.
LEMMA MembersPushed ==
  ASSUME FInv, NEW list \in DOMAIN heap, NEW r \in DOMAIN heap, r # list,
         Untouched(heap, heap', list), Filling(heap, list),
         Kids(heap', list) = Kids(heap, list) \cup {r}
  PROVE  /\ Members(heap', list) = Members(heap, list) \cup Kids(heap, r)
         /\ Members(heap, list) \cup Kids(heap, r) \subseteq DOMAIN heap
<1>1. Tidy(heap)
  BY DEF FInv
<1>2. /\ Kids(heap, list) \subseteq DOMAIN heap /\ list \notin Kids(heap, list)
      /\ Members(heap, list) \subseteq DOMAIN heap /\ Kids(heap, r) \subseteq DOMAIN heap
  BY <1>1, KidsIn DEF Filling
<1>3. \A q \in Kids(heap, list) \cup {r} : Kids(heap', q) = Kids(heap, q)
  <2>1. \A q \in DOMAIN heap : q # list => Kids(heap', q) = Kids(heap, q)
    BY <1>1, KidsKept
  <2> QED BY <1>2, <2>1
<1>4. Members(heap', list) = Members(heap, list) \cup Kids(heap, r)
  BY <1>3 DEF Members
<1> QED BY <1>2, <1>4

LEMMA CloseSeqHeights ==
  ASSUME FInv, Built, Registers, CloseSeq, UNCHANGED registers
  PROVE  Built' /\ Registers'
<1> DEFINE n == Len(stack)
           g == Len(outer)
<1>1. /\ Top.rule = "seq" /\ Top.phase = "close"
      /\ \/ stack' = PopRule(Top.node) /\ AtBoundary
         \/ stack' = PushRule(Top, "elem") /\ ~AtBoundary
      /\ heap' = heap /\ UNCHANGED <<nest, level, outer>> /\ UNCHANGED <<input, pos>>
  BY DEF CloseSeq, At, registers
<1>2. /\ Built' /\ \A m \in DOMAIN heap : Height'[m] = Height[m]
      /\ Untouched(heap, heap', Undef) /\ Filling(heap, Undef) /\ Height' = Height
  BY <1>1, SameHeap
<1>3. /\ n \in Nat \ {0} /\ g \in Nat /\ Top = stack[n] /\ Top \in Frames /\ Inherits
      /\ SparedBelow(stack, n - 1, Undef) /\ SparedBelow(stack, n, Undef)
      /\ ~Top.grouped /\ n = 4 * g + 4 /\ Top.node \in Nat
  BY <1>1, Place, TopFacts DEF OuterShape
<1>4. nest' \in Nat /\ level' \in Nat /\ outer' \in Seq(Nat) /\ outer' = outer
  BY <1>1 DEF Registers
<1>5. CASE stack' = PushRule(Top, "elem") /\ ~AtBoundary
  <2>1. /\ Len(stack') = n + 1 /\ SameBelow(stack, stack', n - 1)
        /\ stack'[n] = [Top EXCEPT !.phase = "close"] /\ Inherits'
        /\ Top' = NewFrame("elem", Top.node)
    <3>1. "elem" \in Rules
      BY DEF Rules
    <3> QED BY <1>1, <1>3, <1>5, <3>1, PushTop
  <2>2. Top'.rule = "elem" /\ Top'.phase = "open" /\ ~Top'.grouped
    BY <2>1 DEF NewFrame
  <2>3. SameFrame(stack[n], stack'[n])
    BY <1>1, <1>3, <2>1 DEF Frames, SameFrame
  <2>4. SameBelow(stack, stack', n)
    <3>1. \A i \in 1 .. n : i \in 1 .. n - 1 \/ i = n
      BY <1>3
    <3> QED BY <2>1, <2>3, <3>1 DEF SameBelow
  <2>5. OuterShape' /\ Reading' /\ NestKept'
    BY <1>1, <1>3, <1>4, <1>5, <2>1, <2>2, SameAhead DEF OuterShape, Reading, NestKept
  <2>6. LevelsKept'
    <3>1. n \in Nat /\ n <= Len(stack) /\ n <= Len(stack') /\ 4 * g + 4 <= n
      BY <1>3, <2>1
    <3> QED BY <1>1, <1>2, <1>3, <2>2, <2>4, <3>1, SameAhead, LevelsAbove
  <2> QED BY <1>2, <1>4, <2>1, <2>5, <2>6 DEF Registers
<1>6. CASE stack' = PopRule(Top.node) /\ AtBoundary
  <2> DEFINE i == n - 1
  <2>1. /\ Len(stack') = i /\ SameBelow(stack, stack', i) /\ i \in Nat \ {0} /\ Inherits'
        /\ Top' = stack'[i] /\ Top'.child = Top.node /\ Top'.rule = RuleAt(i)
        /\ Top'.phase = "close" /\ Top'.node = stack[i].node
        /\ Top'.grouped <=> RuleAt(i) = "atom"
    BY <1>1, <1>3, <1>6, PopTop
  <2>2. /\ i = 4 * g + 3 /\ i \in 1 .. n /\ i + 1 = n /\ i < n /\ i \in 1 .. i /\ i # n
        /\ i <= n /\ ~(i + 1 <= i)
    BY <1>3, <2>1
  <2> HIDE DEF i
  <2>3. Top'.rule = "alts" /\ ~Top'.grouped
    BY <1>3, <2>1, <2>2, LevelRules
  <2>4. OuterShape' /\ Reading' /\ NestKept'
    BY <1>1, <1>3, <1>4, <1>6, <2>1, <2>2, <2>3, SameAhead DEF OuterShape, Reading, NestKept
  <2>5. Gathered(heap', stack', i) = Gathered(heap, stack, i)
    <3>1. stack[i].phase = "close"
      BY <2>2, FrameRule
    <3>2. Gathered(heap, stack, i) = Members(heap, stack[i].node) \cup Kids(heap, Top.node)
      BY <1>1, <1>3, <2>2, <3>1 DEF Gathered
    <3>3. Gathered(heap', stack', i) = Members(heap, stack[i].node) \cup Kids(heap, Top.node)
      BY <1>1, <2>1, <2>2 DEF Gathered
    <3> QED BY <3>2, <3>3
  <2>6. ASSUME ~Rest', NEW j \in 1 .. g
        PROVE  Fits(Height', Gathered(heap', stack', 4 * j + 3), LevelAt(j))
    <3>1. ~Rest
      BY <1>1, <2>6, SameAhead
    <3>2. CASE j = g
      <4>1. Fits(Height, Gathered(heap, stack, i), LevelAt(j))
        BY <1>3, <2>2, <3>1, <3>2 DEF Registers, LevelsKept
      <4> QED BY <1>2, <2>2, <2>5, <3>2, <4>1
    <3>3. CASE j # g
      <4>1. 4 * j + 4 <= i /\ i <= Len(stack')
        BY <1>3, <2>1, <2>2, <3>3
      <4> QED BY <1>2, <1>3, <2>1, <2>2, <3>1, <4>1, LevelsUnder DEF i
    <3> QED BY <3>2, <3>3
  <2>7. LevelsKept'
    BY <1>1, <2>3, <2>6, LevelsSame
  <2> QED BY <1>2, <1>4, <2>1, <2>4, <2>7 DEF Registers
<1> QED BY <1>1, <1>5, <1>6

\* alts takes what its sequence has gathered: the level stays true of them
\* all, for the next alternative or for the group that is about to close.
LEMMA CloseAltsHeights ==
  ASSUME FInv, Built, Registers, CloseAlts, UNCHANGED registers
  PROVE  Built' /\ Registers'
<1> DEFINE n == Len(stack)
           g == Len(outer)
           list == Top.node
           r == Top.child
<1>1. /\ Top.rule = "alts" /\ Top.phase = "close"
      /\ UNCHANGED <<nest, level, outer>> /\ UNCHANGED input
      /\ \/ stack' = PushRule(Top, "seq") /\ KindAt(pos) = "ALT"
         \/ stack' = PopRule(list) /\ KindAt(pos) # "ALT" /\ pos' = pos
  BY DEF CloseAlts, At, registers
<1>2. /\ n \in Nat \ {0} /\ g \in Nat /\ Top = stack[n] /\ Top \in Frames /\ Inherits
      /\ ~Top.grouped /\ n = 4 * g + 3 /\ list \in Nat /\ r \in Nat
  BY <1>1, Place, TopFacts DEF OuterShape
<1>3. /\ Free(heap, list) /\ heap[list].kind = "alts" /\ list \in DOMAIN heap
      /\ \A j \in 1 .. n - 1 : stack[j].rule \in Owners => stack[j].node < list
  BY <1>1, TopFacts DEF TopHolds, Owners, Free
<1>4. Handed(heap, stack, n, r, {"seq"})
  BY <1>1, ChildFacts
<1>5. r \in DOMAIN heap /\ heap[r].kind = "seq" /\ r # Undef
  BY <1>2, <1>4, HandedSpares
<1>6. heap' = PushNode(heap, list, r) /\ r # list
  BY <1>3, <1>5 DEF CloseAlts, PushChild
<1>7. Filling(heap, list)
  BY <1>3 DEF Filling
<1>8. /\ Built' /\ \A m \in DOMAIN heap : Height'[m] = Height[m]
      /\ Untouched(heap, heap', list) /\ Kids(heap', list) = Kids(heap, list) \cup {r}
  BY <1>2, <1>3, <1>6, <1>7, BuiltPush
<1>9. /\ Members(heap', list) = Members(heap, list) \cup Kids(heap, r)
      /\ Members(heap, list) \cup Kids(heap, r) \subseteq DOMAIN heap
  BY <1>3, <1>5, <1>6, <1>7, <1>8, MembersPushed
<1>10. SparedBelow(stack, n - 1, list)
  <2>1. \A j \in 1 .. n - 1 : stack[j] \in Frames
    BY <1>2, FrameRule
  <2>2. \A j \in 1 .. n - 1 : stack[j].node \in Nat
    BY <2>1 DEF Frames
  <2> QED BY <1>2, <1>3, <2>2 DEF SparedBelow
<1>11. nest' \in Nat /\ level' \in Nat /\ outer' \in Seq(Nat) /\ outer' = outer
  BY <1>1 DEF Registers
<1>12. \A j \in 1 .. g : j = g \/ 4 * j + 4 <= n - 1
  BY <1>2
<1>13. g > 0 /\ ~Rest => Fits(Height', Members(heap', list), level)
  <2> SUFFICES ASSUME g > 0, ~Rest PROVE Fits(Height', Members(heap', list), level)
    OBVIOUS
  <2>1. g \in 1 .. Len(outer) /\ 4 * g + 3 <= Len(stack) /\ LevelAt(g) = level
    BY <1>2 DEF LevelAt
  <2>2. Fits(Height, Gathered(heap, stack, 4 * g + 3), level)
    BY <2>1 DEF Registers, LevelsKept
  <2>3. Gathered(heap, stack, n) = Members(heap, list) \cup Kids(heap, r)
    BY <1>1, <1>2 DEF Gathered
  <2>4. \A m \in Gathered(heap, stack, n) : Height'[m] = Height[m]
    BY <1>8, <1>9, <2>3
  <2>5. Fits(Height', Gathered(heap, stack, n), level)
    BY <1>2, <2>2, <2>4, FitsOn
  <2> QED BY <1>9, <2>3, <2>5
<1>14. CASE stack' = PushRule(Top, "seq") /\ KindAt(pos) = "ALT"
  <2>1. /\ Len(stack') = n + 1 /\ SameBelow(stack, stack', n - 1)
        /\ stack'[n] = [Top EXCEPT !.phase = "close"] /\ Inherits'
        /\ Top' = NewFrame("seq", list) /\ Top' = stack'[n + 1]
    <3>1. "seq" \in Rules
      BY DEF Rules
    <3> QED BY <1>1, <1>2, <1>14, <3>1, PushTop
  <2>2. /\ Top'.rule = "seq" /\ Top'.phase = "open" /\ ~Top'.grouped
        /\ stack'[n].phase = "close" /\ stack'[n].node = list
    BY <1>2, <2>1 DEF NewFrame, Frames
  <2>3. OuterShape' /\ Reading' /\ NestKept'
    BY <1>2, <1>11, <2>1, <2>2 DEF OuterShape, Reading, NestKept
  <2>4. ~Rest
    BY <1>14, NoRest
  <2>5. Gathered(heap', stack', n) = Members(heap', list)
    BY <1>2, <2>1, <2>2 DEF Gathered
  <2>6. ASSUME NEW j \in 1 .. g
        PROVE  Fits(Height', Gathered(heap', stack', 4 * j + 3), LevelAt(j))
    <3>1. CASE j = g
      BY <1>2, <1>13, <2>4, <2>5, <3>1 DEF LevelAt
    <3>2. CASE j # g
      <4>1. 4 * j + 4 <= n - 1 /\ n - 1 \in Nat /\ n - 1 <= n /\ n - 1 <= Len(stack')
        BY <1>2, <1>12, <2>1, <3>2
      <4> QED BY <1>7, <1>8, <1>10, <2>1, <2>4, <4>1, LevelsUnder
    <3> QED BY <3>1, <3>2
  <2>7. LevelsKept'
    BY <1>1, <2>2, <2>6, LevelsSame
  <2> QED BY <1>8, <1>11, <2>1, <2>3, <2>7 DEF Registers
<1>15. CASE stack' = PopRule(list) /\ KindAt(pos) # "ALT" /\ pos' = pos
  <2> DEFINE i == n - 1
  <2>1. /\ Len(stack') = i /\ SameBelow(stack, stack', i) /\ i \in Nat \ {0} /\ Inherits'
        /\ Top'.child = list /\ Top'.rule = RuleAt(i) /\ Top'.phase = "close"
        /\ Top'.grouped <=> RuleAt(i) = "atom"
    BY <1>1, <1>2, <1>15, PopTop
  <2>2. /\ i = 4 * g + 2 /\ i <= n /\ i + 1 = n /\ (g = 0 <=> i = 2)
    BY <1>2
  <2> HIDE DEF i
  <2>3. Top'.rule \in {"prod", "atom"} /\ (Top'.rule = "prod" <=> g = 0)
    <3>1. RuleAt(i) \in {"prod", "atom"}
      BY <1>1, <1>2, <2>1, <2>2, Place, PrevRule
    <3>2. RuleAt(i) = "prod" <=> i = 2
      BY <2>1, NextRule
    <3> QED BY <2>1, <2>2, <3>1, <3>2
  <2>4. OuterShape' /\ NestKept'
    BY <1>2, <1>11, <2>1, <2>2, <2>3 DEF OuterShape, NestKept
  <2>5. AtBoundary
    BY <1>1 DEF Registers, Reading
  <2>6. Reading'
    <3>1. AtBoundary' /\ KindAt(pos)' # "ALT"
      BY <1>1, <1>15, <2>5, SameAhead
    <3>2. Top'.rule # "alts" /\ Top'.phase = "close"
      BY <2>1, <2>3
    <3> QED BY <3>1, <3>2 DEF Reading
  <2>7. ASSUME ~Rest', NEW j \in 1 .. g, 4 * j + 3 <= Len(stack')
        PROVE  Fits(Height', Gathered(heap', stack', 4 * j + 3), LevelAt(j))
    <3>1. ~Rest /\ 4 * j + 4 <= i /\ i <= Len(stack')
      BY <1>1, <1>2, <1>12, <1>15, <2>1, <2>2, <2>7, SameAhead
    <3> QED BY <1>7, <1>8, <1>10, <2>1, <2>2, <3>1, LevelsUnder DEF i
  <2>8. ASSUME ~Rest', Top'.grouped PROVE Fits(Height', Members(heap', Top'.child), level')
    <3>1. ~Rest /\ g > 0
      BY <1>1, <1>2, <1>15, <2>1, <2>3, <2>8, SameAhead
    <3> QED BY <1>1, <1>13, <2>1, <3>1
  <2>9. \A j : LevelAt(j)' = LevelAt(j)
    BY <1>1 DEF LevelAt
  <2>10. LevelsKept'
    BY <1>11, <2>7, <2>8, <2>9 DEF LevelsKept
  <2> QED BY <1>8, <1>11, <2>1, <2>4, <2>6, <2>10 DEF Registers
<1> QED BY <1>1, <1>14, <1>15

LEMMA PushedNew ==
  ASSUME FInv, NEW c \in Cells, NEW list \in DOMAIN heap,
         heap' = PushNode(Append(heap, c), list, Fresh)
  PROVE  heap'[Fresh] = c /\ Fresh \in DOMAIN heap'
<1> DEFINE k == Append(heap, c)
<1>1. /\ k[Fresh] = c /\ list \in DOMAIN k /\ k \in Seq(Cells) /\ Fresh \in Nat
      /\ Fresh \in DOMAIN k /\ Fresh \notin DOMAIN heap
  BY HeapFacts, Appended, AppendProperties
<1>2. heap' = PushNode(k, list, Fresh)
  OBVIOUS
<1> HIDE DEF k
<1>3. Untouched(k, heap', list)
  BY <1>1, <1>2, PushedList
<1> QED BY <1>1, <1>3 DEF Untouched

\* Outside every group, a production adds one cell without a height.
LEMMA CloseProdHeights ==
  ASSUME FInv, Built, Registers, CloseProd, UNCHANGED registers
  PROVE  Built' /\ Registers'
<1> DEFINE n == Len(stack)
           list == Top.node
           r == Top.child
           c == Node("prod", Top.tok, Top.tok, 0, <<r>>)
<1>1. /\ Top.rule = "prod" /\ Top.phase = "close"
      /\ UNCHANGED <<nest, level, outer>>
      /\ \/ stack' = [stack EXCEPT ![n] = NewFrame("prod", list)]
         \/ stack' = PopRule(list)
  BY DEF CloseProd, At, registers
<1>2. /\ n = 2 /\ Len(outer) = 0 /\ Top \in Frames /\ Inherits
      /\ list \in Nat /\ r \in Nat /\ Top.tok \in Nat /\ stack \in Seq(Frames)
  BY <1>1, Place, TopFacts DEF OuterShape, FInv, IInv, TypeOK
<1>3. list \in DOMAIN heap /\ heap[list].kind = "prods" /\ Fresh \notin DOMAIN heap
  BY <1>1, TopFacts DEF Is
<1>4. Handed(heap, stack, n, r, {"alts"})
  BY <1>1, ChildFacts
<1>5. r # Undef
  BY <1>2, <1>4, HandedSpares
<1>6. c \in Cells /\ c.kind = "prod"
  <2>1. <<r>> \in Seq(Nat) /\ 0 \in Nat /\ "prod" \in CellKinds
    BY <1>2 DEF CellKinds
  <2>2. c \in Cells
    BY <1>2, <2>1, MadeNode
  <2> QED BY <2>2 DEF Node
<1>7. heap' = PushNode(Append(heap, c), list, Fresh)
  BY <1>5 DEF CloseProd
<1> HIDE DEF c
<1>8. Filling(heap, list)
  <2>1. ASSUME NEW p \in DOMAIN heap, NEW i \in DOMAIN heap[p].kids PROVE heap[p].kids[i] # list
    <3>1. <<heap[p].kind, heap[heap[p].kids[i]].kind>> \in Layers
      BY DEF FInv, Tidy
    <3> QED BY <1>3, <3>1 DEF Layers
  <2> QED BY <1>3, <2>1 DEF Filling, Free
<1>9. heap'[Fresh].kind = "prod"
  BY <1>3, <1>6, <1>7, PushedNew
<1>10. \A f : HeightOf(heap', f, Fresh) = 0
  BY <1>9 DEF HeightOf
<1>11. Built'
  BY <1>3, <1>6, <1>7, <1>8, <1>10, BuiltPushed
<1>12. Top'.rule \in {"gbnf", "prod"} /\ ~Top'.grouped /\ Inherits'
  <2>1. CASE stack' = [stack EXCEPT ![n] = NewFrame("prod", list)]
    <3> DEFINE e == NewFrame("prod", list)
    <3>1. e \in Frames /\ e.rule = "prod" /\ ~e.grouped
      BY <1>2 DEF NewFrame, Frames, Rules, Undef
    <3> HIDE DEF e
    <3>2. Len(stack') = 2 /\ stack'[2] = e
      BY <1>2, <2>1, <3>1, ExceptSeq DEF e
    <3>3. Top' = e
      BY <3>2 DEF Top
    <3>4. Inherits'
      BY <3>1, <3>2 DEF Inherits
    <3> QED BY <3>1, <3>3, <3>4
  <2>2. CASE stack' = PopRule(list)
    <3>1. /\ Top'.rule = RuleAt(1) /\ Inherits' /\ (Top'.grouped <=> RuleAt(1) = "atom")
      BY <1>1, <1>2, <2>2, PopTop
    <3> QED BY <3>1 DEF RuleAt
  <2> QED BY <1>1, <2>1, <2>2
<1>13. nest' \in Nat /\ level' \in Nat /\ outer' \in Seq(Nat) /\ Len(outer') = 0
  BY <1>1, <1>2 DEF Registers
<1>14. OuterShape' /\ Reading' /\ NestKept' /\ LevelsKept'
  BY <1>12, <1>13 DEF OuterShape, Reading, NestKept, LevelsKept
<1> QED BY <1>11, <1>12, <1>13, <1>14 DEF Registers

\* One saved level less.
LEMMA OuterPopped ==
  ASSUME outer \in Seq(Nat), Len(outer) > 0, outer' = SubSeq(outer, 1, Len(outer) - 1)
  PROVE  /\ outer' \in Seq(Nat) /\ Len(outer') = Len(outer) - 1 /\ outer[Len(outer)] \in Nat
         /\ \A j \in 1 .. Len(outer) - 1 : outer'[j] = outer[j]
<1> DEFINE g == Len(outer)
<1>1. g \in Nat /\ \A j \in 1 .. g : outer[j] \in Nat
  BY LenProperties, ElementOfSeq
<1> HIDE DEF g
<1>2. /\ outer' = SubSeq(outer, 1, g - 1) /\ g > 0
      /\ \A j \in 1 .. g - 1 : outer[j] \in Nat
  BY <1>1 DEF g
<1>3. /\ outer' \in Seq(Nat) /\ Len(outer') = IF 1 <= g - 1 THEN g - 1 - 1 + 1 ELSE 0
      /\ \A j \in 1 .. g - 1 - 1 + 1 : outer'[j] = outer[1 + j - 1]
  BY <1>1, <1>2, SubSeqProperties
<1>4. Len(outer') = g - 1 /\ g \in 1 .. g /\ \A j \in 1 .. g - 1 : outer'[j] = outer[j]
  BY <1>1, <1>2, <1>3
<1> QED BY <1>1, <1>3, <1>4 DEF g

\* A group on the stack has a level saved, and stands on an elem.
LEMMA GroupPlace ==
  ASSUME FInv, Registers, Top.grouped
  PROVE  /\ Len(stack) = 4 * Len(outer) + 2 /\ Len(outer) > 0 /\ Top.rule = "atom"
         /\ RuleAt(Len(stack) - 1) = "elem"
<1>1. /\ Len(stack) \in Nat \ {0} /\ Len(outer) \in Nat /\ Top.rule = "atom"
      /\ Len(stack) = 4 * Len(outer) + 2 /\ RuleAt(Len(stack)) = "atom" /\ Len(stack) # 2
  BY Place DEF OuterShape
<1>2. Len(outer) > 0
  BY <1>1
<1>3. RuleAt(Len(stack) - 1) = "elem"
  <2> DEFINE m == Len(stack) - 1
  <2>1. m \in Nat /\ m > 0 /\ RuleAt(m + 1) = "atom"
    BY <1>1
  <2> HIDE DEF m
  <2>2. RuleAt(m) = "elem"
    BY <2>1, PrevRule
  <2> QED BY <2>2 DEF m
<1> QED BY <1>1, <1>2, <1>3

\* The group is one deeper than the deepest element inside, and the level
\* around it is put back.
LEMMA RustCloseGroupHeights ==
  ASSUME FInv, Built, Registers, RustCloseGroup
  PROVE  Built' /\ Registers'
<1> DEFINE n == Len(stack)
           g == Len(outer)
           r == Top.child
           c == Node("group", Top.tok, pos, 0, <<r>>)
           i == n - 1
<1>1. /\ Top.rule = "atom" /\ Top.phase = "close" /\ Top.grouped /\ KindAt(pos) = "RP"
      /\ heap' = Append(heap, c) /\ stack' = PopRule(Fresh)
      /\ level < MaxNestDepth /\ nest' = level + 1 /\ level' = outer[g]
      /\ outer' = SubSeq(outer, 1, g - 1)
  BY DEF RustCloseGroup, CloseGroup, GroupAhead, At
<1>2. /\ n \in Nat \ {0} /\ g \in Nat /\ Inherits /\ n = 4 * g + 2 /\ g > 0
      /\ SparedBelow(stack, n - 1, Undef) /\ RuleAt(i) = "elem"
      /\ r \in Nat /\ Top.tok \in Nat /\ pos \in Nat /\ Fresh \in Nat
      /\ level \in Nat /\ outer \in Seq(Nat)
  BY <1>1, Place, GroupPlace, TopFacts, FreshCells DEF Registers
<1>3. r \in DOMAIN heap /\ ~Rest
  <2>1. Handed(heap, stack, n, r, {"alts"})
    BY <1>1, ChildFacts
  <2> QED BY <1>1, <1>2, <2>1, HandedSpares, NoRest
<1>4. Fits(Height, Members(heap, r), level)
  BY <1>1, <1>3 DEF Registers, LevelsKept
<1>5. c \in Cells /\ c.kind = "group" /\ c.kids = <<r>>
  <2>1. <<r>> \in Seq(Nat) /\ 0 \in Nat /\ "group" \in CellKinds
    BY <1>2 DEF CellKinds
  <2>2. c \in Cells
    BY <1>2, <2>1, MadeNode
  <2> QED BY <2>2 DEF Node
<1> HIDE DEF c
<1>6. /\ heap'[Fresh] = c /\ Untouched(heap, heap', Undef) /\ Filling(heap, Undef)
      /\ Undef \notin DOMAIN heap
  BY <1>1, <1>5, HeapFacts, Appended
<1>7. Members(heap', r) = Members(heap, r) /\ Members(heap, r) \subseteq DOMAIN heap
  BY <1>3, <1>6, KidsKept, KidsIn, HeapFacts
<1>8. \A f : (\A m \in DOMAIN heap : f[m] = Height[m]) => HeightOf(heap', f, Fresh) = level + 1
  <2> SUFFICES ASSUME NEW f, \A m \in DOMAIN heap : f[m] = Height[m]
               PROVE  HeightOf(heap', f, Fresh) = level + 1
    OBVIOUS
  <2>1. {f[m] : m \in Members(heap', r)} = {Height[m] : m \in Members(heap, r)}
    BY <1>7
  <2>2. Height \in [DOMAIN heap -> Nat]
    BY DEF Built, Solves
  <2>3. Tallest({Height[m] : m \in Members(heap, r)}) = level
    BY <1>2, <1>4, <1>7, <2>2, FitsTallest
  <2>4. HeightOf(heap', f, Fresh) = 1 + Tallest({f[m] : m \in Members(heap', r)})
    BY <1>5, <1>6 DEF HeightOf
  <2>5. HeightOf(heap', f, Fresh) = 1 + level
    BY <2>1, <2>3, <2>4
  <2> QED BY <1>2, <2>5
<1>9. level + 1 \in Nat /\ level + 1 <= MaxNestDepth
  BY <1>1, <1>2, DepthAssumption
<1>10. /\ Built' /\ Height'[Fresh] = level + 1
       /\ \A m \in DOMAIN heap : Height'[m] = Height[m]
  BY <1>1, <1>5, <1>8, <1>9, BuiltCell
<1>11. /\ Len(stack') = i /\ SameBelow(stack, stack', i) /\ i \in Nat \ {0} /\ Inherits'
       /\ Top'.child = Fresh /\ Top'.rule = "elem" /\ Top'.phase = "close" /\ ~Top'.grouped
  BY <1>1, <1>2, PopTop
<1>12. /\ outer' \in Seq(Nat) /\ Len(outer') = g - 1 /\ outer[g] \in Nat
       /\ \A j \in 1 .. g - 1 : outer'[j] = outer[j]
  BY <1>1, <1>2, OuterPopped
<1>13. nest' \in Nat /\ level' \in Nat
  BY <1>1, <1>9, <1>12
<1>14. OuterShape' /\ Reading' /\ NestKept'
  BY <1>1, <1>2, <1>10, <1>11, <1>12, SMTT(20) DEF OuterShape, Reading, NestKept
<1>15. ASSUME NEW j \in 1 .. g - 1
       PROVE  Fits(Height', Gathered(heap', stack', 4 * j + 3), LevelAt(j)')
  <2>1. j \in 1 .. g /\ j # g /\ 4 * j + 4 <= i /\ i <= n
    BY <1>2
  <2>2. LevelAt(j) = outer[j + 1]
    BY <2>1 DEF LevelAt
  <2>3. LevelAt(j)' = outer[j + 1]
    <3>1. CASE j = g - 1
      <4>1. LevelAt(j)' = level' /\ j + 1 = g
        BY <1>2, <1>12, <3>1 DEF LevelAt
      <4> QED BY <1>1, <4>1
    <3>2. CASE j # g - 1
      <4>1. LevelAt(j)' = outer'[j + 1] /\ j + 1 \in 1 .. g - 1
        BY <1>2, <1>12, <3>2 DEF LevelAt
      <4> QED BY <1>12, <4>1
    <3> QED BY <3>1, <3>2
  <2>4. i \in Nat /\ i <= Len(stack) /\ i <= Len(stack')
    BY <1>11, <2>1
  <2>5. Fits(Height', Gathered(heap', stack', 4 * j + 3), LevelAt(j))
    BY <1>2, <1>3, <1>6, <1>10, <1>11, <2>1, <2>4, LevelsUnder
  <2> QED BY <2>2, <2>3, <2>5
<1>16. LevelsKept'
  BY <1>11, <1>12, <1>15 DEF LevelsKept
<1> QED BY <1>10, <1>11, <1>12, <1>13, <1>14, <1>16 DEF Registers

\* An atom leaves: a plain one nests one deep, and a group left open leaves
\* nothing behind, and nobody to ask for the levels around it.
LEMMA RustCloseAtomHeights ==
  ASSUME FInv, Built, Registers, RustCloseAtom
  PROVE  Built' /\ Registers'
<1> DEFINE n == Len(stack)
           g == Len(outer)
           i == n - 1
<1>1. /\ Top.rule = "atom" /\ Top.phase = "close" /\ (Top.grouped => KindAt(pos) # "RP")
      /\ heap' = heap /\ stack' = PopRule(Top.node) /\ UNCHANGED <<nest, level>>
      /\ UNCHANGED <<input, pos>>
      /\ outer' = IF Top.grouped THEN SubSeq(outer, 1, g - 1) ELSE outer
  BY DEF RustCloseAtom, CloseAtom, GroupAhead, At
<1>2. /\ n \in Nat \ {0} /\ g \in Nat /\ Inherits /\ SparedBelow(stack, n - 1, Undef)
      /\ Top.node \in Nat /\ nest \in Nat /\ level \in Nat /\ outer \in Seq(Nat)
      /\ Top.grouped => Top.node = Undef
      /\ Top.rule = RuleAt(n) /\ (RuleAt(n) = "prod" <=> n = 2) /\ (RuleAt(n) = "gbnf" <=> n = 1)
  BY Place, TopFacts DEF Registers
<1>3. /\ Built' /\ \A m \in DOMAIN heap : Height'[m] = Height[m]
      /\ Untouched(heap, heap', Undef) /\ Filling(heap, Undef) /\ Height' = Height
  BY <1>1, SameHeap
<1>4. RuleAt(i) = "elem"
  <2>1. RuleAt(n) = "atom" /\ n # 1
    BY <1>1, <1>2
  <2>2. n \in Nat /\ n # 0
    BY <1>2
  <2>3. i \in Nat \ {0} /\ i + 1 = n
    BY <2>1, <2>2
  <2> HIDE DEF i
  <2>4. i > 0
    BY <2>3
  <2> QED BY <2>1, <2>3, <2>4, PrevRule
<1>5. /\ Len(stack') = i /\ SameBelow(stack, stack', i) /\ i \in Nat \ {0} /\ Inherits'
      /\ Top'.child = Top.node /\ Top'.rule = "elem" /\ Top'.phase = "close" /\ ~Top'.grouped
  BY <1>1, <1>2, <1>4, PopTop
<1>6. nest' \in Nat /\ level' \in Nat
  BY <1>1, <1>2
<1>7. CASE Top.grouped
  <2>1. n = 4 * g + 2 /\ g > 0
    BY <1>7, GroupPlace
  <2>2. outer' \in Seq(Nat) /\ Len(outer') = g - 1
    BY <1>1, <1>2, <1>7, <2>1, OuterPopped
  <2>3. Rest
    <3>1. AtBoundary /\ KindAt(pos) # "ALT" /\ KindAt(pos) # "RP"
      BY <1>1, <1>7 DEF Registers, Reading
    <3> QED BY <3>1 DEF AtBoundary, Rest
  <2>4. Rest'
    BY <1>1, <2>3, SameAhead
  <2>5. Top'.child = Undef
    BY <1>2, <1>5, <1>7
  <2>6. OuterShape' /\ Reading' /\ NestKept' /\ LevelsKept'
    BY <1>2, <1>5, <2>1, <2>2, <2>4, <2>5 DEF OuterShape, Reading, NestKept, LevelsKept
  <2> QED BY <1>3, <1>5, <1>6, <2>2, <2>6 DEF Registers
<1>8. CASE ~Top.grouped
  <2>1. n = 4 * g + 6 /\ outer' = outer /\ nest = 1
    BY <1>1, <1>8, Place DEF OuterShape, Registers, NestKept
  <2>2. Top.node # Undef => Height[Top.node] = 1
    <3> SUFFICES ASSUME Top.node # Undef PROVE Height[Top.node] = 1
      OBVIOUS
    <3>1. Handed(heap, stack, n, Top.node, {"term"})
      BY <1>1, <1>8, ChildFacts
    <3>2. Top.node \in DOMAIN heap /\ heap[Top.node].kind = "term"
      BY <3>1 DEF Handed, Free
    <3>3. Height = [x \in DOMAIN heap |-> HeightOf(heap, Height, x)]
      BY DEF Built, Solves, Measures
    <3>4. Height[Top.node] = HeightOf(heap, Height, Top.node)
      BY <3>2, <3>3
    <3> QED BY <3>2, <3>4 DEF HeightOf
  <2>3. OuterShape' /\ Reading' /\ NestKept'
    BY <1>1, <1>2, <1>3, <1>5, <2>1, <2>2 DEF OuterShape, Reading, NestKept
  <2>4. LevelsKept'
    <3>1. i \in Nat /\ i <= Len(stack) /\ i <= Len(stack') /\ 4 * g + 4 <= i
      BY <1>2, <1>5, <2>1
    <3> QED BY <1>1, <1>2, <1>3, <1>5, <2>1, <3>1, SameAhead, LevelsAbove
  <2> QED BY <1>2, <1>3, <1>5, <1>6, <2>1, <2>3, <2>4 DEF Registers
<1> QED BY <1>7, <1>8

\* The list elem works on is the one its sequence is filling.
LEMMA ElemList ==
  ASSUME FInv, Registers, Top.rule = "elem"
  PROVE  LET n == Len(stack)
             list == Top.node
         IN  /\ n \in Nat \ {0} /\ Len(outer) \in Nat /\ n = 4 * Len(outer) + 5
             /\ Inherits /\ list \in DOMAIN heap /\ list \in Nat /\ Filling(heap, list)
             /\ stack[n - 1].node = list /\ stack[n - 1].phase = "close"
             /\ stack[n - 2].node \in DOMAIN heap /\ stack[n - 2].phase = "close"
             /\ stack[n - 2].node # list /\ SparedBelow(stack, n - 2, list)
<1> DEFINE n == Len(stack)
           g == Len(outer)
           list == Top.node
<1>1. n \in Nat \ {0} /\ g \in Nat /\ n = 4 * g + 5 /\ Inherits /\ Top = stack[n]
  BY Place DEF OuterShape
<1>2. /\ n \in 2 .. n /\ n - 1 \in 1 .. n /\ n - 2 \in 1 .. n /\ n - 1 < n /\ n - 2 < n
      /\ n - 1 = 4 * g + 4 /\ n - 2 = 4 * g + 3
  BY <1>1
<1>3. stack[n - 1].node = list
  BY <1>1, <1>2 DEF Inherits
<1>4. /\ stack[n - 1].rule = "seq" /\ stack[n - 1].phase = "close"
      /\ stack[n - 2].rule = "alts" /\ stack[n - 2].phase = "close"
  BY <1>1, <1>2, FrameRule, LevelRules
<1>5. /\ list \in DOMAIN heap /\ Free(heap, list) /\ stack[n - 2].node \in DOMAIN heap
  BY <1>2, <1>3, <1>4, FrameRule DEF Owners
<1>6. Filling(heap, list) /\ list \in Nat
  BY <1>5, TopFacts DEF Is, Filling
<1>7. SparedBelow(stack, n - 2, list)
  <2> SUFFICES ASSUME NEW j \in 1 .. n - 2, stack[j].rule \in Owners, stack[j].phase = "close"
               PROVE  stack[j].node # list
    BY DEF SparedBelow
  <2>1. j \in 1 .. n /\ j < n - 1
    BY <1>1
  <2> QED BY <1>2, <1>3, <1>4, <2>1, ListsApart DEF Owners
<1>8. stack[n - 2].node # list
  BY <1>2, <1>4, <1>7 DEF SparedBelow, Owners
<1> QED BY <1>1, <1>3, <1>4, <1>5, <1>6, <1>7, <1>8

\* elem leaves: its group holds what it held, and what the sequence gained.
LEMMA ElemLeaves ==
  ASSUME FInv, Built', Registers, Top.rule = "elem", Top.phase = "close",
         stack' = PopRule(Top.node), outer' = outer, nest' \in Nat, Rest => Rest',
         \A m \in DOMAIN heap : Height'[m] = Height[m],
         Untouched(heap, heap', Top.node),
         NEW more \in SUBSET DOMAIN heap',
         Kids(heap', Top.node) = Kids(heap, Top.node) \cup more,
         \/ more = {} /\ level' = level
         \/ \E x \in DOMAIN heap' :
              more = {x} /\ level' = IF level < Height'[x] THEN Height'[x] ELSE level
  PROVE  Registers'
<1> DEFINE n == Len(stack)
           g == Len(outer)
           list == Top.node
           top == n - 1
           i == n - 2
<1>1. /\ n \in Nat \ {0} /\ g \in Nat /\ n = 4 * g + 5 /\ list \in DOMAIN heap /\ list \in Nat
      /\ Inherits /\ Filling(heap, list) /\ SparedBelow(stack, i, list)
      /\ stack[top].node = list /\ stack[top].phase = "close"
      /\ stack[i].node \in DOMAIN heap /\ stack[i].phase = "close" /\ stack[i].node # list
  BY ElemList
<1>2. /\ Len(stack') = top /\ SameBelow(stack, stack', top) /\ top \in Nat \ {0} /\ Inherits'
      /\ Top'.rule = RuleAt(top) /\ (Top'.grouped <=> RuleAt(top) = "atom")
  BY <1>1, PopTop
<1>3. /\ top = 4 * g + 4 /\ i = 4 * g + 3 /\ i \in 1 .. top /\ top \in 1 .. top /\ i + 1 = top
      /\ i # top /\ i # n /\ i + 1 <= n /\ i \in Nat /\ i <= n /\ i <= top
  BY <1>1
<1> HIDE DEF top, i
<1>4. Top'.rule = "seq" /\ ~Top'.grouped
  BY <1>1, <1>2, <1>3, LevelRules
<1>5. /\ stack'[top].node = list /\ stack'[top].phase = "close"
      /\ stack'[i].node = stack[i].node /\ stack'[i].phase = "close"
  BY <1>1, <1>2, <1>3 DEF SameBelow, SameFrame
<1>6. level \in Nat /\ outer \in Seq(Nat)
  BY DEF Registers
<1>7. Height' \in [DOMAIN heap' -> Nat]
  BY DEF Built, Solves
<1>8. level' \in Nat
  BY <1>6, <1>7
<1>9. OuterShape' /\ Reading' /\ NestKept'
  BY <1>1, <1>2, <1>3, <1>4 DEF OuterShape, Reading, NestKept
<1> DEFINE old == Members(heap, stack[i].node) \cup Kids(heap, list)
<1>10. Gathered(heap, stack, i) = old
  BY <1>1, <1>3 DEF Gathered
<1>11. /\ Members(heap', stack[i].node) = Members(heap, stack[i].node)
       /\ old \subseteq DOMAIN heap
  BY <1>1, KidsKept, KidsIn, HeapFacts
<1>12. Gathered(heap', stack', i) = old \cup more
  BY <1>2, <1>3, <1>5, <1>11 DEF Gathered
<1>13. ASSUME ~Rest, g > 0 PROVE Fits(Height', old \cup more, level')
  <2>1. g \in 1 .. Len(outer) /\ 4 * g + 3 <= Len(stack) /\ LevelAt(g) = level
    BY <1>1, <1>13 DEF LevelAt
  <2>2. Fits(Height, old, level)
    BY <1>3, <1>10, <1>13, <2>1 DEF Registers, LevelsKept
  <2> HIDE DEF old
  <2>3. Fits(Height', old, level)
    BY <1>11, <2>2, FitsOn
  <2>4. CASE more = {} /\ level' = level
    BY <2>3, <2>4
  <2>5. CASE \E x \in DOMAIN heap' :
               more = {x} /\ level' = IF level < Height'[x] THEN Height'[x] ELSE level
    <3>1. PICK x \in DOMAIN heap' :
            more = {x} /\ level' = IF level < Height'[x] THEN Height'[x] ELSE level
      BY <2>5
    <3>2. \A m \in old \cup {x} : Height'[m] \in Nat
      <4>1. DOMAIN heap \subseteq DOMAIN heap'
        BY DEF Untouched
      <4> QED BY <1>7, <1>11, <4>1
    <3>3. Fits(Height', old \cup {x}, level')
      BY <2>3, <3>1, <3>2, FitsMore
    <3> QED BY <3>1, <3>3
  <2> QED BY <2>4, <2>5
<1> HIDE DEF old
<1>14. ASSUME ~Rest', NEW j \in 1 .. g
       PROVE  Fits(Height', Gathered(heap', stack', 4 * j + 3), LevelAt(j)')
  <2>1. ~Rest
    BY <1>14
  <2>2. CASE j = g
    <3>1. LevelAt(j)' = level' /\ 4 * j + 3 = i /\ g > 0
      BY <1>1, <1>3, <2>2 DEF LevelAt
    <3> QED BY <1>12, <1>13, <2>1, <3>1
  <2>3. CASE j # g
    <3>1. LevelAt(j)' = LevelAt(j)
      BY <2>3 DEF LevelAt
    <3>2. 4 * j + 4 <= i /\ i <= Len(stack')
      BY <1>1, <1>2, <1>3, <2>3
    <3>3. SameBelow(stack, stack', i)
      BY <1>2, <1>3 DEF SameBelow
    <3>4. Fits(Height', Gathered(heap', stack', 4 * j + 3), LevelAt(j))
      BY <1>1, <1>3, <2>1, <3>2, <3>3, LevelsUnder
    <3> QED BY <3>1, <3>4
  <2> QED BY <2>2, <2>3
<1>15. LevelsKept'
  BY <1>4, <1>14 DEF LevelsKept
<1> QED BY <1>2, <1>6, <1>8, <1>9, <1>15 DEF Registers

\* An atom that left no node adds nothing.
LEMMA ElemSkips ==
  ASSUME FInv, Built, Registers, Top.rule = "elem", Top.phase = "close",
         stack' = PopRule(Top.node), heap' = heap, UNCHANGED <<nest, level, outer>>,
         Rest => Rest'
  PROVE  Built' /\ Registers'
<1>1. /\ Built' /\ \A m \in DOMAIN heap : Height'[m] = Height[m]
      /\ \A list : Untouched(heap, heap', list)
  BY SameHeap DEF Untouched
<1>2. Kids(heap', Top.node) = Kids(heap, Top.node) \cup {} /\ nest' \in Nat
  BY DEF Registers
<1>3. {} \in SUBSET DOMAIN heap'
  OBVIOUS
<1>4. Registers'
  BY <1>1, <1>2, <1>3, ElemLeaves
<1> QED BY <1>1, <1>4

\* The element itself is pushed.
LEMMA ElemPushes ==
  ASSUME FInv, Built, Registers, Top.rule = "elem", Top.phase = "close",
         Top.child # Undef, heap' = PushNode(heap, Top.node, Top.child),
         stack' = PopRule(Top.node), outer' = outer, nest' = nest, NoteLevel(nest),
         Rest => Rest'
  PROVE  Built' /\ Registers'
<1> DEFINE list == Top.node
           r == Top.child
<1>1. list \in DOMAIN heap /\ Filling(heap, list) /\ r \in Nat
  BY ElemList, TopFacts
<1>2. r \in DOMAIN heap
  <2>1. Handed(heap, stack, Len(stack), r, {"term", "group"})
    BY ChildFacts
  <2> QED BY <1>1, <2>1, HandedSpares
<1>3. /\ Built' /\ \A m \in DOMAIN heap : Height'[m] = Height[m]
      /\ Untouched(heap, heap', list) /\ Kids(heap', list) = Kids(heap, list) \cup {r}
  BY <1>1, BuiltPush
<1>4. nest = Height'[r] /\ nest \in Nat
  BY <1>2, <1>3 DEF Registers, NestKept
<1>5. r \in DOMAIN heap' /\ {r} \in SUBSET DOMAIN heap'
  BY <1>2, <1>3 DEF Untouched
<1>6. level' = IF level < Height'[r] THEN Height'[r] ELSE level
  BY <1>4 DEF NoteLevel
<1>7. Registers'
  BY <1>3, <1>4, <1>5, <1>6, ElemLeaves
<1> QED BY <1>3, <1>7

LEMMA RustElemPlainHeights ==
  ASSUME FInv, Built, Registers, RustElemPlain
  PROVE  Built' /\ Registers'
<1>1. /\ Top.rule = "elem" /\ Top.phase = "close" /\ stack' = PopRule(Top.node)
      /\ UNCHANGED <<nest, outer>> /\ UNCHANGED <<input, pos>>
  BY DEF RustElemPlain, ElemPlain, At
<1>2. Rest => Rest'
  BY <1>1, SameAhead
<1>3. CASE Top.child = Undef
  <2>1. heap' = heap /\ level' = level
    BY <1>3 DEF RustElemPlain, ElemPlain, PushChild
  <2> QED BY <1>1, <1>2, <2>1, ElemSkips
<1>4. CASE Top.child # Undef
  <2>1. heap' = PushNode(heap, Top.node, Top.child) /\ NoteLevel(nest)
    BY <1>4 DEF RustElemPlain, ElemPlain, PushChild
  <2> QED BY <1>1, <1>2, <1>4, <2>1, ElemPushes
<1> QED BY <1>3, <1>4

\* The wrappers nest as deep as the registers say: a run is built only when
\* its last depth is allowed.
LEMMA RustElemPostHeights ==
  ASSUME FInv, Built, Registers, RustElemPost
  PROVE  Built' /\ Registers'
<1> DEFINE list == Top.node
           r == Top.child
           w == Wraps(Ahead)
           c == Node("rep", pos, pos, w, <<r>>)
<1>1. /\ Top.rule = "elem" /\ Top.phase = "close" /\ stack' = PopRule(list) /\ outer' = outer
      /\ KindAt(pos) = "POST"
      /\ r # Undef => Sound /\ nest' = nest + w /\ NoteLevel(nest + w)
      /\ r = Undef => heap' = heap /\ UNCHANGED <<nest, level>>
      /\ r # Undef /\ w = 0 => heap' = PushNode(heap, list, r)
      /\ r # Undef /\ w # 0 => heap' = PushNode(Append(heap, c), list, Fresh)
  BY DEF RustElemPost, ElemPost, At, Ahead
<1>2. ~Rest /\ nest \in Nat /\ level \in Nat
  BY <1>1, NoRest DEF Registers
<1>3. Ahead \in Seq(Ops) /\ w \in Nat
  <2>1. Ahead \in Seq(Ops)
    BY <1>1, Lookahead DEF FInv, IInv, Ahead
  <2> QED BY <2>1, WrapsType
<1>4. CASE r = Undef
  BY <1>1, <1>2, <1>4, ElemSkips
<1>5. CASE r # Undef /\ w = 0
  <2>1. nest + w = nest
    BY <1>2, <1>3, <1>5
  <2>2. nest' = nest /\ NoteLevel(nest)
    BY <1>1, <1>5, <2>1
  <2> QED BY <1>1, <1>2, <1>5, <2>2, ElemPushes
<1>6. CASE r # Undef /\ w # 0
  <2>1. list \in DOMAIN heap /\ Filling(heap, list) /\ r \in Nat /\ pos \in Nat
    BY <1>1, ElemList, TopFacts, FreshCells
  <2>2. r \in DOMAIN heap
    <3>1. Handed(heap, stack, Len(stack), r, {"term", "group"})
      BY <1>1, <1>6, ChildFacts
    <3> QED BY <2>1, <3>1, HandedSpares
  <2>3. Height[r] = nest
    BY <1>1, <1>6 DEF Registers, NestKept
  <2>4. c \in Cells /\ c.kind = "rep" /\ c.levels = w /\ c.kids = <<r>>
    <3>1. <<r>> \in Seq(Nat) /\ "rep" \in CellKinds
      BY <2>1 DEF CellKinds
    <3> HIDE DEF w
    <3>2. c \in Cells
      BY <1>3, <2>1, <3>1, MadeNode
    <3> QED BY <3>2 DEF Node
  <2>5. nest + w \in Nat /\ nest + w <= MaxNestDepth
    <3> DEFINE l == Len(Ahead)
    <3>1. l \in Nat /\ l # 0
      <4>1. l \in Nat
        BY <1>3, LenProperties
      <4>2. ASSUME l = 0 PROVE w = 0
        <5>1. {i \in 1 .. l : Ahead[i] \in Wrappers} = {}
          BY <4>2
        <5> QED BY <5>1, FS_EmptySet DEF Wraps
      <4> QED BY <1>6, <4>1, <4>2
    <3>2. l \in 1 .. l
      BY <3>1
    <3>3. ~Deep(l)
      BY <1>1, <1>6, <3>2 DEF Sound
    <3>4. SubSeq(Ahead, 1, l) = Ahead
      <4> DEFINE s == Ahead
      <4>1. s \in Seq(Ops)
        BY <1>3
      <4> HIDE DEF s
      <4>2. SubSeq(s, 1, Len(s)) = s
        BY <4>1
      <4> QED BY <4>2 DEF s
    <3>5. ~(MaxNestDepth < nest + w)
      BY <3>3, <3>4 DEF Deep
    <3> HIDE DEF w
    <3> QED BY <1>2, <1>3, <3>5, DepthAssumption
  <2>6. heap' = PushNode(Append(heap, c), list, Fresh)
    BY <1>1, <1>6
  <2> HIDE DEF c
  <2>7. heap'[Fresh] = c /\ Fresh \in DOMAIN heap' /\ Fresh \in Nat
    BY <2>1, <2>4, <2>6, PushedNew, HeapFacts
  <2>8. \A f : (\A m \in DOMAIN heap : f[m] = Height[m]) => HeightOf(heap', f, Fresh) = nest + w
    <3> SUFFICES ASSUME NEW f, \A m \in DOMAIN heap : f[m] = Height[m]
                 PROVE  HeightOf(heap', f, Fresh) = nest + w
      OBVIOUS
    <3>1. HeightOf(heap', f, Fresh) = c.levels + f[c.kids[1]]
      BY <2>4, <2>7 DEF HeightOf
    <3>2. f[c.kids[1]] = nest
      BY <2>2, <2>3, <2>4
    <3>3. HeightOf(heap', f, Fresh) = w + nest
      BY <2>4, <3>1, <3>2
    <3> HIDE DEF w
    <3> QED BY <1>2, <1>3, <3>3
  <2>9. /\ Built' /\ Height'[Fresh] = nest + w
        /\ \A m \in DOMAIN heap : Height'[m] = Height[m]
        /\ Untouched(heap, heap', list) /\ Kids(heap', list) = Kids(heap, list) \cup {Fresh}
    <3>1. 1 \in DOMAIN c.kids
      BY <2>4
    <3> HIDE DEF w, list
    <3> QED BY <2>1, <2>4, <2>5, <2>6, <2>8, <3>1, BuiltPushed
  <2>10. level' = IF level < Height'[Fresh] THEN Height'[Fresh] ELSE level
    BY <1>1, <1>6, <2>9 DEF NoteLevel
  <2>11. nest' \in Nat /\ {Fresh} \in SUBSET DOMAIN heap'
    BY <1>1, <1>6, <2>5, <2>7
  <2>12. Registers'
    BY <1>1, <1>2, <2>7, <2>9, <2>10, <2>11, ElemLeaves
  <2> QED BY <2>9, <2>12
<1> QED BY <1>4, <1>5, <1>6

LEMMA RustElemPostBadHeights ==
  ASSUME FInv, Built, Registers, RustElemPostBad
  PROVE  Built' /\ Registers'
<1>1. /\ Top.rule = "elem" /\ Top.phase = "close" /\ stack' = PopRule(Top.node) /\ heap' = heap
      /\ KindAt(pos) = "POST" /\ UNCHANGED <<nest, level, outer>>
  BY RustDefersAssumption DEF RustElemPostBad, ElemPostBad, At, registers
<1>2. ~Rest
  BY <1>1, NoRest
<1> QED BY <1>1, <1>2, ElemSkips

-----------------------------------------------------------------------------
(* The invariant holds of every state.                                     *)

LEMMA InitHInv == RustInit => HInv
<1> SUFFICES ASSUME RustInit PROVE HInv
  OBVIOUS
<1>1. FInv
  BY InitFInv DEF RustInit
<1>2. /\ heap = << >> /\ DOMAIN heap = {} /\ stack = <<NewFrame("gbnf", Undef)>>
      /\ nest = 0 /\ level = 0 /\ outer = << >>
  BY DEF RustInit, Init
<1>3. Built
  <2> DEFINE d == [r \in DOMAIN heap |-> 0]
  <2>1. Solves(heap, d)
    <3>1. \A e : [r \in DOMAIN heap |-> HeightOf(heap, e, r)] = d
      BY <1>2
    <3>2. d \in [DOMAIN heap -> Nat]
      BY <1>2
    <3> HIDE DEF d
    <3> QED BY <3>1, <3>2 DEF Solves, Measures
  <2>2. Height = d
    BY <2>1, HeightSolves
  <2>3. Solves(heap, Height)
    BY <2>1, <2>2
  <2>4. Single(heap) /\ TreeBounded
    BY <1>2 DEF Single, TreeBounded, Elements
  <2> QED BY <2>3, <2>4 DEF Built
<1>4. Len(stack) = 1 /\ Top.rule = "gbnf" /\ ~Top.grouped /\ Len(outer) = 0
  BY <1>2 DEF Top, NewFrame
<1>5. nest \in Nat /\ level \in Nat /\ outer \in Seq(Nat)
  BY <1>2, EmptySeq
<1>6. OuterShape /\ Inherits /\ Reading /\ NestKept /\ LevelsKept
  BY <1>4 DEF OuterShape, Inherits, Reading, NestKept, LevelsKept
<1> QED BY <1>1, <1>3, <1>5, <1>6 DEF HInv, Registers

\* The steps that end the parse build nothing.
LEMMA EndsHeights ==
  ASSUME FInv, Built, CloseGbnf \/ RustUnexpected \/ Refusal
  PROVE  Built' /\ ~Running'
<1>1. heap' = heap
  BY DEF CloseGbnf, RustUnexpected, Unexpected, Refusal, RefuseGroup, RefuseCloseGroup,
         RefusePost, Refuse
<1>2. \E kind \in Outcomes \ {"running"} : outcome' = Ended(kind, pos)
  BY DEF CloseGbnf, RustUnexpected, Unexpected, Refusal, RefuseGroup, RefuseCloseGroup,
         RefusePost, Refuse, Outcomes
<1>3. ~Running'
  BY <1>2 DEF Ended, Running
<1> QED BY <1>1, <1>3, BuiltSame

LEMMA StepHInv == HInv /\ [RustNext]_rustVars => HInv'
<1> SUFFICES ASSUME HInv, [RustNext]_rustVars PROVE HInv'
  OBVIOUS
<1>1. FInv /\ FInv' /\ Built
  BY RustStepFInv DEF HInv
<1>2. CASE UNCHANGED rustVars
  <2>1. /\ heap' = heap /\ UNCHANGED <<input, pos, stack, outcome, nest, level, outer>>
    BY <1>2 DEF rustVars
  <2>2. Built' /\ Height' = Height
    BY <1>1, <2>1, BuiltSame
  <2>3. Running' => Registers'
    <3> SUFFICES ASSUME Running' PROVE Registers'
      OBVIOUS
    <3>1. Registers
      BY <2>1 DEF HInv, Running
    <3>2. Top' = Top
      BY <2>1 DEF Top
    <3>3. OuterShape' /\ Inherits'
      BY <2>1, <3>1, <3>2 DEF Registers, OuterShape, Inherits
    <3>4. Rest' = Rest /\ AtBoundary' = AtBoundary /\ KindAt(pos)' = KindAt(pos)
      BY <2>1, SameAhead
    <3>5. Reading' /\ NestKept'
      BY <2>1, <2>2, <3>1, <3>2, <3>4 DEF Registers, Reading, NestKept
    <3>6. \A j : LevelAt(j)' = LevelAt(j)
      BY <2>1 DEF LevelAt
    <3>7. LevelsKept'
      BY <2>1, <2>2, <3>1, <3>2, <3>4, <3>6 DEF Registers, LevelsKept
    <3> QED BY <2>1, <3>1, <3>3, <3>5, <3>7 DEF Registers
  <2> QED BY <1>1, <2>2, <2>3 DEF HInv
<1>3. CASE CloseGbnf \/ RustUnexpected \/ Refusal
  BY <1>1, <1>3, EndsHeights DEF HInv
<1>4. CASE RustStep /\ ~(CloseGbnf \/ RustUnexpected \/ Refusal)
  <2>1. Registers
    <3>1. Running
      BY <1>4 DEF RustStep, Unguarded, OpenGbnf, OpenProd, OpenAlts, OpenSeq, OpenElem,
                  CloseSeq, CloseAlts, CloseProd, RustAtom, AtomTerm, AtomEmpty, AtomBad,
                  RustAtomGroup, AtomGroup, RustCloseGroup, CloseGroup, RustCloseAtom, CloseAtom,
                  RustElemPlain, ElemPlain, RustElemPost, ElemPost, RustElemPostBad, ElemPostBad,
                  At
    <3> QED BY <3>1 DEF HInv
  <2>2. CASE Unguarded
    <3>1. UNCHANGED registers
      BY <2>2 DEF Unguarded
    <3>2. CASE OpenGbnf \/ OpenProd \/ OpenAlts \/ OpenSeq \/ OpenElem
      BY <1>1, <2>1, <3>1, <3>2, OpenGbnfHeights, OpenProdHeights, OpenAltsHeights,
         OpenSeqHeights, OpenElemHeights DEF HInv
    <3>3. CASE CloseSeq \/ CloseAlts \/ CloseProd
      BY <1>1, <2>1, <3>1, <3>3, CloseSeqHeights, CloseAltsHeights, CloseProdHeights DEF HInv
    <3> QED BY <1>4, <2>2, <3>2, <3>3 DEF Unguarded
  <2>3. CASE RustAtom \/ RustAtomGroup \/ RustCloseGroup \/ RustCloseAtom
    BY <1>1, <2>1, <2>3, RustAtomHeights, RustAtomGroupHeights, RustCloseGroupHeights,
       RustCloseAtomHeights DEF HInv
  <2>4. CASE RustElemPlain \/ RustElemPost \/ RustElemPostBad
    BY <1>1, <2>1, <2>4, RustElemPlainHeights, RustElemPostHeights, RustElemPostBadHeights
       DEF HInv
  <2> QED BY <1>4, <2>2, <2>3, <2>4 DEF RustStep
<1> QED BY <1>2, <1>3, <1>4 DEF RustNext

\* When elem is about to push or wrap an element, NEST_KEY is that element's
\* depth in the tree, even after groups that were left open or were empty.
THEOREM NestIsHeight == RustSpec => []NestExact
<1>1. HInv => NestExact
  BY DEF HInv, Registers, NestKept, NestExact
<1> QED BY <1>1, InitHInv, StepHInv, PTL DEF RustSpec

\* The refusals leave the heap as it is: in this port too every array and
\* element has one parent at most, of the kind the IR puts above it.
THEOREM RustHeapForest == RustSpec => []HeapIsForest
<1>1. RustInit => FInv
  BY InitFInv DEF RustInit
<1> QED BY <1>1, RustStepFInv, TidyIsForest, PTL DEF RustSpec

-----------------------------------------------------------------------------
(* TokenHeight is well defined: what it gives a token depends on the       *)
(* tokens before.                                                          *)

LEMMA OpenerType == ASSUME NEW i \in Nat PROVE Opener(i) \in 0 .. i
<1> DEFINE S == {0} \cup {j \in 1 .. i : KindAt(j) = "LP" /\ Count("LP", j, i) = Count("RP", j, i)}
<1>1. S \in SUBSET (0 .. i) /\ S # {}
  OBVIOUS
<1>2. Max(S) \in S
  <2> HIDE DEF S
  <2> QED BY <1>1, GreatestExists
<1>3. Opener(i) = Max(S)
  BY DEF Opener
<1> HIDE DEF S
<1> QED BY <1>1, <1>2, <1>3

\* The tallest of a stretch of tokens.
LEMMA FitsStretch ==
  ASSUME NEW n \in Nat, NEW h, NEW a \in Nat, \A j \in 0 .. n : h[j] \in Nat
  PROVE  \A b \in Nat : b <= n => \E v \in Nat : Fits(h, a .. b, v)
<1> DEFINE S == {b \in Nat : b <= n => \E v \in Nat : Fits(h, a .. b, v)}
<1>1. 0 \in S
  <2>1. CASE a = 0
    <3>1. a .. 0 = {0} /\ h[0] \in Nat
      BY <2>1
    <3>2. Fits(h, a .. 0, h[0])
      BY <3>1 DEF Fits
    <3> QED BY <3>1, <3>2
  <2>2. CASE a # 0
    <3>1. a .. 0 = {}
      BY <2>2
    <3>2. Fits(h, a .. 0, 0)
      BY <3>1, FitsNone
    <3> QED BY <3>2
  <2> QED BY <2>1, <2>2
<1>2. ASSUME NEW b \in Nat, b \in S PROVE b + 1 \in S
  <2> SUFFICES ASSUME b + 1 <= n PROVE \E v \in Nat : Fits(h, a .. b + 1, v)
    OBVIOUS
  <2>1. PICK v \in Nat : Fits(h, a .. b, v)
    BY <1>2
  <2>2. CASE b + 1 < a
    <3>1. a .. b + 1 = a .. b
      BY <2>2
    <3> QED BY <2>1, <3>1
  <2>3. CASE ~(b + 1 < a)
    <3> DEFINE M == a .. b
               x == b + 1
    <3>1. a .. b + 1 = M \cup {x} /\ (\A m \in M \cup {x} : m \in 0 .. n) /\ x \in 0 .. n
      BY <2>3
    <3> HIDE DEF M, x
    <3>2. Fits(h, M \cup {x}, IF v < h[x] THEN h[x] ELSE v)
      BY <2>1, <3>1, FitsMore DEF M
    <3>3. (IF v < h[x] THEN h[x] ELSE v) \in Nat
      BY <3>1
    <3> QED BY <3>1, <3>2, <3>3
  <2> QED BY <2>2, <2>3
<1> HIDE DEF S
<1>3. \A b \in Nat : b \in S
  BY <1>1, <1>2, Reaches
<1> QED BY <1>3 DEF S

LEMMA HeightLocal ==
  ASSUME input \in Seq(Tokens), NEW i \in Nat, NEW f, NEW g, \A j \in 0 .. i - 1 : f[j] = g[j]
  PROVE  TokenHeightOf(f, i) = TokenHeightOf(g, i)
<1>1. CASE KindAt(i) = "POST"
  <2>1. i - 1 \in 0 .. i - 1
    BY <1>1, LenProperties DEF KindAt
  <2>2. f[i - 1] = g[i - 1]
    BY <2>1
  <2> QED BY <1>1, <2>2 DEF TokenHeightOf
<1>2. CASE KindAt(i) = "RP"
  <2>1. \A j \in Opener(i) + 1 .. i - 1 : j \in 0 .. i - 1
    BY OpenerType
  <2>2. {f[j] : j \in Opener(i) + 1 .. i - 1} = {g[j] : j \in Opener(i) + 1 .. i - 1}
    BY <2>1
  <2> QED BY <1>2, <2>2 DEF TokenHeightOf
<1>3. CASE KindAt(i) \notin {"POST", "RP"}
  BY <1>3 DEF TokenHeightOf
<1> QED BY <1>1, <1>2, <1>3

LEMMA HeightNat ==
  ASSUME input \in Seq(Tokens), NEW i \in Nat, NEW h, \A j \in 0 .. i - 1 : h[j] \in Nat
  PROVE  TokenHeightOf(h, i) \in Nat
<1>1. CASE KindAt(i) = "POST"
  <2>1. i \in 1 .. Len(input) /\ i - 1 \in 0 .. i - 1
    BY <1>1, LenProperties DEF KindAt
  <2>2. h[i - 1] \in Nat
    BY <2>1
  <2>3. Wraps(input[i].ops) \in Nat
    <3>1. input[i] \in Tokens
      BY <2>1, ElementOfSeq
    <3>2. input[i].ops \in Seq(Ops)
      BY <3>1 DEF Tokens
    <3> QED BY <3>2, WrapsType
  <2> QED BY <1>1, <2>2, <2>3 DEF TokenHeightOf
<1>2. CASE KindAt(i) = "RP"
  <2> DEFINE n == i - 1
             M == Opener(i) + 1 .. i - 1
             d == [j \in 0 .. n |-> h[j]]
  <2>1. n \in Nat /\ i \in 1 .. Len(input)
    BY <1>2, LenProperties DEF KindAt
  <2>2. Opener(i) + 1 \in Nat /\ M \in SUBSET (0 .. n)
    BY OpenerType
  <2>3. PICK v \in Nat : Fits(h, M, v)
    <3>1. n <= n
      BY <2>1
    <3>2. \E v \in Nat : Fits(h, Opener(i) + 1 .. n, v)
      BY <2>1, <2>2, <3>1, FitsStretch
    <3> QED BY <3>2
  <2>4. d \in [0 .. n -> Nat] /\ \A m \in M : d[m] = h[m]
    BY <2>2
  <2> HIDE DEF d, M, n
  <2>5. Fits(d, M, v)
    BY <2>3, <2>4, FitsOn
  <2>6. Tallest({d[m] : m \in M}) = v
    BY <2>2, <2>4, <2>5, FitsTallest
  <2>7. {d[m] : m \in M} = {h[m] : m \in M}
    BY <2>4
  <2>8. Tallest({h[j] : j \in M}) = v
    BY <2>6, <2>7
  <2>9. TokenHeightOf(h, i) = 1 + v
    BY <1>2, <2>8 DEF TokenHeightOf, M
  <2> QED BY <2>3, <2>9
<1>3. CASE KindAt(i) \notin {"POST", "RP"}
  <2>1. TokenHeightOf(h, i) = IF KindAt(i) \in {"TERM", "NM"} THEN 1 ELSE 0
    BY <1>3 DEF TokenHeightOf
  <2> QED BY <2>1
<1> QED BY <1>1, <1>2, <1>3

\* d gives the first n tokens their heights.
Tells(d, n) == d \in [0 .. n -> Nat] /\ \A i \in 0 .. n : d[i] = TokenHeightOf(d, i)

LEMMA TokenHeightsExist ==
  ASSUME input \in Seq(Tokens)
  PROVE  \A n \in Nat : \E d : Tells(d, n)
<1> DEFINE S == {n \in Nat : \E d : Tells(d, n)}
<1>1. 0 \in S
  <2> DEFINE v == TokenHeightOf(<< >>, 0)
             d == [i \in 0 .. 0 |-> v]
  <2>1. v \in Nat
    <3>1. \A j \in 0 .. 0 - 1 : << >>[j] \in Nat
      OBVIOUS
    <3> QED BY <3>1, HeightNat
  <2>2. TokenHeightOf(d, 0) = v
    <3>1. \A j \in 0 .. 0 - 1 : d[j] = << >>[j]
      OBVIOUS
    <3> HIDE DEF d
    <3> QED BY <3>1, HeightLocal
  <2> HIDE DEF v
  <2>3. d \in [0 .. 0 -> Nat] /\ \A i \in 0 .. 0 : d[i] = v /\ i = 0
    BY <2>1
  <2> HIDE DEF d
  <2>4. Tells(d, 0)
    BY <2>2, <2>3 DEF Tells
  <2> QED BY <2>4
<1>2. ASSUME NEW n \in Nat, n \in S PROVE n + 1 \in S
  <2>1. PICK d : Tells(d, n)
    BY <1>2
  <2> DEFINE v == TokenHeightOf(d, n + 1)
             e == [i \in 0 .. n + 1 |-> IF i = n + 1 THEN v ELSE d[i]]
  <2>2. v \in Nat
    <3>1. \A j \in 0 .. (n + 1) - 1 : d[j] \in Nat
      BY <2>1 DEF Tells
    <3> QED BY <3>1, HeightNat
  <2> HIDE DEF v
  <2>3. e \in [0 .. n + 1 -> Nat]
    BY <2>1, <2>2 DEF Tells
  <2>4. e[n + 1] = v /\ \A i \in 0 .. n : e[i] = d[i]
    OBVIOUS
  <2> HIDE DEF e
  <2>5. ASSUME NEW i \in 0 .. n + 1 PROVE e[i] = TokenHeightOf(e, i)
    <3>1. i \in Nat /\ \A j \in 0 .. i - 1 : e[j] = d[j]
      BY <2>4
    <3>2. TokenHeightOf(e, i) = TokenHeightOf(d, i)
      BY <3>1, HeightLocal
    <3>3. CASE i = n + 1
      BY <2>4, <3>2, <3>3 DEF v
    <3>4. CASE i # n + 1
      <4>1. i \in 0 .. n
        BY <3>4
      <4> QED BY <2>1, <2>4, <3>2, <4>1 DEF Tells
    <3> QED BY <3>3, <3>4
  <2>6. Tells(e, n + 1)
    BY <2>3, <2>5 DEF Tells
  <2> QED BY <2>6
<1> HIDE DEF S
<1>3. \A n \in Nat : n \in S
  BY <1>1, <1>2, Reaches
<1> QED BY <1>3 DEF S

LEMMA TokenHeightsUnique ==
  ASSUME input \in Seq(Tokens), NEW n \in Nat, NEW d, NEW e,
         \A i \in 0 .. n : d[i] = TokenHeightOf(d, i),
         \A i \in 0 .. n : e[i] = TokenHeightOf(e, i)
  PROVE  \A i \in 0 .. n : d[i] = e[i]
<1> DEFINE S == {m \in Nat : \A i \in 0 .. m : i <= n => d[i] = e[i]}
<1>1. \A m \in Nat : m <= n /\ (\A i \in 0 .. m - 1 : d[i] = e[i]) => d[m] = e[m]
  <2> SUFFICES ASSUME NEW m \in Nat, m <= n, \A i \in 0 .. m - 1 : d[i] = e[i] PROVE d[m] = e[m]
    OBVIOUS
  <2>1. TokenHeightOf(d, m) = TokenHeightOf(e, m)
    BY HeightLocal
  <2>2. m \in 0 .. n
    OBVIOUS
  <2> QED BY <2>1, <2>2
<1>2. 0 \in S
  BY <1>1
<1>3. ASSUME NEW m \in Nat, m \in S PROVE m + 1 \in S
  <2>1. m + 1 <= n => \A i \in 0 .. (m + 1) - 1 : d[i] = e[i]
    BY <1>3
  <2>2. m + 1 <= n => d[m + 1] = e[m + 1]
    BY <1>1, <2>1
  <2> QED BY <1>3, <2>2
<1> HIDE DEF S
<1>4. \A m \in Nat : m \in S
  BY <1>2, <1>3, Reaches
<1>5. n \in S
  BY <1>4
<1> QED BY <1>5 DEF S

\* TokenHeight is the one function its equation has.
LEMMA TokenHeightIs ==
  ASSUME input \in Seq(Tokens)
  PROVE  /\ TokenHeight \in [0 .. Len(input) -> Nat]
         /\ \A i \in 0 .. Len(input) : TokenHeight[i] = TokenHeightOf(TokenHeight, i)
         /\ \A e : e = [i \in 0 .. Len(input) |-> TokenHeightOf(e, i)] => e = TokenHeight
<1> DEFINE n == Len(input)
<1>1. n \in Nat
  BY LenProperties
<1>2. PICK d : Tells(d, n)
  BY <1>1, TokenHeightsExist
<1>3. d = [i \in 0 .. n |-> TokenHeightOf(d, i)]
  BY <1>2 DEF Tells
<1>4. TokenHeight = [i \in 0 .. n |-> TokenHeightOf(TokenHeight, i)]
  BY <1>3 DEF TokenHeight
<1>5. ASSUME NEW e, e = [i \in 0 .. n |-> TokenHeightOf(e, i)] PROVE e = d
  <2>1. \A i \in 0 .. n : e[i] = TokenHeightOf(e, i)
    BY <1>5
  <2>4. \A i \in 0 .. n : d[i] = TokenHeightOf(d, i)
    BY <1>2 DEF Tells
  <2>2. \A i \in 0 .. n : e[i] = d[i]
    <3> HIDE DEF n
    <3> QED BY <1>1, <2>1, <2>4, TokenHeightsUnique
  <2>3. e = [i \in 0 .. n |-> e[i]] /\ d = [i \in 0 .. n |-> d[i]]
    BY <1>2, <1>5 DEF Tells
  <2> QED BY <2>2, <2>3
<1>6. TokenHeight = d
  BY <1>4, <1>5
<1> QED BY <1>2, <1>5, <1>6 DEF Tells

LEMMA SameHeights ==
  ASSUME input' = input, input \in Seq(Tokens)
  PROVE  /\ TokenHeight' = TokenHeight
         /\ \A i : OverGroups(i)' = OverGroups(i) /\ OverNested(i)' = OverNested(i)
         /\ \A i : RustFault(i)' = RustFault(i)
         /\ RustVerdict' = RustVerdict
<1>1. /\ \A i : KindAt(i)' = KindAt(i) /\ OpenBefore(i)' = OpenBefore(i)
      /\ \A i : Misplaced(i)' = Misplaced(i) /\ Undecodable(i)' = Undecodable(i)
  BY SameTokens
<1>2. \A i : Opener(i)' = Opener(i)
  BY <1>1 DEF Opener, Count
<1>3. \A h, i : TokenHeightOf(h, i)' = TokenHeightOf(h, i)
  BY <1>1, <1>2 DEF TokenHeightOf
<1>4. TokenHeight' = TokenHeight
  <2>1. \A e : e = [i \in 0 .. Len(input') |-> TokenHeightOf(e, i)']
                 <=> e = [i \in 0 .. Len(input) |-> TokenHeightOf(e, i)]
    BY <1>3
  <2>2. (CHOOSE e : e = [i \in 0 .. Len(input') |-> TokenHeightOf(e, i)'])
        = CHOOSE e : e = [i \in 0 .. Len(input) |-> TokenHeightOf(e, i)]
    BY <2>1, Zenon
  <2> QED BY <2>2, Zenon DEF TokenHeight
<1>5. \A i : OverGroups(i)' = OverGroups(i)
  BY <1>1 DEF OverGroups
<1>6. \A i : OverNested(i)' = OverNested(i)
  BY <1>1, <1>4 DEF OverNested
<1>7. \A i : RustFault(i)' = RustFault(i)
  BY <1>1, <1>5, <1>6 DEF RustFault
<1>8. Positions' = Positions
  BY DEF Positions
<1>9. First(RustFault)' = First(RustFault) /\ First(RustUndecodable)' = First(RustUndecodable)
  BY <1>1, <1>7, <1>8 DEF First, RustUndecodable
<1>10. RustVerdict' = RustVerdict
  BY <1>1, <1>5, <1>8, <1>9 DEF RustVerdict
<1> QED BY <1>4, <1>5, <1>6, <1>7, <1>10

-----------------------------------------------------------------------------
(* How the first faults decide.                                            *)

LEMMA RustVerdictIs ==
  ASSUME input \in Seq(Tokens)
  PROVE  /\ \A b \in Positions :
              Undecodable(b) /\ (\A i \in 1 .. b - 1 : ~Undecodable(i))
                /\ (\A i \in 1 .. b : ~RustFault(i)) =>
                RustVerdict = [kind |-> "decode", at |-> b]
         /\ \A p \in Positions :
              RustFault(p) /\ (\A i \in 1 .. p - 1 : ~RustFault(i) /\ ~Undecodable(i)) =>
                RustVerdict = [kind |-> IF Misplaced(p) THEN "unexpected"
                                        ELSE IF OverGroups(p) THEN "depth" ELSE "nest",
                               at |-> p]
         /\ (\A i \in Positions : ~RustFault(i) /\ ~Undecodable(i)) =>
              RustVerdict = IF input = << >> THEN [kind |-> "empty", at |-> 1]
                            ELSE [kind |-> "ok", at |-> Len(input) + 1]
<1> DEFINE n == Len(input)
           stop == First(RustFault)
           bad == First(RustUndecodable)
           at == IF Misplaced(stop) THEN "unexpected"
                 ELSE IF OverGroups(stop) THEN "depth" ELSE "nest"
<1>1. n \in Nat /\ Positions = 1 .. n
  BY LenProperties DEF Positions
<1>2. /\ stop \in 1 .. n + 1 /\ (stop = n + 1 \/ (stop \in Positions /\ RustFault(stop)))
      /\ \A i \in Positions : RustFault(i) => stop <= i
  <2> DEFINE S == {i \in Positions : RustFault(i)}
  <2>1. S \in SUBSET (1 .. n) /\ stop = Min({n + 1} \cup S)
    BY DEF First, Positions
  <2>2. \A i \in S : i \in Positions /\ RustFault(i)
    OBVIOUS
  <2>3. stop \in 1 .. n + 1 /\ (stop = n + 1 \/ stop \in S) /\ \A i \in S : stop <= i
    <3> HIDE DEF S, stop
    <3> QED BY <1>1, <2>1, FirstOf
  <2> QED BY <2>2, <2>3
<1>3. /\ bad \in 1 .. n + 1
      /\ bad = n + 1 \/ (bad \in Positions /\ Undecodable(bad) /\ ~RustFault(bad))
      /\ \A i \in Positions : Undecodable(i) /\ ~RustFault(i) => bad <= i
  <2> DEFINE S == {i \in Positions : RustUndecodable(i)}
  <2>1. S \in SUBSET (1 .. n) /\ bad = Min({n + 1} \cup S)
    BY DEF First, Positions
  <2>2. /\ \A i \in S : i \in Positions /\ Undecodable(i) /\ ~RustFault(i)
        /\ \A i \in Positions : Undecodable(i) /\ ~RustFault(i) => i \in S
    BY DEF RustUndecodable
  <2>3. bad \in 1 .. n + 1 /\ (bad = n + 1 \/ bad \in S) /\ \A i \in S : bad <= i
    <3> HIDE DEF S, bad
    <3> QED BY <1>1, <2>1, FirstOf
  <2> QED BY <2>2, <2>3
<1>4. RustVerdict = CASE bad < stop -> [kind |-> "decode", at |-> bad]
                      [] bad >= stop /\ stop \in Positions -> [kind |-> at, at |-> stop]
                      [] input = << >> -> [kind |-> "empty", at |-> 1]
                      [] OTHER -> [kind |-> "ok", at |-> n + 1]
  BY DEF RustVerdict
<1>5. at = IF Misplaced(stop) THEN "unexpected" ELSE IF OverGroups(stop) THEN "depth" ELSE "nest"
  OBVIOUS
<1>6. (bad < stop => input # << >>) /\ (stop \in Positions => input # << >>)
  <2> HIDE DEF stop, bad
  <2>1. input = << >> => n = 0
    OBVIOUS
  <2> HIDE DEF n
  <2> QED BY <1>1, <1>2, <1>3, <2>1
<1> HIDE DEF stop, bad, at
<1>7. bad \in Int /\ stop \in Int
  BY <1>2, <1>3
<1>8. /\ bad < stop => RustVerdict = [kind |-> "decode", at |-> bad]
      /\ ~(bad < stop) /\ stop \in Positions => RustVerdict = [kind |-> at, at |-> stop]
      /\ ~(bad < stop) /\ stop \notin Positions =>
           RustVerdict = IF input = << >> THEN [kind |-> "empty", at |-> 1]
                         ELSE [kind |-> "ok", at |-> n + 1]
  <2>1. CASE bad < stop
    BY <1>4, <1>6, <1>7, <2>1
  <2>2. CASE bad >= stop /\ stop \in Positions
    BY <1>4, <1>6, <1>7, <2>2
  <2>3. CASE bad >= stop /\ stop \notin Positions
    BY <1>4, <1>7, <2>3
  <2> QED BY <1>7, <2>1, <2>2, <2>3
<1>9. ASSUME NEW b \in Positions, Undecodable(b), \A i \in 1 .. b - 1 : ~Undecodable(i),
             \A i \in 1 .. b : ~RustFault(i)
      PROVE  RustVerdict = [kind |-> "decode", at |-> b]
  <2>1. bad = b
    BY <1>1, <1>3, <1>9
  <2>2. b < stop
    BY <1>1, <1>2, <1>9
  <2> QED BY <1>8, <2>1, <2>2
<1>10. ASSUME NEW p \in Positions, RustFault(p),
              \A i \in 1 .. p - 1 : ~RustFault(i) /\ ~Undecodable(i)
       PROVE  stop = p /\ RustVerdict = [kind |-> at, at |-> stop]
  <2>1. stop = p
    BY <1>1, <1>2, <1>10
  <2>2. ~(bad < p)
    BY <1>1, <1>3, <1>10
  <2> QED BY <1>8, <2>1, <2>2
<1>11. ASSUME \A i \in Positions : ~RustFault(i) /\ ~Undecodable(i)
       PROVE  RustVerdict = IF input = << >> THEN [kind |-> "empty", at |-> 1]
                            ELSE [kind |-> "ok", at |-> n + 1]
  <2>1. stop = n + 1 /\ bad = n + 1 /\ stop \notin Positions /\ ~(bad < stop)
    BY <1>1, <1>2, <1>3, <1>11
  <2> QED BY <1>8, <2>1
<1> QED BY <1>5, <1>9, <1>10, <1>11

-----------------------------------------------------------------------------
(* The groups that are open, and what they hold so far, read off the       *)
(* tokens. Not once a decoder has complained: nothing can win over that.   *)

\* The groups opened at or behind j and still open at p.
Net(j, p) == Count("LP", j, p - 1) - Count("RP", j, p - 1)

\* The g groups open at p were opened at o[1] < ... < o[g].
Opened(o, p, g) ==
  \A k \in 1 .. g :
    /\ o[k] \in 1 .. p - 1 /\ KindAt(o[k]) = "LP" /\ Net(o[k], p) = g - k + 1
    /\ \A j \in o[k] + 1 .. p : Net(j, p) <= g - k
    /\ k < g => o[k] < o[k + 1]

\* What stands in the innermost is v deep, and in each of those around it,
\* up to the next, as deep as was saved.
Filled(o, p, saved, v) ==
  \A k \in 1 .. Len(saved) :
    IF k = Len(saved) THEN Fits(TokenHeight, o[k] + 1 .. p - 1, v)
    ELSE Fits(TokenHeight, o[k] + 1 .. o[k + 1] - 1, saved[k + 1])
Nested(p, saved, v) == \E o : Opened(o, p, Len(saved)) /\ Filled(o, p, saved, v)

\* An element has been read, and its group has not been told of it yet.
Awaited(f) == f.phase = "close" /\ (f.rule = "elem" \/ (f.rule = "atom" /\ ~f.grouped))
Due(f, p) == IF Awaited(f) THEN TokenHeight[p - 1] ELSE 0
Raised(v, w) == IF v < w THEN w ELSE v
\* What the frame holds of it, where NEST_KEY is n.
Owed(f, p, n) ==
  /\ f.rule = "elem" /\ f.phase = "close" =>
       IF f.child = Undef THEN Due(f, p) = 0 ELSE Due(f, p) = n /\ n > 0
  /\ f.rule = "atom" /\ f.phase = "close" /\ ~f.grouped =>
       Due(f, p) = IF f.node = Undef THEN 0 ELSE 1

Told ==
  ~Rest /\ decodeErr = 0 =>
    Nested(pos, outer, Raised(level, Due(Top, pos))) /\ Owed(Top, pos, nest)

\* Nothing too deep has been passed.
Kept ==
  \A i \in 1 .. pos - 1 : decodeErr = 0 \/ i <= decodeErr => ~OverGroups(i) /\ ~OverNested(i)

VInv == HInv /\ RustVerdictExact /\ (Running => Placed /\ Kept /\ Told)

-----------------------------------------------------------------------------
(* One token further on.                                                   *)

LEMMA NetNext ==
  ASSUME NEW j \in Nat, NEW p \in Nat, j <= p
  PROVE  /\ Net(j, p) \in Int
         /\ Net(j, p + 1) = Net(j, p) + (IF KindAt(p) = "LP" THEN 1 ELSE 0)
                                      - (IF KindAt(p) = "RP" THEN 1 ELSE 0)
<1>1. (p + 1) - 1 = p
  OBVIOUS
<1>2. /\ Count("LP", j, p) = Count("LP", j, p - 1) + (IF KindAt(p) = "LP" THEN 1 ELSE 0)
      /\ Count("RP", j, p) = Count("RP", j, p - 1) + (IF KindAt(p) = "RP" THEN 1 ELSE 0)
      /\ Count("LP", j, p - 1) \in Nat /\ Count("RP", j, p - 1) \in Nat
  BY CountNext
<1>3. Net(j, p + 1) = Count("LP", j, p) - Count("RP", j, p)
  BY <1>1 DEF Net
<1> QED BY <1>2, <1>3 DEF Net

LEMMA NetNone == ASSUME NEW p \in Nat PROVE Net(p, p) = 0
<1>1. \A kind : Count(kind, p, p - 1) = 0
  <2> TAKE kind
  <2>1. {j \in p .. p - 1 : KindAt(j) = kind} = {}
    OBVIOUS
  <2> QED BY <2>1, FS_EmptySet DEF Count
<1> QED BY <1>1 DEF Net

LEMMA NetOn ==
  ASSUME NEW j \in Nat, NEW p \in Nat, j <= p
  PROVE  /\ Net(j, p) \in Int
         /\ KindAt(p) = "LP" => Net(j, p + 1) = Net(j, p) + 1
         /\ KindAt(p) = "RP" => Net(j, p + 1) = Net(j, p) - 1
         /\ KindAt(p) \notin {"LP", "RP"} => Net(j, p + 1) = Net(j, p)
<1>1. /\ Net(j, p) \in Int
      /\ Net(j, p + 1) = Net(j, p) + (IF KindAt(p) = "LP" THEN 1 ELSE 0)
                                   - (IF KindAt(p) = "RP" THEN 1 ELSE 0)
  BY NetNext
<1> QED BY <1>1

LEMMA OpenedSame ==
  ASSUME NEW o, NEW p \in Nat \ {0}, NEW g \in Nat, Opened(o, p, g), KindAt(p) \notin {"LP", "RP"}
  PROVE  Opened(o, p + 1, g)
<1> SUFFICES ASSUME NEW k \in 1 .. g
             PROVE  /\ o[k] \in 1 .. (p + 1) - 1 /\ KindAt(o[k]) = "LP" /\ Net(o[k], p + 1) = g - k + 1
                    /\ \A j \in o[k] + 1 .. p + 1 : Net(j, p + 1) <= g - k
                    /\ k < g => o[k] < o[k + 1]
  BY DEF Opened
<1>1. /\ o[k] \in 1 .. p - 1 /\ KindAt(o[k]) = "LP" /\ Net(o[k], p) = g - k + 1
      /\ \A j \in o[k] + 1 .. p : Net(j, p) <= g - k
      /\ k < g => o[k] < o[k + 1]
  BY DEF Opened
<1>2. Net(o[k], p + 1) = g - k + 1
  BY <1>1, NetOn
<1>3. ASSUME NEW j \in o[k] + 1 .. p + 1 PROVE Net(j, p + 1) <= g - k
  <2>1. CASE j = p + 1
    <3>1. Net(p + 1, p + 1) = 0
      BY NetNone
    <3> QED BY <2>1, <3>1
  <2>2. CASE j # p + 1
    <3>1. j \in o[k] + 1 .. p /\ j \in Nat /\ j <= p
      BY <1>1, <2>2
    <3> QED BY <1>1, <3>1, NetOn
  <2> QED BY <2>1, <2>2
<1> QED BY <1>1, <1>2, <1>3

\* A group closes.
LEMMA OpenedLess ==
  ASSUME NEW o, NEW p \in Nat \ {0}, NEW g \in Nat \ {0}, Opened(o, p, g), KindAt(p) = "RP"
  PROVE  Opened(o, p + 1, g - 1)
<1> SUFFICES ASSUME NEW k \in 1 .. g - 1
             PROVE  /\ o[k] \in 1 .. (p + 1) - 1 /\ KindAt(o[k]) = "LP"
                    /\ Net(o[k], p + 1) = (g - 1) - k + 1
                    /\ \A j \in o[k] + 1 .. p + 1 : Net(j, p + 1) <= (g - 1) - k
                    /\ k < g - 1 => o[k] < o[k + 1]
  BY DEF Opened
<1>1. /\ o[k] \in 1 .. p - 1 /\ KindAt(o[k]) = "LP" /\ Net(o[k], p) = g - k + 1
      /\ \A j \in o[k] + 1 .. p : Net(j, p) <= g - k
      /\ k < g => o[k] < o[k + 1]
  BY DEF Opened
<1>2. Net(o[k], p + 1) = (g - 1) - k + 1
  BY <1>1, NetOn
<1>3. ASSUME NEW j \in o[k] + 1 .. p + 1 PROVE Net(j, p + 1) <= (g - 1) - k
  <2>1. CASE j = p + 1
    <3>1. Net(p + 1, p + 1) = 0
      BY NetNone
    <3> QED BY <2>1, <3>1
  <2>2. CASE j # p + 1
    <3>1. j \in o[k] + 1 .. p /\ j \in Nat /\ j <= p
      BY <1>1, <2>2
    <3>2. Net(j, p + 1) = Net(j, p) - 1 /\ Net(j, p) \in Int
      BY <3>1, NetOn
    <3> QED BY <1>1, <3>1, <3>2
  <2> QED BY <2>1, <2>2
<1> QED BY <1>1, <1>2, <1>3

\* A group opens.
LEMMA OpenedMore ==
  ASSUME NEW o, NEW p \in Nat \ {0}, NEW g \in Nat, Opened(o, p, g), KindAt(p) = "LP",
         NEW q, q[g + 1] = p, \A k \in 1 .. g : q[k] = o[k]
  PROVE  Opened(q, p + 1, g + 1)
<1> SUFFICES ASSUME NEW k \in 1 .. g + 1
             PROVE  /\ q[k] \in 1 .. (p + 1) - 1 /\ KindAt(q[k]) = "LP"
                    /\ Net(q[k], p + 1) = (g + 1) - k + 1
                    /\ \A j \in q[k] + 1 .. p + 1 : Net(j, p + 1) <= (g + 1) - k
                    /\ k < g + 1 => q[k] < q[k + 1]
  BY DEF Opened
<1>0. Net(p + 1, p + 1) = 0 /\ Net(p, p) = 0
  BY NetNone
<1>1. CASE k = g + 1
  <2>1. Net(p, p + 1) = 1
    BY <1>0, NetOn
  <2>2. \A j \in p + 1 .. p + 1 : j = p + 1
    OBVIOUS
  <2> QED BY <1>0, <1>1, <2>1, <2>2
<1>2. CASE k # g + 1
  <2>1. k \in 1 .. g /\ q[k] = o[k] /\ (k < g => q[k + 1] = o[k + 1])
    BY <1>2
  <2>2. /\ o[k] \in 1 .. p - 1 /\ KindAt(o[k]) = "LP" /\ Net(o[k], p) = g - k + 1
        /\ \A j \in o[k] + 1 .. p : Net(j, p) <= g - k
        /\ k < g => o[k] < o[k + 1]
    BY <2>1 DEF Opened
  <2>3. Net(o[k], p + 1) = (g + 1) - k + 1
    BY <2>2, NetOn
  <2>4. ASSUME NEW j \in o[k] + 1 .. p + 1 PROVE Net(j, p + 1) <= (g + 1) - k
    <3>1. CASE j = p + 1
      BY <1>0, <3>1
    <3>2. CASE j # p + 1
      <4>1. j \in o[k] + 1 .. p /\ j \in Nat /\ j <= p
        BY <2>2, <3>2
      <4>2. Net(j, p + 1) = Net(j, p) + 1 /\ Net(j, p) \in Int
        BY <4>1, NetOn
      <4> QED BY <2>2, <4>1, <4>2
    <3> QED BY <3>1, <3>2
  <2>5. q[k] < q[k + 1]
    <3>1. CASE k = g
      BY <2>1, <2>2, <3>1
    <3>2. CASE k # g
      BY <2>1, <2>2, <3>2
    <3> QED BY <3>1, <3>2
  <2> QED BY <2>1, <2>2, <2>3, <2>4, <2>5
<1> QED BY <1>1, <1>2

\* The `)` at p closes the innermost.
LEMMA OpenerIs ==
  ASSUME NEW o, NEW p \in Nat \ {0}, NEW g \in Nat \ {0}, Opened(o, p, g), KindAt(p) = "RP"
  PROVE  Opener(p) = o[g]
<1> DEFINE S == {0} \cup {j \in 1 .. p : KindAt(j) = "LP" /\ Count("LP", j, p) = Count("RP", j, p)}
<1>1. /\ o[g] \in 1 .. p - 1 /\ KindAt(o[g]) = "LP" /\ Net(o[g], p) = 1
      /\ \A j \in o[g] + 1 .. p : Net(j, p) <= 0
  <2>1. g \in 1 .. g /\ g - g + 1 = 1 /\ g - g = 0
    OBVIOUS
  <2> QED BY <2>1 DEF Opened
<1>2. \A j \in 1 .. p : Count("LP", j, p) = Count("RP", j, p) <=> Net(j, p + 1) = 0
  <2> TAKE j \in 1 .. p
  <2>1. Net(j, p + 1) = Count("LP", j, p) - Count("RP", j, p)
    <3>1. (p + 1) - 1 = p
      OBVIOUS
    <3> QED BY <3>1 DEF Net
  <2>2. Count("LP", j, p) \in Nat /\ Count("RP", j, p) \in Nat
    <3>1. j \in Nat /\ p + 1 \in Nat /\ j <= p + 1 /\ (p + 1) - 1 = p
      OBVIOUS
    <3>2. \A kind : Count(kind, j, (p + 1) - 1) \in Nat
      BY <3>1, CountNext
    <3> QED BY <3>1, <3>2
  <2> QED BY <2>1, <2>2
<1>3. o[g] \in S
  <2>1. Net(o[g], p + 1) = 0
    BY <1>1, NetOn
  <2>2. o[g] \in 1 .. p
    BY <1>1
  <2> QED BY <1>1, <1>2, <2>1, <2>2
<1>4. \A j \in S : j <= o[g]
  <2> SUFFICES ASSUME NEW j \in S, ~(j <= o[g]) PROVE FALSE
    OBVIOUS
  <2>1. j \in 1 .. p /\ KindAt(j) = "LP" /\ Net(j, p + 1) = 0
    BY <1>1, <1>2
  <2>2. j \in o[g] + 1 .. p /\ j \in Nat /\ j <= p
    BY <1>1, <2>1
  <2>3. Net(j, p + 1) = Net(j, p) - 1 /\ Net(j, p) \in Int
    BY <2>2, NetOn
  <2> QED BY <1>1, <2>1, <2>2, <2>3
<1>5. S \in SUBSET (0 .. p) /\ S # {}
  OBVIOUS
<1>6. Opener(p) = Max(S)
  BY DEF Opener
<1> HIDE DEF S
<1>7. Max(S) \in S /\ \A m \in S : m <= Max(S)
  BY <1>5, GreatestExists
<1>8. Max(S) \in Nat /\ o[g] \in Nat
  <2>1. Max(S) \in 0 .. p
    BY <1>5, <1>7
  <2>2. o[g] \in Nat
    BY <1>1
  <2> QED BY <2>1, <2>2
<1> QED BY <1>3, <1>4, <1>6, <1>7, <1>8

-----------------------------------------------------------------------------
(* What the groups hold, one token further on.                             *)

LEMMA RaisedType ==
  /\ \A v, w \in Nat : Raised(v, w) \in Nat /\ v <= Raised(v, w) /\ w <= Raised(v, w)
  /\ \A v \in Nat : Raised(v, 0) = v
BY DEF Raised

\* A token that neither opens nor closes a group.
LEMMA NestedSame ==
  ASSUME input \in Seq(Tokens), NEW p \in Positions, NEW saved \in Seq(Nat), NEW v,
         Nested(p, saved, v), KindAt(p) \notin {"LP", "RP"}
  PROVE  Nested(p + 1, saved, Raised(v, TokenHeight[p]))
<1> DEFINE g == Len(saved)
           w == Raised(v, TokenHeight[p])
<1>1. PICK o : Opened(o, p, g) /\ Filled(o, p, saved, v)
  BY DEF Nested
<1>2. g \in Nat /\ p \in Nat \ {0} /\ (p + 1) - 1 = p /\ Len(input) \in Nat /\ p \in 1 .. Len(input)
  BY LenProperties DEF Positions
<1>3. Opened(o, p + 1, g)
  BY <1>1, <1>2, OpenedSame
<1>4. ASSUME NEW k \in 1 .. g, k = g PROVE Fits(TokenHeight, o[k] + 1 .. (p + 1) - 1, w)
  <2> DEFINE M == o[k] + 1 .. p - 1
  <2>1. Fits(TokenHeight, M, v)
    BY <1>1, <1>4 DEF Filled
  <2>2. o[k] \in 1 .. p - 1
    BY <1>1 DEF Opened
  <2>3. M \cup {p} = o[k] + 1 .. (p + 1) - 1 /\ \A m \in M \cup {p} : m \in 0 .. Len(input)
    BY <1>2, <2>2
  <2>4. \A m \in M \cup {p} : TokenHeight[m] \in Nat
    BY <2>3, TokenHeightIs
  <2> HIDE DEF M
  <2>5. Fits(TokenHeight, M \cup {p}, IF v < TokenHeight[p] THEN TokenHeight[p] ELSE v)
    BY <2>1, <2>4, FitsMore
  <2> QED BY <2>3, <2>5 DEF Raised
<1>5. Filled(o, p + 1, saved, w)
  BY <1>1, <1>4 DEF Filled
<1> QED BY <1>3, <1>5 DEF Nested

\* A group opens.
LEMMA NestedMore ==
  ASSUME NEW p \in Nat \ {0}, NEW saved \in Seq(Nat), NEW v \in Nat,
         Nested(p, saved, v), KindAt(p) = "LP",
         NEW more \in Seq(Nat), Len(more) = Len(saved) + 1, more[Len(saved) + 1] = v,
         \A k \in 1 .. Len(saved) : more[k] = saved[k]
  PROVE  Nested(p + 1, more, 0)
<1> DEFINE g == Len(saved)
<1>1. PICK o : Opened(o, p, g) /\ Filled(o, p, saved, v)
  BY DEF Nested
<1>2. g \in Nat /\ (p + 1) - 1 = p
  BY LenProperties
<1> DEFINE q == [k \in 1 .. g + 1 |-> IF k = g + 1 THEN p ELSE o[k]]
<1>3. q[g + 1] = p /\ \A k \in 1 .. g : q[k] = o[k]
  BY <1>2
<1> HIDE DEF q
<1>4. Opened(q, p + 1, g + 1)
  BY <1>1, <1>2, <1>3, OpenedMore
<1>5. ASSUME NEW k \in 1 .. g + 1
      PROVE  IF k = g + 1 THEN Fits(TokenHeight, q[k] + 1 .. (p + 1) - 1, 0)
             ELSE Fits(TokenHeight, q[k] + 1 .. q[k + 1] - 1, more[k + 1])
  <2>1. CASE k = g + 1
    <3>1. q[k] + 1 .. (p + 1) - 1 = {}
      BY <1>2, <1>3, <2>1
    <3> QED BY <2>1, <3>1, FitsNone
  <2>2. CASE k = g
    <3>1. k \in 1 .. g /\ q[k] = o[k] /\ q[k + 1] = p /\ more[k + 1] = v /\ k # g + 1
      BY <1>2, <1>3, <2>2
    <3>2. Fits(TokenHeight, o[k] + 1 .. p - 1, v)
      BY <1>1, <2>2, <3>1 DEF Filled
    <3> QED BY <3>1, <3>2
  <2>3. CASE k \in 1 .. g - 1
    <3>1. k \in 1 .. g /\ k + 1 \in 1 .. g /\ k # g /\ k # g + 1
      BY <1>2, <2>3
    <3>2. q[k] = o[k] /\ q[k + 1] = o[k + 1] /\ more[k + 1] = saved[k + 1]
      BY <1>3, <3>1
    <3>3. Fits(TokenHeight, o[k] + 1 .. o[k + 1] - 1, saved[k + 1])
      BY <1>1, <3>1 DEF Filled
    <3> QED BY <3>1, <3>2, <3>3
  <2> QED BY <1>2, <2>1, <2>2, <2>3
<1>6. Filled(q, p + 1, more, 0)
  BY <1>2, <1>5 DEF Filled
<1> QED BY <1>4, <1>6 DEF Nested

\* The `)` at p is one deeper than what its group holds.
LEMMA HeightAtClose ==
  ASSUME input \in Seq(Tokens), NEW p \in Positions, NEW saved \in Seq(Nat), Len(saved) > 0,
         NEW v, Nested(p, saved, v), KindAt(p) = "RP"
  PROVE  v \in Nat /\ TokenHeight[p] = 1 + v
<1> DEFINE g == Len(saved)
           M == Opener(p) + 1 .. p - 1
<1>1. PICK o : Opened(o, p, g) /\ Filled(o, p, saved, v)
  BY DEF Nested
<1>2. g \in Nat \ {0} /\ p \in Nat \ {0} /\ Len(input) \in Nat /\ p \in 1 .. Len(input)
  BY LenProperties DEF Positions
<1>3. Opener(p) = o[g] /\ Opener(p) \in 0 .. p
  BY <1>1, <1>2, OpenerIs, OpenerType
<1>4. Fits(TokenHeight, M, v)
  <2>1. g \in 1 .. g
    BY <1>2
  <2> QED BY <1>1, <1>3, <2>1 DEF Filled
<1>5. M \in SUBSET (0 .. Len(input))
  BY <1>2, <1>3
<1>6. Tallest({TokenHeight[m] : m \in M}) = v
  <2> HIDE DEF M
  <2>1. TokenHeight \in [0 .. Len(input) -> Nat]
    BY TokenHeightIs
  <2> QED BY <1>4, <1>5, <2>1, FitsTallest
<1>7. p \in 0 .. Len(input)
  BY <1>2
<1>8. TokenHeight[p] = TokenHeightOf(TokenHeight, p)
  BY <1>7, TokenHeightIs
<1> QED BY <1>4, <1>6, <1>8 DEF TokenHeightOf, Fits

\* A group closes, and the one around it holds one element more.
LEMMA NestedLess ==
  ASSUME input \in Seq(Tokens), NEW p \in Positions, NEW saved \in Seq(Nat), Len(saved) > 0,
         NEW v, Nested(p, saved, v), KindAt(p) = "RP",
         NEW less \in Seq(Nat), Len(less) = Len(saved) - 1,
         \A k \in 1 .. Len(saved) - 1 : less[k] = saved[k]
  PROVE  Nested(p + 1, less, Raised(saved[Len(saved)], 1 + v))
<1> DEFINE g == Len(saved)
           w == Raised(saved[g], 1 + v)
<1>1. PICK o : Opened(o, p, g) /\ Filled(o, p, saved, v)
  BY DEF Nested
<1>2. /\ g \in Nat \ {0} /\ p \in Nat \ {0} /\ Len(input) \in Nat /\ p \in 1 .. Len(input)
      /\ (p + 1) - 1 = p
  BY LenProperties DEF Positions
<1>3. Opened(o, p + 1, g - 1)
  BY <1>1, <1>2, OpenedLess
<1>4. v \in Nat /\ TokenHeight[p] = 1 + v
  BY HeightAtClose
<1>5. ASSUME NEW k \in 1 .. g - 1
      PROVE  IF k = g - 1 THEN Fits(TokenHeight, o[k] + 1 .. (p + 1) - 1, w)
             ELSE Fits(TokenHeight, o[k] + 1 .. o[k + 1] - 1, less[k + 1])
  <2>1. k \in 1 .. g /\ k # g /\ k < g /\ k \in Nat
    BY <1>2
  <2>2. Fits(TokenHeight, o[k] + 1 .. o[k + 1] - 1, saved[k + 1])
    BY <1>1, <2>1 DEF Filled
  <2>3. CASE k # g - 1
    <3>1. k + 1 \in 1 .. g - 1
      BY <1>2, <2>3
    <3> QED BY <2>2, <2>3, <3>1
  <2>4. CASE k = g - 1
    <3> DEFINE a == o[k]
               b == o[g]
               s == saved[g]
               N == a + 1 .. b - 1
    <3>1. k + 1 = g /\ g \in 1 .. g
      BY <1>2, <2>4
    <3>2. a \in 1 .. p - 1 /\ b \in 1 .. p - 1 /\ a < b
      BY <1>1, <2>1, <3>1 DEF Opened
    <3>3. Fits(TokenHeight, N, s)
      BY <2>2, <3>1
    <3>4. Fits(TokenHeight, b + 1 .. p - 1, v)
      BY <1>1, <3>1 DEF Filled
    <3>5. KindAt(b) = "LP" /\ b \in 0 .. Len(input)
      BY <1>1, <1>2, <3>1, <3>2 DEF Opened
    <3>6. TokenHeight[b] = 0
      <4>1. TokenHeight[b] = TokenHeightOf(TokenHeight, b)
        BY <3>5, TokenHeightIs
      <4> QED BY <3>5, <4>1 DEF TokenHeightOf
    <3>7. s \in Nat
      BY <3>1, ElementOfSeq
    <3>8. w \in Nat /\ s <= w /\ 1 + v <= w /\ (w = s \/ w = 1 + v)
      BY <1>4, <3>7 DEF Raised
    <3> HIDE DEF a, b, s, w
    <3>9. /\ N \subseteq a + 1 .. p
          /\ \A m \in a + 1 .. p : m \in N \/ m = b \/ m \in b + 1 .. p - 1 \/ m = p
      BY <1>2, <3>2
    <3> HIDE DEF N
    <3>10. ASSUME NEW m \in a + 1 .. p PROVE TokenHeight[m] <= w
      <4>1. m \in 0 .. Len(input)
        BY <1>2, <3>2
      <4>2. TokenHeight[m] \in Nat
        BY <4>1, TokenHeightIs
      <4>3. CASE m \in N
        <5>1. TokenHeight[m] <= s
          BY <3>3, <4>3 DEF Fits
        <5> QED BY <3>7, <3>8, <4>2, <5>1
      <4>4. CASE m = b
        BY <3>6, <3>8, <4>4
      <4>5. CASE m \in b + 1 .. p - 1
        <5>1. TokenHeight[m] <= v
          BY <3>4, <4>5 DEF Fits
        <5> QED BY <1>4, <3>8, <4>2, <5>1
      <4>6. CASE m = p
        BY <1>4, <3>8, <4>6
      <4> QED BY <3>9, <4>3, <4>4, <4>5, <4>6
    <3>11. w = 0 \/ \E m \in a + 1 .. p : TokenHeight[m] = w
      <4>1. CASE w = 1 + v
        <5>1. p \in a + 1 .. p
          BY <1>2, <3>2
        <5> QED BY <1>4, <4>1, <5>1
      <4>2. CASE w = s
        <5>1. s = 0 \/ \E m \in N : TokenHeight[m] = s
          BY <3>3 DEF Fits
        <5>2. N \subseteq a + 1 .. p
          BY <3>9
        <5> QED BY <4>2, <5>1, <5>2
      <4> QED BY <3>8, <4>1, <4>2
    <3>12. Fits(TokenHeight, a + 1 .. p, w)
      BY <3>8, <3>10, <3>11 DEF Fits
    <3> QED BY <1>2, <2>4, <3>12 DEF a
  <2> QED BY <2>3, <2>4
<1>6. Filled(o, p + 1, less, w)
  BY <1>2, <1>5 DEF Filled
<1> QED BY <1>2, <1>3, <1>6 DEF Nested

-----------------------------------------------------------------------------
(* What a step leaves of the invariant.                                    *)

LEMMA ToldNext ==
  ASSUME input' = input, input \in Seq(Tokens),
         ~Rest' /\ decodeErr' = 0 =>
           Nested(pos', outer', Raised(level', Due(Top', pos'))) /\ Owed(Top', pos', nest')
  PROVE  Told'
<1> DEFINE w == Raised(level, Due(Top, pos))
           w1 == Raised(level', Due(Top', pos'))
<1>1. TokenHeight' = TokenHeight /\ \A i : KindAt(i)' = KindAt(i)
  BY SameHeights, SameTokens
<1>2. w' = w1
  BY <1>1 DEF Raised, Due, Awaited
<1>3. \A j : Net(j, pos') = Net(j, pos)'
  BY <1>1 DEF Net, Count
<1>5. \A o : Opened(o, pos', Len(outer')) <=> Opened(o, pos, Len(outer))'
  BY <1>1, <1>3 DEF Opened
<1> HIDE DEF w, w1
<1>6. \A o : Filled(o, pos', outer', w1) <=> Filled(o, pos, outer, w)'
  BY <1>1, <1>2 DEF Filled, Fits
<1>7. Nested(pos', outer', w1) <=> Nested(pos, outer, w)'
  BY <1>5, <1>6 DEF Nested
<1>8. Owed(Top', pos', nest') <=> Owed(Top, pos, nest)'
  BY <1>1 DEF Owed, Due, Awaited
<1>9. Told' <=> ((~Rest)' /\ decodeErr' = 0 => Nested(pos, outer, w)' /\ Owed(Top, pos, nest)')
  BY DEF Told, w
<1> QED BY <1>7, <1>8, <1>9 DEF w1

LEMMA KeptNext ==
  ASSUME TypeOK, input' = input, Kept, Recorded(pos, decodeErr), NEW p \in Nat, pos' = p,
         decodeErr = 0 => \A i \in pos .. p - 1 : ~OverGroups(i) /\ ~OverNested(i),
         decodeErr # 0 => decodeErr' = decodeErr
  PROVE  Kept'
<1>1. input \in Seq(Tokens) /\ pos \in Nat \ {0}
  BY TokensAhead DEF TypeOK
<1>2. \A i \in 1 .. p - 1 : decodeErr' = 0 \/ i <= decodeErr' => ~OverGroups(i) /\ ~OverNested(i)
  <2> SUFFICES ASSUME NEW i \in 1 .. p - 1, decodeErr' = 0 \/ i <= decodeErr'
               PROVE  ~OverGroups(i) /\ ~OverNested(i)
    OBVIOUS
  <2>1. CASE decodeErr = 0
    <3>1. i \in 1 .. pos - 1 \/ i \in pos .. p - 1
      BY <1>1
    <3> QED BY <2>1, <3>1 DEF Kept
  <2>2. CASE decodeErr # 0
    <3>1. decodeErr' = decodeErr /\ i <= decodeErr /\ decodeErr \in 1 .. pos - 1
      BY <2>2 DEF Recorded
    <3>2. i \in 1 .. pos - 1
      BY <1>1, <3>1
    <3> QED BY <3>1, <3>2 DEF Kept
  <2> QED BY <2>1, <2>2
<1> QED BY <1>1, <1>2, SameHeights DEF Kept

\* A step that takes no token, and neither opens nor closes a group.
LEMMA Quiet ==
  ASSUME FInv, Placed, Kept, Told, UNCHANGED <<input, pos, decodeErr, outer>>,
         ~Rest /\ decodeErr = 0 /\ Owed(Top, pos, nest) =>
           Raised(level', Due(Top', pos)) = Raised(level, Due(Top, pos)) /\ Owed(Top', pos, nest')
  PROVE  Kept' /\ Told'
<1>1. TypeOK /\ input \in Seq(Tokens) /\ pos \in Nat \ {0} /\ Recorded(pos, decodeErr)
  BY Current DEF TypeOK, Placed
<1>2. Kept'
  <2>1. \A i \in pos .. pos - 1 : FALSE
    BY <1>1
  <2> QED BY <1>1, <2>1, KeptNext
<1>3. Rest' = Rest
  BY SameAhead
<1>4. Told'
  BY <1>1, <1>3, ToldNext DEF Told
<1> QED BY <1>2, <1>4

LEMMA NotAwaited ==
  ASSUME NEW f, NEW p, NEW n, ~Awaited(f)
  PROVE  Due(f, p) = 0 /\ Owed(f, p, n)
BY DEF Due, Owed, Awaited

\* A step of the rules that are not waiting for an element.
LEMMA Passed ==
  ASSUME FInv, Placed, Kept, Told, UNCHANGED <<input, pos, decodeErr, level, outer>>,
         ~Awaited(Top), ~Awaited(Top')
  PROVE  Kept' /\ Told'
<1>1. Due(Top, pos) = 0 /\ Due(Top', pos) = 0 /\ Owed(Top', pos, nest')
  BY NotAwaited
<1> QED BY <1>1, Quiet

LEMMA PushedTop ==
  ASSUME FInv, NEW f, NEW rule, stack' = PushRule(f, rule)
  PROVE  Top' = NewFrame(rule, f.node)
<1> DEFINE g == [f EXCEPT !.phase = "close"]
           e == NewFrame(rule, f.node)
           S == Frames \cup {g, e}
           n == Len(stack)
<1>1. stack \in Seq(Frames) /\ n \in Nat \ {0}
  BY TopFacts DEF FInv, IInv, TypeOK
<1>2. stack \in Seq(S) /\ n \in 1 .. n
  BY <1>1, LenProperties, SeqDef
<1>3. Stay(f) \in Seq(S) /\ e \in S
  BY <1>2, ExceptSeq DEF Stay
<1>4. stack' = Append(Stay(f), e)
  BY DEF PushRule
<1> HIDE DEF e, S
<1>5. Top' = e
  BY <1>3, <1>4, AppendProperties DEF Top
<1> QED BY <1>5 DEF e

LEMMA OpensTold ==
  ASSUME FInv, Placed, Kept, Told, OpenGbnf \/ OpenAlts \/ OpenSeq \/ OpenElem, UNCHANGED registers
  PROVE  Kept' /\ Told'
<1>1. UNCHANGED <<input, pos, decodeErr, level, outer>> /\ ~Awaited(Top)
  BY DEF OpenGbnf, OpenAlts, OpenSeq, OpenElem, registers, At, Awaited
<1>2. \/ \E f, rule : stack' = PushRule(f, rule)
      \/ Top.rule \in {"gbnf", "seq"} /\ stack' = Stay([Top EXCEPT !.node = Fresh])
  BY DEF OpenGbnf, OpenAlts, OpenSeq, OpenElem, At
<1>3. ~Awaited(Top')
  <2>1. CASE \E f, rule : stack' = PushRule(f, rule)
    BY <2>1, PushedTop DEF NewFrame, Awaited
  <2>2. CASE Top.rule \in {"gbnf", "seq"} /\ stack' = Stay([Top EXCEPT !.node = Fresh])
    <3> DEFINE f == [Top EXCEPT !.node = Fresh]
    <3>1. f \in Frames /\ f.rule = Top.rule /\ Len(stack) # 2
      BY <2>2, Current DEF Frames
    <3> HIDE DEF f
    <3>2. Top'.rule = Top.rule
      BY <2>2, <3>1, Stayed DEF f
    <3> QED BY <2>2, <3>2 DEF Awaited
  <2> QED BY <1>2, <2>1, <2>2
<1> QED BY <1>1, <1>3, Passed

LEMMA OpenProdTold ==
  ASSUME FInv, Registers, Placed, Kept, Told, OpenProd, UNCHANGED registers
  PROVE  Kept' /\ Told'
<1>1. /\ Top.rule = "prod" /\ ProdAt(pos) /\ stack' = PushRule([Top EXCEPT !.tok = pos], "alts")
      /\ pos' = pos + 2 /\ input' = input /\ decodeErr' = decodeErr /\ outer' = outer
  BY DEF OpenProd, At, registers
<1>2. TypeOK /\ input \in Seq(Tokens) /\ pos \in Nat \ {0} /\ Recorded(pos, decodeErr)
  BY Current DEF TypeOK, Placed
<1>3. ~Awaited(Top')
  BY <1>1, PushedTop DEF NewFrame, Awaited
<1>4. Len(outer) = 0
  BY <1>1 DEF Registers, OuterShape
<1>5. \A v : Nested(pos', outer', v)
  <2> TAKE v
  <2>1. Opened(<< >>, pos', Len(outer')) /\ Filled(<< >>, pos', outer', v)
    BY <1>1, <1>4 DEF Opened, Filled
  <2> QED BY <2>1 DEF Nested
<1>6. Told'
  BY <1>1, <1>2, <1>3, <1>5, NotAwaited, ToldNext
<1>7. Kept'
  <2>1. \A i \in pos .. (pos + 2) - 1 : KindAt(i) \in {"NM", "DEF"}
    <3>1. \A i \in pos .. (pos + 2) - 1 : i = pos \/ i = pos + 1
      BY <1>2
    <3> QED BY <1>1, <3>1 DEF ProdAt
  <2>2. \A i \in pos .. (pos + 2) - 1 : ~OverGroups(i) /\ ~OverNested(i)
    BY <2>1 DEF OverGroups, OverNested
  <2>3. pos + 2 \in Nat
    BY <1>2
  <2> QED BY <1>1, <1>2, <2>2, <2>3, KeptNext
<1> QED BY <1>6, <1>7

LEMMA ClosesTold ==
  ASSUME FInv, Placed, Kept, Told, CloseSeq \/ CloseProd \/ (CloseAlts /\ KindAt(pos) # "ALT"),
         UNCHANGED registers
  PROVE  Kept' /\ Told'
<1>1. UNCHANGED <<input, pos, decodeErr, level, outer>> /\ ~Awaited(Top)
      /\ Top.rule \in {"seq", "prod", "alts"} /\ Top.phase = "close"
  BY DEF CloseSeq, CloseProd, CloseAlts, registers, At, Awaited
<1>2. \/ stack' = PopRule(Top.node)
      \/ \E f, rule : stack' = PushRule(f, rule)
      \/ Top.rule = "prod" /\ stack' = [stack EXCEPT ![Len(stack)] = NewFrame("prod", Top.node)]
  BY DEF CloseSeq, CloseProd, CloseAlts, At
<1>3. Top \in Frames /\ Top.node \in Nat
  BY Current DEF Frames
<1>4. ~Awaited(Top')
  <2>1. CASE stack' = PopRule(Top.node)
    <3>1. Top.rule # "gbnf"
      BY <1>1
    <3>2. /\ Top.rule = "prod" => Top'.rule = "gbnf"
          /\ Top.rule = "alts" => Top'.rule = "prod" \/ (Top'.rule = "atom" /\ Top'.grouped)
          /\ Top.rule = "seq" => Top'.rule = "alts"
      BY <1>3, <2>1, <3>1, LeftRule
    <3> QED BY <1>1, <3>2 DEF Awaited
  <2>2. CASE \E f, rule : stack' = PushRule(f, rule)
    BY <2>2, PushedTop DEF NewFrame, Awaited
  <2>3. CASE Top.rule = "prod" /\ stack' = [stack EXCEPT ![Len(stack)] = NewFrame("prod", Top.node)]
    <3> DEFINE g == NewFrame("prod", Top.node)
               n == Len(stack)
    <3>1. g \in Frames /\ ~Awaited(g)
      BY <1>3 DEF NewFrame, Frames, Rules, Undef, Awaited
    <3>2. stack \in Seq(Frames) /\ n \in Nat \ {0}
      BY Current
    <3>3. n \in 1 .. n /\ stack' = [stack EXCEPT ![n] = g]
      BY <2>3, <3>2
    <3> HIDE DEF g, n
    <3>4. Len(stack') = n /\ stack'[n] = g
      BY <3>1, <3>2, <3>3, ExceptSeq DEF n
    <3> QED BY <3>1, <3>4 DEF Top
  <2> QED BY <1>2, <2>1, <2>2, <2>3
<1> QED BY <1>1, <1>4, Passed

\* A step past a token that is not a boundary.
LEMMA Moved ==
  ASSUME FInv, Placed, Kept, Told, ~Rest, input' = input, pos' = pos + 1,
         ~OverGroups(pos), decodeErr = 0 => ~OverNested(pos),
         decodeErr # 0 => decodeErr' = decodeErr,
         /\ decodeErr' = 0
         /\ decodeErr = 0
         /\ Nested(pos, outer, Raised(level, Due(Top, pos)))
         /\ Owed(Top, pos, nest)
         => Nested(pos + 1, outer', Raised(level', Due(Top', pos + 1))) /\ Owed(Top', pos + 1, nest')
  PROVE  Kept' /\ Told'
<1>1. TypeOK /\ input \in Seq(Tokens) /\ pos \in Nat \ {0} /\ Recorded(pos, decodeErr)
  BY Current DEF TypeOK, Placed
<1>2. Kept'
  <2>1. \A i \in pos .. (pos + 1) - 1 : i = pos
    BY <1>1
  <2>2. pos + 1 \in Nat
    BY <1>1
  <2> QED BY <1>1, <2>1, <2>2, KeptNext
<1>3. Told'
  BY <1>1, ToldNext DEF Told
<1> QED BY <1>2, <1>3

LEMMA HeightHere ==
  ASSUME FInv, KindAt(pos) # "ZZ"
  PROVE  /\ input \in Seq(Tokens) /\ pos \in Positions /\ pos \in Nat \ {0} /\ (pos + 1) - 1 = pos
         /\ TokenHeight[pos] \in Nat /\ TokenHeight[pos - 1] \in Nat
         /\ KindAt(pos) \in {"TERM", "NM"} => TokenHeight[pos] = 1
         /\ KindAt(pos) = "POST" =>
              TokenHeight[pos] = IF TokenHeight[pos - 1] = 0 THEN 0
                                 ELSE TokenHeight[pos - 1] + Wraps(input[pos].ops)
         /\ KindAt(pos) \in {"LP", "ALT", "EMPTY", "BADTERM", "DEF"} => TokenHeight[pos] = 0
<1>1. TypeOK /\ input \in Seq(Tokens)
  BY DEF FInv, IInv, TypeOK
<1>2. /\ Positions = 1 .. Len(input) /\ Len(input) \in Nat /\ pos \in Nat \ {0} /\ pos \in Positions
  BY <1>1, TokensAhead
<1>3. pos \in 0 .. Len(input) /\ pos - 1 \in 0 .. Len(input) /\ (pos + 1) - 1 = pos
  BY <1>2
<1>4. TokenHeight \in [0 .. Len(input) -> Nat] /\ TokenHeight[pos] = TokenHeightOf(TokenHeight, pos)
  BY <1>1, <1>3, TokenHeightIs
<1>5. TokenHeight[pos] \in Nat /\ TokenHeight[pos - 1] \in Nat
  BY <1>3, <1>4
<1>6. /\ KindAt(pos) \in {"TERM", "NM"} => TokenHeight[pos] = 1
      /\ KindAt(pos) = "POST" =>
              TokenHeight[pos] = IF TokenHeight[pos - 1] = 0 THEN 0
                                 ELSE TokenHeight[pos - 1] + Wraps(input[pos].ops)
      /\ KindAt(pos) \in {"LP", "ALT", "EMPTY", "BADTERM", "DEF"} => TokenHeight[pos] = 0
  BY <1>4 DEF TokenHeightOf
<1> QED BY <1>1, <1>2, <1>3, <1>5, <1>6

LEMMA RustAtomTold ==
  ASSUME FInv, Registers, Placed, Kept, Told, RustAtom
  PROVE  Kept' /\ Told'
<1>0. DeferDecode
  BY RustDefersAssumption
<1>1. /\ At("atom", "open") /\ input' = input /\ pos' = pos + 1 /\ UNCHANGED <<level, outer>> /\ nest' = 1
      /\ KindAt(pos) \in {"TERM", "NM", "EMPTY", "BADTERM"}
      /\ \/ /\ KindAt(pos) \in {"TERM", "NM"} /\ decodeErr' = decodeErr
            /\ stack' = Stay([Top EXCEPT !.node = Fresh])
         \/ /\ KindAt(pos) = "EMPTY" /\ decodeErr' = decodeErr
            /\ stack' = Stay([Top EXCEPT !.node = Undef])
         \/ KindAt(pos) = "BADTERM" /\ decodeErr' = FirstError(pos)
  BY <1>0 DEF RustAtom, AtomTerm, AtomEmpty, AtomBad
<1>2. /\ Top.rule = "atom" /\ Top.phase = "open" /\ Top.grouped = FALSE /\ Len(stack) # 2
      /\ Top \in Frames /\ Fresh \in Nat /\ Fresh # Undef
  BY <1>1, AtomAhead, Current
<1>3. ~Rest /\ KindAt(pos) # "ZZ" /\ ~OverGroups(pos) /\ ~OverNested(pos)
  BY <1>1, AtomAhead DEF Rest, OverGroups, OverNested
<1>4. input \in Seq(Tokens) /\ pos \in Positions /\ pos \in Nat \ {0} /\ (pos + 1) - 1 = pos
      /\ (KindAt(pos) \in {"TERM", "NM"} => TokenHeight[pos] = 1)
      /\ (KindAt(pos) = "EMPTY" => TokenHeight[pos] = 0)
  BY <1>3, HeightHere
<1>5. decodeErr # 0 => decodeErr' = decodeErr
  BY <1>1 DEF FirstError
<1>6. decodeErr = 0 /\ KindAt(pos) = "BADTERM" => decodeErr' # 0
  BY <1>1, <1>4 DEF FirstError
<1>7. ASSUME decodeErr' = 0, decodeErr = 0, Nested(pos, outer, Raised(level, Due(Top, pos)))
      PROVE  Nested(pos + 1, outer', Raised(level', Due(Top', pos + 1))) /\ Owed(Top', pos + 1, nest')
  <2> DEFINE node == IF KindAt(pos) = "EMPTY" THEN Undef ELSE Fresh
             f == [Top EXCEPT !.node = node]
  <2>1. KindAt(pos) \in {"TERM", "NM", "EMPTY"} /\ stack' = Stay(f)
    BY <1>1, <1>6, <1>7
  <2>2. f \in Frames /\ f.rule = "atom" /\ f.node = node /\ ~f.grouped
    BY <1>2 DEF Frames, Undef
  <2> HIDE DEF f
  <2>3. Top'.rule = "atom" /\ Top'.phase = "close" /\ Top'.node = node /\ ~Top'.grouped
    BY <1>2, <2>1, <2>2, Stayed
  <2>4. Due(Top', pos + 1) = TokenHeight[pos]
    BY <1>4, <2>3 DEF Due, Awaited
  <2>5. TokenHeight[pos] = IF node = Undef THEN 0 ELSE 1
    BY <1>2, <1>4, <2>1
  <2>6. Owed(Top', pos + 1, nest')
    BY <2>3, <2>4, <2>5 DEF Owed
  <2>7. Raised(level, Due(Top, pos)) = level
    BY <1>2, NotAwaited, RaisedType DEF Awaited, Registers
  <2>8. Nested(pos + 1, outer, Raised(level, TokenHeight[pos]))
    <3>1. outer \in Seq(Nat) /\ KindAt(pos) \notin {"LP", "RP"}
      BY <2>1 DEF Registers
    <3> QED BY <1>4, <1>7, <2>7, <3>1, NestedSame
  <2> QED BY <1>1, <2>4, <2>6, <2>8
<1> QED BY <1>1, <1>3, <1>5, <1>7, Moved

LEMMA RustAtomGroupTold ==
  ASSUME FInv, Registers, Placed, Kept, Told, RustAtomGroup
  PROVE  Kept' /\ Told'
<1> DEFINE f == [Top EXCEPT !.node = Undef, !.tok = pos, !.grouped = TRUE]
<1>1. /\ At("atom", "open") /\ input' = input /\ pos' = pos + 1 /\ decodeErr' = decodeErr
      /\ KindAt(pos) = "LP" /\ stack' = PushRule(f, "alts") /\ ~TooManyGroups
      /\ level' = 0 /\ outer' = Append(outer, level)
  BY DEF RustAtomGroup, AtomGroup
<1> HIDE DEF f
<1>2. Top.phase = "open" /\ Len(stack) = 4 * OpenBefore(pos) + 6 /\ OpenBefore(pos) \in Int
  BY <1>1, AtomAhead
<1>3. ~Rest /\ KindAt(pos) # "ZZ" /\ ~OverNested(pos)
  BY <1>1, NoRest DEF OverNested
<1>4. ~OverGroups(pos)
  <2>1. Depth = 4 * OpenBefore(pos) + 5
    BY <1>2 DEF Depth
  <2> QED BY <1>1, <2>1 DEF TooManyGroups, OverGroups
<1>5. input \in Seq(Tokens) /\ pos \in Nat \ {0} /\ (pos + 1) - 1 = pos
  BY <1>3, HeightHere
<1>6. level \in Nat /\ outer \in Seq(Nat) /\ Len(outer) \in Nat
  BY LenProperties DEF Registers
<1>7. /\ outer' \in Seq(Nat) /\ Len(outer') = Len(outer) + 1 /\ outer'[Len(outer) + 1] = level
      /\ \A k \in 1 .. Len(outer) : outer'[k] = outer[k]
  BY <1>1, <1>6, AppendProperties
<1>8. ~Awaited(Top')
  BY <1>1, PushedTop DEF NewFrame, Awaited
<1>9. ASSUME Nested(pos, outer, Raised(level, Due(Top, pos)))
      PROVE  Nested(pos + 1, outer', Raised(level', Due(Top', pos + 1))) /\ Owed(Top', pos + 1, nest')
  <2>1. Raised(level, Due(Top, pos)) = level
    BY <1>2, <1>6, NotAwaited, RaisedType DEF Awaited
  <2>2. Nested(pos + 1, outer', 0)
    BY <1>1, <1>5, <1>6, <1>7, <1>9, <2>1, NestedMore
  <2>3. Due(Top', pos + 1) = 0 /\ Owed(Top', pos + 1, nest')
    BY <1>8, NotAwaited
  <2>4. Raised(level', 0) = 0
    BY <1>1, RaisedType
  <2> QED BY <2>2, <2>3, <2>4
<1> QED BY <1>1, <1>3, <1>4, <1>9, Moved

LEMMA RustCloseGroupTold ==
  ASSUME FInv, Registers, Placed, Kept, Told, RustCloseGroup
  PROVE  Kept' /\ Told'
<1> DEFINE g == Len(outer)
<1>1. /\ Top.rule = "atom" /\ Top.phase = "close" /\ Top.grouped /\ KindAt(pos) = "RP"
      /\ input' = input /\ pos' = pos + 1 /\ decodeErr' = decodeErr /\ stack' = PopRule(Fresh)
      /\ level < MaxNestDepth /\ nest' = level + 1 /\ level' = outer[g]
      /\ outer' = SubSeq(outer, 1, g - 1)
  BY DEF RustCloseGroup, CloseGroup, GroupAhead, At
<1>2. g > 0 /\ level \in Nat /\ outer \in Seq(Nat) /\ Fresh \in Nat /\ Fresh # Undef
  BY <1>1, GroupPlace, Current DEF Registers
<1>3. /\ outer' \in Seq(Nat) /\ Len(outer') = g - 1 /\ outer[g] \in Nat
      /\ \A j \in 1 .. g - 1 : outer'[j] = outer[j]
  BY <1>1, <1>2, OuterPopped
<1>4. ~Rest /\ KindAt(pos) # "ZZ" /\ ~OverGroups(pos)
  BY <1>1, NoRest DEF OverGroups
<1>5. input \in Seq(Tokens) /\ pos \in Positions /\ pos \in Nat \ {0} /\ (pos + 1) - 1 = pos
  BY <1>4, HeightHere
<1>6. Raised(level, Due(Top, pos)) = level
  BY <1>1, <1>2, NotAwaited, RaisedType DEF Awaited
<1>7. ASSUME Nested(pos, outer, level)
      PROVE  TokenHeight[pos] = 1 + level
  BY <1>1, <1>2, <1>5, <1>7, HeightAtClose
<1>8. decodeErr = 0 => ~OverNested(pos)
  <2> SUFFICES ASSUME decodeErr = 0 PROVE ~OverNested(pos)
    OBVIOUS
  <2>1. TokenHeight[pos] = 1 + level
    BY <1>4, <1>6, <1>7 DEF Told
  <2> QED BY <1>1, <1>2, <2>1, DepthAssumption DEF OverNested
<1>9. Top'.rule = "elem" /\ Top'.phase = "close" /\ Top'.child = Fresh
  BY <1>1, <1>2, LeftRule
<1>10. ASSUME Nested(pos, outer, Raised(level, Due(Top, pos)))
       PROVE  Nested(pos + 1, outer', Raised(level', Due(Top', pos + 1))) /\ Owed(Top', pos + 1, nest')
  <2>1. TokenHeight[pos] = 1 + level
    BY <1>6, <1>7, <1>10
  <2>2. Due(Top', pos + 1) = 1 + level
    BY <1>5, <1>9, <2>1 DEF Due, Awaited
  <2>3. Owed(Top', pos + 1, nest')
    BY <1>1, <1>2, <1>9, <2>2 DEF Owed
  <2>4. Nested(pos + 1, outer', Raised(outer[g], 1 + level))
    BY <1>1, <1>2, <1>3, <1>5, <1>6, <1>10, NestedLess
  <2> QED BY <1>1, <2>2, <2>3, <2>4
<1> QED BY <1>1, <1>4, <1>8, <1>10, Moved

\* A group left open stands at the end of its production, where nothing is
\* told any more.
LEMMA RustCloseAtomTold ==
  ASSUME FInv, Registers, Placed, Kept, Told, RustCloseAtom
  PROVE  Kept' /\ Told'
<1>1. /\ Top.rule = "atom" /\ Top.phase = "close" /\ UNCHANGED <<input, pos, decodeErr, nest, level>>
      /\ stack' = PopRule(Top.node) /\ (Top.grouped => KindAt(pos) # "RP")
      /\ (~Top.grouped => outer' = outer)
  BY DEF RustCloseAtom, CloseAtom, GroupAhead, At
<1>2. Top.node \in Nat
  BY Current
<1>3. Top'.rule = "elem" /\ Top'.phase = "close" /\ Top'.child = Top.node
  BY <1>1, <1>2, LeftRule
<1>4. CASE Top.grouped
  <2>1. Rest
    BY <1>1, <1>4 DEF Placed, Placement, Expects, Closing, Rest
  <2>2. Rest' /\ TypeOK /\ input \in Seq(Tokens) /\ pos \in Nat \ {0} /\ Recorded(pos, decodeErr)
    BY <1>1, <2>1, SameAhead, Current DEF TypeOK, Placed
  <2>3. Told'
    BY <2>2 DEF Told
  <2>4. Kept'
    <3>1. \A i \in pos .. pos - 1 : FALSE
      BY <2>2
    <3> QED BY <1>1, <2>2, <3>1, KeptNext
  <2> QED BY <2>3, <2>4
<1>5. CASE ~Top.grouped
  <2>1. Due(Top', pos) = Due(Top, pos)
    BY <1>1, <1>3, <1>5 DEF Due, Awaited
  <2>2. nest = 1
    BY <1>1, <1>5 DEF Registers, NestKept
  <2>3. ASSUME Owed(Top, pos, nest) PROVE Owed(Top', pos, nest')
    <3>1. Due(Top, pos) = IF Top.node = Undef THEN 0 ELSE 1
      BY <1>1, <1>5, <2>3 DEF Owed
    <3> QED BY <1>1, <1>3, <2>1, <2>2, <3>1 DEF Owed
  <2> QED BY <1>1, <1>5, <2>1, <2>3, Quiet DEF Told
<1> QED BY <1>4, <1>5

LEMMA WrapsUpTo ==
  ASSUME NEW ops \in Seq(Ops), NEW k \in 0 .. Len(ops)
  PROVE  Wraps(SubSeq(ops, 1, k)) = Cardinality({i \in 1 .. k : ops[i] \in Wrappers})
<1>0. Len(ops) \in Nat /\ ops = [i \in 1 .. Len(ops) |-> ops[i]] /\ \A i \in 1 .. Len(ops) : ops[i] \in Ops
  BY LenProperties
<1>1. Len(SubSeq(ops, 1, k)) = k /\ \A i \in 1 .. k : SubSeq(ops, 1, k)[i] = ops[i]
  <2>1. \A i \in 1 .. k : ops[i] \in Ops
    BY <1>0
  <2>2. Len(SubSeq(ops, 1, k)) = IF 1 <= k THEN k - 1 + 1 ELSE 0
    BY <1>0, <2>1, SubSeqProperties
  <2>3. \A i \in 1 .. k - 1 + 1 : SubSeq(ops, 1, k)[i] = ops[1 + i - 1]
    BY <1>0, <2>1, SubSeqProperties
  <2>4. \A i \in 1 .. k : 1 + i - 1 = i
    OBVIOUS
  <2> QED BY <1>0, <2>2, <2>3, <2>4
<1>2. {i \in 1 .. Len(SubSeq(ops, 1, k)) : SubSeq(ops, 1, k)[i] \in Wrappers} = {i \in 1 .. k : ops[i] \in Wrappers}
  BY <1>1
<1> QED BY <1>2 DEF Wraps

\* One more operator builds one more wrapper at most.
LEMMA WrapsOne ==
  ASSUME NEW ops \in Seq(Ops), NEW n \in 1 .. Len(ops)
  PROVE  /\ Wraps(SubSeq(ops, 1, n)) \in Nat /\ Wraps(SubSeq(ops, 1, n - 1)) \in Nat
         /\ Wraps(SubSeq(ops, 1, n)) <= Wraps(SubSeq(ops, 1, n - 1)) + 1
<1> DEFINE W(k) == {i \in 1 .. k : ops[i] \in Wrappers}
<1>1. Len(ops) \in Nat
  BY LenProperties
<1>2. n \in 0 .. Len(ops) /\ n - 1 \in 0 .. Len(ops) /\ n \in Nat /\ n - 1 \in Nat
  BY <1>1
<1>3. Wraps(SubSeq(ops, 1, n)) = Cardinality(W(n)) /\ Wraps(SubSeq(ops, 1, n - 1)) = Cardinality(W(n - 1))
  BY <1>2, WrapsUpTo
<1>4. \A k \in Nat : IsFiniteSet(W(k)) /\ Cardinality(W(k)) \in Nat
  <2> TAKE k \in Nat
  <2>1. IsFiniteSet(1 .. k) /\ W(k) \subseteq 1 .. k
    BY FS_Interval
  <2> QED BY <2>1, FS_Subset, FS_CardinalityType
<1>5. W(n) \subseteq W(n - 1) \cup {n}
  BY <1>2
<1>6. /\ IsFiniteSet(W(n - 1) \cup {n})
      /\ Cardinality(W(n - 1) \cup {n}) <= Cardinality(W(n - 1)) + 1
  <2> DEFINE S == W(n - 1)
  <2>1. IsFiniteSet(S) /\ Cardinality(S) \in Nat
    BY <1>2, <1>4
  <2> HIDE DEF S
  <2>2. /\ IsFiniteSet(S \cup {n})
        /\ Cardinality(S \cup {n}) = IF n \in S THEN Cardinality(S) ELSE Cardinality(S) + 1
    BY <2>1, FS_AddElement
  <2>3. Cardinality(S \cup {n}) <= Cardinality(S) + 1
    BY <2>1, <2>2
  <2> QED BY <2>2, <2>3 DEF S
<1>7. Cardinality(W(n)) <= Cardinality(W(n - 1) \cup {n}) /\ Cardinality(W(n - 1) \cup {n}) \in Nat
  BY <1>5, <1>6, FS_Subset, FS_CardinalityType
<1>8. Cardinality(W(n)) \in Nat /\ Cardinality(W(n - 1)) \in Nat
  BY <1>2, <1>4
<1> HIDE DEF W
<1> QED BY <1>3, <1>6, <1>7, <1>8

LEMMA WrapsMore ==
  ASSUME NEW ops \in Seq(Ops), NEW m \in Nat, NEW n \in Nat, m <= n, n <= Len(ops)
  PROVE  /\ Wraps(SubSeq(ops, 1, m)) \in Nat /\ Wraps(SubSeq(ops, 1, n)) \in Nat
         /\ Wraps(SubSeq(ops, 1, m)) <= Wraps(SubSeq(ops, 1, n))
         /\ Wraps(SubSeq(ops, 1, 0)) = 0 /\ Wraps(SubSeq(ops, 1, Len(ops))) = Wraps(ops)
<1>0. Len(ops) \in Nat /\ ops = [i \in 1 .. Len(ops) |-> ops[i]] /\ \A i \in 1 .. Len(ops) : ops[i] \in Ops
  BY LenProperties
<1>1. \A k \in 0 .. Len(ops) : Wraps(SubSeq(ops, 1, k)) = Cardinality({i \in 1 .. k : ops[i] \in Wrappers})
  BY WrapsUpTo
<1> DEFINE W(k) == {i \in 1 .. k : ops[i] \in Wrappers}
<1>2. \A k \in Nat : IsFiniteSet(W(k)) /\ Cardinality(W(k)) \in Nat
  <2> TAKE k \in Nat
  <2>1. IsFiniteSet(1 .. k) /\ W(k) \subseteq 1 .. k
    BY FS_Interval
  <2> QED BY <2>1, FS_Subset, FS_CardinalityType
<1>3. W(m) \subseteq W(n)
  OBVIOUS
<1>4. Cardinality(W(m)) <= Cardinality(W(n))
  BY <1>2, <1>3, FS_Subset
<1>5. Cardinality(W(0)) = 0
  <2>1. W(0) = {}
    OBVIOUS
  <2> QED BY <2>1, FS_EmptySet
<1>6. Wraps(ops) = Cardinality(W(Len(ops)))
  BY DEF Wraps
<1>7. m \in 0 .. Len(ops) /\ n \in 0 .. Len(ops) /\ 0 \in 0 .. Len(ops) /\ Len(ops) \in 0 .. Len(ops)
  BY <1>0
<1> QED BY <1>1, <1>2, <1>4, <1>5, <1>6, <1>7

\* The operators charged are those before the first refused count.
LEMMA Charged ==
  ASSUME FInv, KindAt(pos) = "POST"
  PROVE  /\ Ahead \in Seq(Ops) /\ Len(Ahead) \in Nat
         /\ \E b \in 1 .. Len(Ahead) + 1 :
              /\ b = Len(Ahead) + 1 \/ Bad(b)
              /\ \A i \in 1 .. Len(Ahead) : Bad(i) => b <= i
              /\ OverNested(pos) <=>
                   /\ TokenHeight[pos - 1] > 0
                   /\ MaxNestDepth < TokenHeight[pos - 1] + Wraps(SubSeq(Ahead, 1, b - 1))
<1>1. Ahead \in Seq(Ops) /\ Len(Ahead) \in Nat
  BY Lookahead, LenProperties DEF FInv, IInv, Ahead
<1> DEFINE S == {n \in 1 .. Len(Ahead) : Ahead[n] = "bad"}
           b == Min({Len(Ahead) + 1} \cup S)
<1>2. S \in SUBSET (1 .. Len(Ahead))
  OBVIOUS
<1>3. OverNested(pos) <=>
        /\ TokenHeight[pos - 1] > 0
        /\ MaxNestDepth < TokenHeight[pos - 1] + Wraps(SubSeq(Ahead, 1, b - 1))
  BY DEF OverNested, Ahead
<1>4. \A i \in 1 .. Len(Ahead) : Bad(i) <=> i \in S
  BY DEF Bad
<1> HIDE DEF S
<1>5. b \in 1 .. Len(Ahead) + 1 /\ (b = Len(Ahead) + 1 \/ b \in S) /\ \A i \in S : b <= i
  BY <1>1, <1>2, FirstOf
<1> HIDE DEF b
<1>6. b \in S => b \in 1 .. Len(Ahead)
  BY <1>2
<1> QED BY <1>1, <1>3, <1>4, <1>5, <1>6

LEMMA ElemAhead ==
  ASSUME FInv, Placed, At("elem", "close"), stack' = PopRule(Top.node)
  PROVE  /\ Top.rule = "elem" /\ Top.phase = "close" /\ ~Awaited(Top')
         /\ \A p, n : Due(Top', p) = 0 /\ Owed(Top', p, n)
         /\ Due(Top, pos) = TokenHeight[pos - 1]
<1>1. Top.rule = "elem" /\ Top.phase = "close" /\ Top.node \in Nat
  BY Current DEF At
<1>2. Top'.rule = "seq"
  <2>1. Top.rule # "gbnf"
    BY <1>1
  <2> QED BY <1>1, <2>1, LeftRule
<1>3. ~Awaited(Top')
  BY <1>2 DEF Awaited
<1> QED BY <1>1, <1>3, NotAwaited DEF Due, Awaited

LEMMA RustElemPlainTold ==
  ASSUME FInv, Registers, Placed, Kept, Told, RustElemPlain
  PROVE  Kept' /\ Told'
<1>1. /\ At("elem", "close") /\ stack' = PopRule(Top.node)
      /\ UNCHANGED <<input, pos, decodeErr, nest, outer>>
      /\ IF Top.child = Undef THEN level' = level ELSE level' = Raised(level, nest)
  BY DEF RustElemPlain, ElemPlain, NoteLevel, Raised
<1>2. /\ Top.rule = "elem" /\ Top.phase = "close"
      /\ Due(Top', pos) = 0 /\ Owed(Top', pos, nest')
  BY <1>1, ElemAhead
<1>3. level \in Nat /\ nest \in Nat
  BY DEF Registers
<1>4. ASSUME Owed(Top, pos, nest) PROVE Raised(level', Due(Top', pos)) = Raised(level, Due(Top, pos))
  <2>1. CASE Top.child = Undef
    BY <1>1, <1>2, <1>4, <2>1 DEF Owed
  <2>2. CASE Top.child # Undef
    <3>1. Due(Top, pos) = nest /\ level' = Raised(level, nest)
      BY <1>1, <1>2, <1>4, <2>2 DEF Owed
    <3> QED BY <1>2, <1>3, <3>1, RaisedType
  <2> QED BY <2>1, <2>2
<1> QED BY <1>1, <1>2, <1>4, Quiet

\* An element that completed is within the cap.
LEMMA ChildShort ==
  ASSUME FInv, Built, Registers, At("elem", "close"), Top.child # Undef
  PROVE  nest <= MaxNestDepth
<1>1. Top.rule = "elem" /\ Top.phase = "close"
  BY DEF At
<1>2. Handed(heap, stack, Len(stack), Top.child, {"term", "group"})
  BY <1>1, ChildFacts
<1>3. Top.child \in Elements
  BY <1>2 DEF Handed, Free, Elements
<1>4. nest = Height[Top.child]
  BY <1>1 DEF Registers, NestKept
<1> QED BY <1>3, <1>4 DEF Built, TreeBounded

LEMMA RustElemPostTold ==
  ASSUME FInv, Built, Registers, Placed, Kept, Told, RustElemPost
  PROVE  Kept' /\ Told'
<1>1. /\ At("elem", "close") /\ KindAt(pos) = "POST" /\ stack' = PopRule(Top.node)
      /\ pos' = pos + 1 /\ UNCHANGED <<input, decodeErr, outer>>
      /\ \/ Top.child = Undef /\ UNCHANGED <<nest, level>>
         \/ /\ Top.child # Undef /\ Sound
            /\ level' = Raised(level, nest + Wraps(Ahead))
  BY DEF RustElemPost, ElemPost, NoteLevel, Raised
<1>2. /\ Top.rule = "elem" /\ Top.phase = "close" /\ Due(Top, pos) = TokenHeight[pos - 1]
      /\ Due(Top', pos + 1) = 0 /\ Owed(Top', pos + 1, nest')
  BY <1>1, ElemAhead
<1>3. ~Rest /\ KindAt(pos) # "ZZ" /\ ~OverGroups(pos)
  BY <1>1, NoRest DEF OverGroups
<1>4. /\ level \in Nat /\ nest \in Nat /\ outer \in Seq(Nat) /\ input \in Seq(Tokens)
      /\ pos \in Positions /\ TokenHeight[pos] \in Nat /\ TokenHeight[pos - 1] \in Nat
      /\ TokenHeight[pos] = IF TokenHeight[pos - 1] = 0 THEN 0
                            ELSE TokenHeight[pos - 1] + Wraps(Ahead)
  BY <1>1, <1>3, HeightHere DEF Registers, Ahead
<1>5. Ahead \in Seq(Ops) /\ Len(Ahead) \in Nat /\ Wraps(Ahead) \in Nat
  BY <1>1, Charged, WrapsType
<1>6. CASE Top.child = Undef
  <2>1. ASSUME Owed(Top, pos, nest) PROVE TokenHeight[pos - 1] = 0 /\ TokenHeight[pos] = 0
    BY <1>2, <1>4, <1>6, <2>1 DEF Owed
  <2>2. decodeErr = 0 => ~OverNested(pos)
    <3>1. TokenHeight[pos - 1] = 0 => ~OverNested(pos)
      BY <1>1 DEF OverNested
    <3> QED BY <1>3, <2>1, <3>1 DEF Told
  <2>3. ASSUME Nested(pos, outer, Raised(level, Due(Top, pos))), Owed(Top, pos, nest)
        PROVE  Nested(pos + 1, outer', Raised(level', Due(Top', pos + 1)))
    <3>1. Due(Top, pos) = 0 /\ TokenHeight[pos] = 0
      BY <1>2, <2>1, <2>3
    <3>2. Nested(pos, outer, level)
      BY <1>4, <2>3, <3>1, RaisedType
    <3>3. Nested(pos + 1, outer, Raised(level, 0))
      BY <1>1, <1>4, <3>1, <3>2, NestedSame
    <3> QED BY <1>1, <1>2, <1>6, <3>3
  <2> QED BY <1>1, <1>2, <1>3, <2>2, <2>3, Moved
<1>7. CASE Top.child # Undef
  <2>1. ASSUME Owed(Top, pos, nest)
        PROVE  TokenHeight[pos - 1] = nest /\ nest > 0 /\ TokenHeight[pos] = nest + Wraps(Ahead)
    BY <1>2, <1>4, <1>7, <2>1 DEF Owed
  <2>2. ASSUME Owed(Top, pos, nest) PROVE ~OverNested(pos)
    <3>1. PICK b \in 1 .. Len(Ahead) + 1 :
            /\ b = Len(Ahead) + 1 \/ Bad(b)
            /\ OverNested(pos) => MaxNestDepth < nest + Wraps(SubSeq(Ahead, 1, b - 1))
      BY <1>1, <2>1, <2>2, Charged
    <3>2. Sound
      BY <1>1, <1>7
    <3>3. b - 1 = Len(Ahead)
      BY <1>5, <3>1, <3>2 DEF Sound
    <3>4. CASE Len(Ahead) = 0
      <4>1. b - 1 = 0 /\ 0 \in Nat /\ 0 <= Len(Ahead)
        BY <3>3, <3>4
      <4>2. Wraps(SubSeq(Ahead, 1, b - 1)) = 0
        BY <1>5, <4>1, WrapsMore
      <4> QED BY <1>1, <1>4, <1>7, <3>1, <4>2, ChildShort, DepthAssumption
    <3>5. CASE Len(Ahead) # 0
      <4>1. b - 1 \in 1 .. Len(Ahead)
        BY <1>5, <3>3, <3>5
      <4> QED BY <3>1, <3>2, <4>1 DEF Sound, Deep
    <3> QED BY <3>4, <3>5
  <2>3. ASSUME Nested(pos, outer, Raised(level, Due(Top, pos))), Owed(Top, pos, nest)
        PROVE  Nested(pos + 1, outer', Raised(level', Due(Top', pos + 1)))
    <3>1. Due(Top, pos) = nest /\ TokenHeight[pos] = nest + Wraps(Ahead)
      BY <1>2, <2>1, <2>3
    <3>2. Nested(pos + 1, outer, Raised(Raised(level, nest), nest + Wraps(Ahead)))
      BY <1>1, <1>4, <2>3, <3>1, NestedSame
    <3>3. Raised(Raised(level, nest), nest + Wraps(Ahead)) = Raised(level, nest + Wraps(Ahead))
      BY <1>4, <1>5 DEF Raised
    <3>4. level' \in Nat /\ level' = Raised(level, nest + Wraps(Ahead))
      BY <1>1, <1>4, <1>5, <1>7 DEF Raised
    <3> QED BY <1>1, <1>2, <3>2, <3>3, <3>4, RaisedType
  <2>4. decodeErr = 0 => ~OverNested(pos)
    BY <1>3, <2>2 DEF Told
  <2> QED BY <1>1, <1>2, <1>3, <2>3, <2>4, Moved
<1> QED BY <1>6, <1>7

LEMMA RustElemPostBadTold ==
  ASSUME FInv, Built, Registers, Placed, Kept, Told, RustElemPostBad
  PROVE  Kept' /\ Told'
<1>0. DeferDecode
  BY RustDefersAssumption
<1>1. /\ At("elem", "close") /\ KindAt(pos) = "POST" /\ stack' = PopRule(Top.node)
      /\ pos' = pos + 1 /\ input' = input /\ decodeErr' = FirstError(pos)
      /\ Top.child # Undef /\ FirstIs(Bad, Deep)
  BY <1>0 DEF RustElemPostBad, ElemPostBad
<1>2. Top.rule = "elem" /\ Top.phase = "close" /\ Due(Top, pos) = TokenHeight[pos - 1]
  BY <1>1, ElemAhead
<1>3. ~Rest /\ KindAt(pos) # "ZZ" /\ ~OverGroups(pos)
  BY <1>1, NoRest DEF OverGroups
<1>4. nest \in Nat /\ pos \in Nat \ {0} /\ TokenHeight[pos - 1] \in Nat
  BY <1>3, HeightHere DEF Registers
<1>5. (decodeErr # 0 => decodeErr' = decodeErr) /\ decodeErr' # 0
  BY <1>1, <1>4 DEF FirstError
<1>6. ASSUME decodeErr = 0 PROVE ~OverNested(pos)
  <2>1. TokenHeight[pos - 1] = nest
    BY <1>1, <1>2, <1>3, <1>6 DEF Told, Owed
  <2>2. PICK b \in 1 .. Len(Ahead) + 1 :
          /\ b = Len(Ahead) + 1 \/ Bad(b)
          /\ \A i \in 1 .. Len(Ahead) : Bad(i) => b <= i
          /\ OverNested(pos) => MaxNestDepth < nest + Wraps(SubSeq(Ahead, 1, b - 1))
    BY <1>1, <2>1, Charged
  <2>3. PICK n \in 1 .. Len(Ahead) : Bad(n) /\ \A m \in 1 .. n : ~Deep(m) /\ (m < n => ~Bad(m))
    BY <1>1 DEF FirstIs
  <2>4. Ahead \in Seq(Ops) /\ Len(Ahead) \in Nat
    BY <1>1, Charged
  <2>5. b <= n
    BY <2>2, <2>3
  <2>6. CASE b = 1
    <3>1. Wraps(SubSeq(Ahead, 1, b - 1)) = 0
      BY <2>4, <2>6, WrapsMore
    <3> QED BY <1>1, <1>4, <2>2, <3>1, ChildShort, DepthAssumption
  <2>7. CASE b # 1
    <3>1. b - 1 \in 1 .. n
      BY <2>2, <2>4, <2>5, <2>7
    <3> QED BY <2>2, <2>3, <3>1 DEF Deep
  <2> QED BY <2>6, <2>7
<1> QED BY <1>1, <1>3, <1>5, <1>6, Moved

LEMMA CloseAltsOnTold ==
  ASSUME FInv, Registers, Placed, Kept, Told, CloseAlts, KindAt(pos) = "ALT", UNCHANGED registers
  PROVE  Kept' /\ Told'
<1>1. /\ Top.rule = "alts" /\ stack' = PushRule(Top, "seq") /\ pos' = pos + 1
      /\ UNCHANGED <<input, decodeErr, level, outer>>
  BY DEF CloseAlts, At, registers
<1>2. ~Rest /\ KindAt(pos) # "ZZ" /\ ~OverGroups(pos) /\ ~OverNested(pos)
  BY NoRest DEF OverGroups, OverNested
<1>3. /\ input \in Seq(Tokens) /\ pos \in Positions /\ TokenHeight[pos] = 0
      /\ level \in Nat /\ outer \in Seq(Nat)
  BY <1>2, HeightHere DEF Registers
<1>4. ~Awaited(Top) /\ ~Awaited(Top')
  BY <1>1, PushedTop DEF NewFrame, Awaited
<1>5. Due(Top, pos) = 0 /\ Due(Top', pos + 1) = 0 /\ Owed(Top', pos + 1, nest')
  BY <1>4, NotAwaited
<1>6. Nested(pos, outer, level) => Nested(pos + 1, outer, Raised(level, 0))
  BY <1>3, NestedSame
<1>7. Raised(level, 0) = level
  BY <1>3, RaisedType
<1> QED BY <1>1, <1>2, <1>5, <1>6, <1>7, Moved

-----------------------------------------------------------------------------
(* How the parse ends.                                                     *)

LEMMA RustEndsRecorded ==
  ASSUME TypeOK, Placed, Kept, decodeErr # 0
  PROVE  \A kind : Ended(kind, pos) = RustVerdict
<1>1. /\ decodeErr \in 1 .. pos - 1 /\ FirstBad(decodeErr)
      /\ Clean(pos) /\ pos \in Nat /\ pos <= Len(input) + 1
      /\ Len(input) \in Nat /\ Positions = 1 .. Len(input) /\ input \in Seq(Tokens)
  BY TokensAhead DEF Placed, Recorded, TypeOK
<1>2. decodeErr \in Positions
  BY <1>1
<1>3. \A i \in 1 .. decodeErr : i \in 1 .. pos - 1 /\ i <= decodeErr
  BY <1>1
<1>4. \A i \in 1 .. decodeErr : ~RustFault(i)
  BY <1>1, <1>3 DEF Clean, Kept, RustFault
<1> QED BY <1>1, <1>2, <1>4, RustVerdictIs DEF Ended, FirstBad

LEMMA RustEndsAt ==
  ASSUME TypeOK, Placed, Kept, KindAt(pos) # "ZZ", NEW kind,
         outcome' = Ended(kind, pos), input' = input,
         decodeErr = 0 =>
           /\ RustFault(pos)
           /\ kind = IF Misplaced(pos) THEN "unexpected"
                     ELSE IF OverGroups(pos) THEN "depth" ELSE "nest"
  PROVE  RustVerdictExact'
<1>1. pos \in Positions /\ input \in Seq(Tokens)
  BY TokensAhead DEF TypeOK
<1>2. CASE decodeErr # 0
  BY <1>1, <1>2, RustEndsRecorded, SameHeights DEF RustVerdictExact
<1>3. CASE decodeErr = 0
  <2>1. \A i \in 1 .. pos - 1 : ~RustFault(i) /\ ~Undecodable(i)
    BY <1>3 DEF Placed, Clean, Recorded, Kept, RustFault
  <2>2. RustVerdict = [kind |-> kind, at |-> pos]
    BY <1>1, <1>3, <2>1, RustVerdictIs
  <2> QED BY <1>1, <1>3, <2>2, SameHeights DEF RustVerdictExact, Ended
<1> QED BY <1>2, <1>3

LEMMA RustCloseGbnfEnds ==
  ASSUME FInv, Placed, Kept, CloseGbnf
  PROVE  RustVerdictExact'
<1>1. /\ Top.rule = "gbnf" /\ Top.phase = "close" /\ KindAt(pos) = "ZZ" /\ input' = input
      /\ outcome' = Ended(IF heap[Top.node].kids = << >> THEN "empty" ELSE "ok", pos)
  BY DEF CloseGbnf, At
<1>2. heap[Top.node].kids = << >> <=> input = << >>
  BY <1>1 DEF Placed, Placement, Counted
<1>3. /\ TypeOK /\ pos = Len(input) + 1 /\ Len(input) \in Nat /\ Positions = 1 .. Len(input)
      /\ input \in Seq(Tokens)
  BY <1>1, Current, TokensAhead DEF TypeOK
<1>4. CASE decodeErr # 0
  BY <1>1, <1>3, <1>4, RustEndsRecorded, SameHeights DEF RustVerdictExact
<1>5. CASE decodeErr = 0
  <2>1. \A i \in Positions : i \in 1 .. pos - 1
    BY <1>3
  <2>2. \A i \in Positions : ~RustFault(i) /\ ~Undecodable(i)
    BY <1>5, <2>1 DEF Placed, Clean, Recorded, Kept, RustFault
  <2>3. input = << >> => pos = 1
    <3>1. input = << >> => Len(input) = 0
      OBVIOUS
    <3> QED BY <1>3, <3>1
  <2>4. RustVerdict = IF input = << >> THEN [kind |-> "empty", at |-> pos]
                      ELSE [kind |-> "ok", at |-> pos]
    BY <1>3, <2>2, <2>3, RustVerdictIs
  <2> QED BY <1>1, <1>2, <1>3, <1>5, <2>4, SameHeights DEF RustVerdictExact, Ended
<1> QED BY <1>4, <1>5

\* No rule has a place for the token at which none of its alternatives is.
LEMMA NoPlace ==
  ASSUME FInv, Placed, NoAlternative
  PROVE  KindAt(pos) # "ZZ" /\ Misplaced(pos)
<1>2. CASE At("prod", "open") /\ ~ProdAt(pos)
  <2>1. pos = 1 /\ KindAt(pos) # "ZZ"
    BY <1>2 DEF At, Placed, Placement, Expects
  <2> QED BY <1>2, <2>1 DEF Misplaced
<1>3. CASE At("atom", "open") /\ KindAt(pos) \in {"DEF", "ALT", "RP", "POST", "ZZ"}
  <2>1. KindAt(pos) \in {"DEF", "POST"} /\ ~ProdAt(pos - 1) /\ Bare(pos)
    BY <1>3, AtomAhead
  <2> QED BY <2>1 DEF Misplaced, Bare, Ends
<1>4. CASE At("gbnf", "close") /\ KindAt(pos) # "ZZ"
  <2>1. Top.rule = "gbnf" /\ Top.phase = "close" /\ KindAt(pos) = "RP" /\ Len(stack) = 1
    BY <1>4, Current DEF At, Placed, Placement, Expects
  <2>2. ~Settled(Top, pos) /\ Offset(Top) = 1
    BY <2>1, Offsets DEF Settled, ProdAt
  <2>3. 1 = 4 * OpenBefore(pos) + 1 /\ OpenBefore(pos) \in Int
    BY <2>1, <2>2, Current DEF Placed, Placement, Levelled
  <2>4. OpenBefore(pos) = 0
    BY <2>3
  <2> QED BY <1>4, <2>1, <2>4 DEF Misplaced
<1> QED BY <1>2, <1>3, <1>4 DEF NoAlternative

LEMMA RustUnexpectedEnds ==
  ASSUME FInv, Placed, Kept, RustUnexpected
  PROVE  RustVerdictExact'
<1>1. outcome' = Ended("unexpected", pos) /\ input' = input /\ TypeOK
      /\ KindAt(pos) # "ZZ" /\ Misplaced(pos)
  BY NoPlace, Current DEF RustUnexpected, Unexpected
<1> QED BY <1>1, RustEndsAt DEF RustFault

LEMMA RefuseGroupEnds ==
  ASSUME FInv, Placed, Kept, RefuseGroup
  PROVE  RustVerdictExact'
<1>1. /\ At("atom", "open") /\ KindAt(pos) = "LP" /\ TooManyGroups
      /\ outcome' = Ended("depth", pos) /\ input' = input /\ TypeOK
  BY Current DEF RefuseGroup, Refuse
<1>2. /\ Len(stack) = 4 * OpenBefore(pos) + 6 /\ OpenBefore(pos) \in Int /\ pos # 1
  BY <1>1, AtomAhead
<1>3. OverGroups(pos)
  <2>1. Depth = 4 * OpenBefore(pos) + 5
    BY <1>2 DEF Depth
  <2> QED BY <1>1, <2>1 DEF TooManyGroups, OverGroups
<1>4. ~Misplaced(pos)
  BY <1>1, <1>2 DEF Misplaced
<1> QED BY <1>1, <1>3, <1>4, RustEndsAt DEF RustFault

LEMMA RefuseCloseGroupEnds ==
  ASSUME FInv, Registers, Placed, Kept, Told, RefuseCloseGroup
  PROVE  RustVerdictExact'
<1>1. /\ Top.rule = "atom" /\ Top.phase = "close" /\ Top.grouped /\ KindAt(pos) = "RP"
      /\ level >= MaxNestDepth /\ outcome' = Ended("nest", pos) /\ input' = input
  BY DEF RefuseCloseGroup, GroupAhead, At, Refuse
<1>2. /\ TypeOK /\ Len(stack) \in Nat /\ Len(stack) # 2 /\ OpenBefore(pos) \in Int /\ pos # 1
  <2>1. pos # 1
    BY <1>1 DEF Placed, Placement, Inside
  <2> QED BY <1>1, <2>1, Current
<1>3. ~Misplaced(pos) /\ ~OverGroups(pos)
  <2>1. ~Settled(Top, pos) /\ Offset(Top) = 2
    BY <1>1, Offsets DEF Settled, ProdAt
  <2>2. Len(stack) = 4 * OpenBefore(pos) + 2
    BY <2>1 DEF Placed, Placement, Levelled
  <2>3. OpenBefore(pos) # 0
    BY <1>2, <2>2
  <2> QED BY <1>1, <1>2, <2>3 DEF Misplaced, OverGroups
<1>4. decodeErr = 0 => OverNested(pos)
  <2> SUFFICES ASSUME decodeErr = 0 PROVE OverNested(pos)
    OBVIOUS
  <2>1. Len(outer) > 0 /\ level \in Nat /\ outer \in Seq(Nat)
    BY <1>1, GroupPlace DEF Registers
  <2>2. Raised(level, Due(Top, pos)) = level
    BY <1>1, <2>1, NotAwaited, RaisedType DEF Awaited
  <2>3. ~Rest
    BY <1>1, NoRest
  <2>4. Nested(pos, outer, level)
    BY <2>2, <2>3 DEF Told
  <2>5. input \in Seq(Tokens) /\ pos \in Positions
    BY <1>1, <1>2, TokensAhead DEF TypeOK
  <2>6. TokenHeight[pos] = 1 + level
    BY <1>1, <2>1, <2>4, <2>5, HeightAtClose
  <2> QED BY <1>1, <2>1, <2>6, DepthAssumption DEF OverNested
<1> QED BY <1>1, <1>2, <1>3, <1>4, RustEndsAt DEF RustFault

LEMMA RefusePostEnds ==
  ASSUME FInv, Registers, Placed, Kept, Told, RefusePost
  PROVE  RustVerdictExact'
<1>1. /\ At("elem", "close") /\ Top.rule = "elem" /\ Top.phase = "close" /\ KindAt(pos) = "POST"
      /\ Top.child # Undef /\ FirstIs(Deep, Bad) /\ outcome' = Ended("nest", pos) /\ input' = input
  BY DEF RefusePost, Refuse, At
<1>2. TypeOK /\ pos # 1
  BY <1>1, Current DEF Placed, Placement, Inside
<1>3. ~Misplaced(pos) /\ ~OverGroups(pos)
  <2>1. Left(pos, Top.child)
    BY <1>1 DEF Placed, Placement, Expects
  <2> QED BY <1>1, <1>2, <2>1 DEF Misplaced, Left, Ends, OverGroups
<1>4. decodeErr = 0 => OverNested(pos)
  <2> SUFFICES ASSUME decodeErr = 0 PROVE OverNested(pos)
    OBVIOUS
  <2>1. ~Rest /\ nest \in Nat
    BY <1>1, NoRest DEF Registers
  <2>2. TokenHeight[pos - 1] = nest /\ nest > 0
    BY <1>1, <2>1 DEF Told, Owed, Due, Awaited
  <2>3. PICK b \in 1 .. Len(Ahead) + 1 :
          /\ b = Len(Ahead) + 1 \/ Bad(b)
          /\ (MaxNestDepth < nest + Wraps(SubSeq(Ahead, 1, b - 1))) => OverNested(pos)
    BY <1>1, <2>2, Charged
  <2>4. PICK n \in 1 .. Len(Ahead) : Deep(n) /\ \A m \in 1 .. n : ~Bad(m)
    BY <1>1 DEF FirstIs
  <2>5. Ahead \in Seq(Ops) /\ Len(Ahead) \in Nat
    BY <1>1, Charged
  <2>6. ~(b <= n)
    <3>1. b <= n => b \in 1 .. n
      BY <2>3, <2>4
    <3>2. b <= n => b # Len(Ahead) + 1
      BY <2>4, <2>5
    <3> QED BY <2>3, <2>4, <3>1, <3>2
  <2>7. n \in Nat /\ b - 1 \in Nat /\ n <= b - 1 /\ b - 1 <= Len(Ahead)
    BY <2>4, <2>5, <2>6
  <2>8. /\ Wraps(SubSeq(Ahead, 1, n)) \in Nat /\ Wraps(SubSeq(Ahead, 1, b - 1)) \in Nat
        /\ Wraps(SubSeq(Ahead, 1, n)) <= Wraps(SubSeq(Ahead, 1, b - 1))
    BY <2>5, <2>7, WrapsMore
  <2>9. MaxNestDepth < nest + Wraps(SubSeq(Ahead, 1, n))
    BY <2>4 DEF Deep
  <2>10. MaxNestDepth < nest + Wraps(SubSeq(Ahead, 1, b - 1))
    BY <2>1, <2>8, <2>9, DepthAssumption
  <2> QED BY <2>3, <2>10
<1> QED BY <1>1, <1>2, <1>3, <1>4, RustEndsAt DEF RustFault

-----------------------------------------------------------------------------
(* What a refused run leaves behind.                                       *)

\* What stands before operator n is within the cap when no operator before n
\* is too deep, and what n itself may build is one more.
LEMMA DropHeight ==
  ASSUME FInv, Built, Registers, At("elem", "close"), KindAt(pos) = "POST", Top.child # Undef,
         NEW n \in 1 .. Len(Ahead), \A m \in 1 .. n - 1 : ~Deep(m)
  PROVE  /\ nest + Wraps(SubSeq(Ahead, 1, n)) \in Nat /\ nest + Wraps(SubSeq(Ahead, 1, n - 1)) \in Nat
         /\ nest + Wraps(SubSeq(Ahead, 1, n)) <= MaxNestDepth + 1
         /\ nest + Wraps(SubSeq(Ahead, 1, n - 1)) <= MaxNestDepth
<1>1. Ahead \in Seq(Ops) /\ Len(Ahead) \in Nat
  BY Charged
<1>2. nest \in Nat /\ nest <= MaxNestDepth
  BY ChildShort DEF Registers
<1> DEFINE w == Wraps(SubSeq(Ahead, 1, n))
           v == Wraps(SubSeq(Ahead, 1, n - 1))
<1>3. w \in Nat /\ v \in Nat /\ w <= v + 1
  BY <1>1, WrapsOne
<1>4. nest + v <= MaxNestDepth
  <2>1. CASE n = 1
    <3>1. n - 1 = 0
      BY <2>1
    <3>2. v = 0
      BY <1>1, <3>1, WrapsMore
    <3> QED BY <1>2, <3>2
  <2>2. CASE n # 1
    <3>1. n - 1 \in 1 .. n - 1
      BY <1>1, <2>2
    <3>2. ~Deep(n - 1)
      BY <3>1
    <3>3. ~(MaxNestDepth < nest + v)
      BY <3>2 DEF Deep
    <3> HIDE DEF v
    <3> QED BY <1>2, <1>3, <3>3, DepthAssumption
  <2> QED BY <2>1, <2>2
<1> HIDE DEF v, w
<1>5. nest + w \in Nat /\ nest + v \in Nat /\ nest + w <= MaxNestDepth + 1
  BY <1>2, <1>3, <1>4, DepthAssumption
<1> QED BY <1>4, <1>5 DEF v, w

DInv == HInv /\ dropped \in Nat /\ DropBounded

LEMMA DropsRunning ==
  ASSUME DInv, Running
  PROVE  dropped \in Nat /\ dropped <= MaxNestDepth
<1>1. outcome # Ended("nest", pos)
  BY DEF Running, Ended
<1> QED BY <1>1, DepthAssumption DEF DInv, DropBounded

\* A refused count is neither charged nor built.
LEMMA RustElemPostBadDrops ==
  ASSUME DInv, FInv, Built, Registers, RustElemPostBad
  PROVE  dropped' \in Nat /\ dropped' <= MaxNestDepth
<1>1. /\ At("elem", "close") /\ KindAt(pos) = "POST" /\ Top.child # Undef /\ Running
      /\ FirstIs(Bad, Deep)
  BY DEF RustElemPostBad, ElemPostBad, At
<1>2. PICK n \in 1 .. Len(Ahead) : Bad(n) /\ (\A m \in 1 .. n - 1 : ~Bad(m)) /\ Drop(n)
  BY DEF RustElemPostBad
<1>3. PICK k \in 1 .. Len(Ahead) : Bad(k) /\ \A m \in 1 .. k : ~Deep(m)
  BY <1>1 DEF FirstIs
<1>4. Len(Ahead) \in Nat
  BY <1>1, Charged
<1>5. ~(k <= n - 1)
  <2>1. k <= n - 1 => k \in 1 .. n - 1
    BY <1>3, <1>4
  <2> QED BY <1>2, <1>3, <2>1
<1>6. \A m \in 1 .. n - 1 : m \in 1 .. k
  BY <1>3, <1>4, <1>5
<1>7. \A m \in 1 .. n - 1 : ~Deep(m)
  BY <1>3, <1>6
<1>8. BuiltBefore(n) = n - 1
  BY <1>2 DEF BuiltBefore, Bad
<1> DEFINE h == nest + Wraps(SubSeq(Ahead, 1, n - 1))
<1>9. h \in Nat /\ h <= MaxNestDepth
  BY <1>1, <1>2, <1>7, DropHeight
<1>10. dropped' = IF dropped < h THEN h ELSE dropped
  BY <1>2, <1>8 DEF Drop
<1> HIDE DEF h
<1> QED BY <1>1, <1>9, <1>10, DropsRunning

\* The first operator that is too deep is built only if it is a {m,n}.
LEMMA RefusePostDrops ==
  ASSUME DInv, FInv, Built, Registers, RefusePost
  PROVE  dropped' \in Nat /\ DropBounded'
<1>1. /\ At("elem", "close") /\ KindAt(pos) = "POST" /\ Top.child # Undef /\ Running
      /\ outcome' = Ended("nest", pos) /\ UNCHANGED <<input, pos, decodeErr, nest>>
  BY DEF RefusePost, Refuse, At
<1>2. PICK n \in 1 .. Len(Ahead) : FirstDeep(n) /\ Drop(n)
  BY DEF RefusePost
<1> DEFINE w == nest + Wraps(SubSeq(Ahead, 1, n))
           v == nest + Wraps(SubSeq(Ahead, 1, n - 1))
           h == nest + Wraps(SubSeq(Ahead, 1, BuiltBefore(n)))
<1>3. w \in Nat /\ v \in Nat /\ w <= MaxNestDepth + 1 /\ v <= MaxNestDepth
  BY <1>1, <1>2, DropHeight DEF FirstDeep
<1>4. h = IF Ahead[n] = "count" THEN w ELSE v
  BY DEF BuiltBefore
<1>5. dropped' = IF dropped < h THEN h ELSE dropped
  BY <1>2 DEF Drop
<1>6. dropped \in Nat /\ dropped <= MaxNestDepth
  BY <1>1, DropsRunning
<1> HIDE DEF h, w, v
<1>7. /\ dropped' \in Nat /\ dropped' <= MaxNestDepth + 1
      /\ MaxNestDepth < dropped' => Ahead[n] = "count"
  BY <1>3, <1>4, <1>5, <1>6, DepthAssumption
<1>8. Ahead' = Ahead /\ outcome' = Ended("nest", pos)'
  BY <1>1 DEF Ahead, Ended
<1>9. FirstDeep(n)'
  BY <1>1, <1>2, <1>8 DEF FirstDeep, Deep
<1>10. MaxNestDepth < dropped' => \E k \in 1 .. Len(Ahead') : FirstDeep(k)' /\ Ahead'[k] = "count"
  BY <1>2, <1>7, <1>8, <1>9
<1> QED BY <1>7, <1>8, <1>10 DEF DropBounded

LEMMA StepDInv == DInv /\ [RustNext]_rustVars => DInv'
<1> SUFFICES ASSUME DInv, [RustNext]_rustVars PROVE DInv'
  OBVIOUS
<1>1. HInv' /\ FInv /\ Built /\ dropped \in Nat /\ DropBounded
  BY StepHInv DEF DInv, HInv
<1>2. CASE UNCHANGED rustVars
  BY <1>1, <1>2 DEF rustVars, DInv, DropBounded, FirstDeep, Deep, Ahead, Ended
<1>3. CASE RustStep
  <2>1. Running
    BY <1>3 DEF RustStep, Unguarded, OpenGbnf, OpenProd, OpenAlts, OpenSeq, OpenElem,
                CloseSeq, CloseAlts, CloseProd, CloseGbnf, RustAtom, AtomTerm, AtomEmpty, AtomBad,
                RustAtomGroup, AtomGroup, RustCloseGroup, CloseGroup, RustCloseAtom, CloseAtom,
                RustElemPlain, ElemPlain, RustElemPost, ElemPost, RustElemPostBad, ElemPostBad,
                RustUnexpected, Unexpected, NoAlternative, Refusal, RefuseGroup, RefuseCloseGroup,
                RefusePost, At
  <2>2. Registers /\ dropped <= MaxNestDepth
    BY <1>1, <2>1, DropsRunning DEF DInv, HInv
  <2>3. CASE RustElemPostBad
    BY <1>1, <2>2, <2>3, RustElemPostBadDrops, DepthAssumption DEF DInv, DropBounded
  <2>4. CASE RefusePost
    BY <1>1, <2>2, <2>4, RefusePostDrops DEF DInv
  <2>5. CASE ~RustElemPostBad /\ ~RefusePost
    <3>1. dropped' = dropped
      BY <1>3, <2>5 DEF RustStep, Unguarded, registers, RustAtom, RustAtomGroup, RustCloseGroup,
         RustCloseAtom, RustElemPlain, RustElemPost, RustUnexpected, Refusal, RefuseGroup,
         RefuseCloseGroup
    <3> QED BY <1>1, <2>2, <3>1, DepthAssumption DEF DInv, DropBounded
  <2> QED BY <2>3, <2>4, <2>5
<1> QED BY <1>2, <1>3 DEF RustNext

\* Whatever the source and the caps, no element of the tree, finished or
\* abandoned, is deeper than MAX_NEST_DEPTH; nothing that a refused run built
\* and threw away is more than one deeper, and one deeper only when it is the
\* {m,n} that ends the parse (apply_postfix, check_nest).
THEOREM NothingTooDeep == RustSpec => []DepthBounded
<1>1. RustInit => DInv
  <2> SUFFICES ASSUME RustInit PROVE DInv
    OBVIOUS
  <2>1. HInv /\ dropped = 0
    BY InitHInv DEF RustInit
  <2>2. DropBounded
    BY <2>1, DepthAssumption DEF DropBounded
  <2> QED BY <2>1, <2>2 DEF DInv
<1>2. DInv => DepthBounded
  BY DEF DInv, HInv, Built, DepthBounded
<1> QED BY <1>1, <1>2, StepDInv, PTL DEF RustSpec

-----------------------------------------------------------------------------
(* The parse of the Rust port ends as its tokens say.                      *)

LEMMA InitVInv == RustInit => VInv
<1> SUFFICES ASSUME RustInit PROVE VInv
  OBVIOUS
<1>1. HInv /\ Placed
  BY InitHInv, InitPlaced DEF RustInit
<1>2. /\ pos = 1 /\ Running /\ stack = <<NewFrame("gbnf", Undef)>> /\ outer = << >>
  BY DEF RustInit, Init, Running
<1>3. RustVerdictExact
  BY <1>2 DEF RustVerdictExact
<1>4. Kept
  <2>1. \A i \in 1 .. pos - 1 : FALSE
    BY <1>2
  <2> QED BY <2>1 DEF Kept
<1>5. Told
  <2>1. ~Awaited(Top)
    BY <1>2 DEF Top, NewFrame, Awaited
  <2>2. \A v : Opened(<< >>, pos, Len(outer)) /\ Filled(<< >>, pos, outer, v)
    BY <1>2 DEF Opened, Filled
  <2> QED BY <2>1, <2>2, NotAwaited DEF Told, Nested
<1> QED BY <1>1, <1>3, <1>4, <1>5 DEF VInv

LEMMA StepVInv == VInv /\ [RustNext]_rustVars => VInv'
<1> SUFFICES ASSUME VInv, [RustNext]_rustVars PROVE VInv'
  OBVIOUS
<1>1. HInv' /\ FInv /\ Built
  BY StepHInv DEF VInv, HInv
<1>2. input \in Seq(Tokens)
  BY <1>1 DEF FInv, IInv, TypeOK
<1> SUFFICES RustVerdictExact' /\ (Running' => Placed' /\ Kept' /\ Told')
  BY <1>1 DEF VInv
<1>3. ASSUME UNCHANGED rustVars PROVE RustVerdictExact' /\ (Running' => Placed' /\ Kept' /\ Told')
  <2>1. UNCHANGED <<input, pos, stack, heap, decodeErr, outcome, nest, level, outer>> /\ Top' = Top
    BY <1>3 DEF rustVars, Top
  <2>2. RustVerdictExact'
    BY <1>2, <2>1, SameHeights DEF VInv, RustVerdictExact, Running
  <2>3. ASSUME Running' PROVE Placed' /\ Kept' /\ Told'
    <3>1. Placed /\ Kept /\ Told
      BY <2>1, <2>3 DEF VInv, Running
    <3>2. Placed'
      BY <2>1, <3>1, PlacedNext DEF Placed
    <3>3. Kept' /\ Told'
      BY <1>1, <2>1, <3>1, Quiet
    <3> QED BY <3>2, <3>3
  <2> QED BY <2>2, <2>3
<1>4. ASSUME RustStep PROVE RustVerdictExact' /\ (Running' => Placed' /\ Kept' /\ Told')
  <2>1. Running
    BY <1>4 DEF RustStep, Unguarded, OpenGbnf, OpenProd, OpenAlts, OpenSeq, OpenElem,
                CloseSeq, CloseAlts, CloseProd, CloseGbnf, RustAtom, AtomTerm, AtomEmpty, AtomBad,
                RustAtomGroup, AtomGroup, RustCloseGroup, CloseGroup, RustCloseAtom, CloseAtom,
                RustElemPlain, ElemPlain, RustElemPost, ElemPost, RustElemPostBad, ElemPostBad,
                RustUnexpected, Unexpected, NoAlternative, Refusal, RefuseGroup, RefuseCloseGroup,
                RefusePost, At
  <2>2. Registers /\ Placed /\ Kept /\ Told
    BY <2>1 DEF VInv, HInv
  <2>3. ASSUME outcome' = outcome PROVE RustVerdictExact'
    BY <2>1, <2>3 DEF RustVerdictExact, Running
  <2>4. CASE CloseGbnf \/ RustUnexpected \/ Refusal
    <3>1. ~Running'
      BY <1>1, <2>4, EndsHeights
    <3>2. RustVerdictExact'
      BY <1>1, <2>2, <2>4, RustCloseGbnfEnds, RustUnexpectedEnds, RefuseGroupEnds,
         RefuseCloseGroupEnds, RefusePostEnds DEF Refusal
    <3> QED BY <3>1, <3>2
  <2>5. CASE Unguarded /\ ~CloseGbnf
    <3>1. /\ UNCHANGED registers
          /\ \/ OpenGbnf \/ OpenProd \/ OpenAlts \/ OpenSeq \/ OpenElem
             \/ CloseSeq \/ CloseAlts \/ CloseProd
      BY <2>5 DEF Unguarded
    <3>2. outcome' = outcome
      BY <3>1 DEF OpenGbnf, OpenProd, OpenAlts, OpenSeq, OpenElem, CloseSeq, CloseAlts, CloseProd
    <3>3. Placed'
      BY <1>1, <2>2, <3>1, OpenGbnfPlaced, OpenProdPlaced, OpenListPlaced, CloseSeqPlaced,
         CloseAltsPlaced, CloseProdPlaced
    <3>4. Kept' /\ Told'
      BY <1>1, <2>2, <3>1, OpensTold, OpenProdTold, ClosesTold, CloseAltsOnTold
    <3> QED BY <2>3, <3>2, <3>3, <3>4
  <2>6. CASE RustAtom \/ RustAtomGroup \/ RustCloseGroup \/ RustCloseAtom
    <3>1. outcome' = outcome
      BY <2>6, RustDefersAssumption DEF RustAtom, AtomTerm, AtomEmpty, AtomBad, RustAtomGroup,
         AtomGroup, RustCloseGroup, CloseGroup, RustCloseAtom, CloseAtom
    <3>2. Placed'
      BY <1>1, <2>2, <2>6, RustDefersAssumption, AtomTermPlaced, AtomEmptyPlaced, AtomBadPlaced,
         AtomGroupPlaced, CloseGroupPlaced, CloseAtomPlaced
         DEF RustAtom, RustAtomGroup, RustCloseGroup, RustCloseAtom
    <3>3. Kept' /\ Told'
      BY <1>1, <2>2, <2>6, RustAtomTold, RustAtomGroupTold, RustCloseGroupTold, RustCloseAtomTold
    <3> QED BY <2>3, <3>1, <3>2, <3>3
  <2>7. CASE RustElemPlain \/ RustElemPost \/ RustElemPostBad
    <3>1. outcome' = outcome
      BY <2>7, RustDefersAssumption DEF RustElemPlain, ElemPlain, RustElemPost, ElemPost,
         RustElemPostBad, ElemPostBad
    <3>2. Placed'
      BY <1>1, <2>2, <2>7, RustDefersAssumption, ElemPlainPlaced, ElemPostPlaced, ElemPostBadPlaced
         DEF RustElemPlain, RustElemPost, RustElemPostBad
    <3>3. Kept' /\ Told'
      BY <1>1, <2>2, <2>7, RustElemPlainTold, RustElemPostTold, RustElemPostBadTold
    <3> QED BY <2>3, <3>1, <3>2, <3>3
  <2> QED BY <1>4, <2>4, <2>5, <2>6, <2>7 DEF RustStep
<1> QED BY <1>3, <1>4 DEF RustNext

\* Whatever the source and the two caps, the Rust port refuses it for its
\* depth exactly when it is too deep, at the token that makes it so and only
\* when nothing else is wrong further left, and otherwise ends as the other
\* ports do (@atom-lp, @atom-group-close, @elem-post and parse_gbnf_raw).
THEOREM RustVerdictRight == RustSpec => []RustVerdictExact
<1>1. VInv => RustVerdictExact
  BY DEF VInv
<1> QED BY InitVInv, StepVInv, <1>1, PTL DEF RustSpec
=============================================================================
