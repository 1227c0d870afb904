---------------------------- MODULE MetaGrammar ----------------------------
(***************************************************************************)
(* The GBNF front end's meta-grammar: the rule table `gbnfRules` of        *)
(* ts/src/converter.ts (the same table is GRAMMAR_TEXT + register_refs in  *)
(* rs/src/parser_gbnf.rs and defineGbnfRules in go/parser_gbnf.go), run by *)
(* the tabnas engine over a sequence of tokens.                            *)
(*                                                                         *)
(* The engine is outside the repository and is modelled from the way the   *)
(* table uses it: a stack of rule frames; a frame is processed once in its *)
(* open phase and then, each time it is on top again, in its close phase;  *)
(* processing tries the alternatives in order against the tokens ahead,    *)
(* and the first that matches runs its action, then pushes a child rule    *)
(* (`p`), replaces itself (`r`) or leaves the rule. A pushed rule starts   *)
(* with its parent's node. `b` gives matched tokens back, so an            *)
(* alternative whose `b` equals the length of its `s` only looks ahead.    *)
(* One step of the model is one such processing of the top frame.          *)
(*                                                                         *)
(* JavaScript arrays and objects are shared by reference, and the table    *)
(* relies on it (prod appends to gbnf's array, elem to seq's), so nodes    *)
(* are references into a heap.                                             *)
(***************************************************************************)
EXTENDS Integers, Sequences, FiniteSets

CONSTANTS
  Inputs,       \* the token sequences to parse
  DeferDecode   \* TRUE: Go and Rust, which record a terminal decoder's error
                \* and parse on; FALSE: TypeScript, whose action throws

(***************************************************************************)
(* Tokens. TERM is a non-empty string literal (#GS), a class (#CC), `.`    *)
(* (#DOT) or a tokenizer terminal (#TOK): each makes one leaf. EMPTY is    *)
(* the literal "", BADTERM a literal or class its decoder refuses. POST is *)
(* a RUN of postfix operators, lexed as one token: each operator wraps the *)
(* element ("wrap", that is `*`, `+`, `?`, and "count", any other {m,n}),  *)
(* leaves it alone ("keep", that is {1} and {1,1}) or is a count the       *)
(* notation refuses ("bad", an upper bound below the lower).               *)
(***************************************************************************)
Kinds == {"NM", "DEF", "ALT", "LP", "RP", "TERM", "EMPTY", "BADTERM", "POST"}
Wrappers == {"wrap", "count"}
Ops == Wrappers \cup {"keep", "bad"}
Tokens == [k : Kinds, ops : Seq(Ops)]

ASSUME InputsAssumption == Inputs \subseteq Seq(Tokens)
ASSUME DeferAssumption == DeferDecode \in BOOLEAN

Rules == {"gbnf", "prod", "alts", "seq", "elem", "atom"}
\* The last two are the Rust port's depth refusals (MetaGrammarRust).
Outcomes == {"running", "ok", "empty", "unexpected", "decode", "depth", "nest"}

(***************************************************************************)
(* Heap cells: the three arrays, the elements, and a production. `tok` and *)
(* `end` are the token positions of the source span `sp`; for "rep" `tok`  *)
(* is the POST token and `levels` the number of wrappers it built.         *)
(***************************************************************************)
CellKinds == {"prods", "alts", "seq", "term", "group", "rep", "prod"}
Cells == [kind : CellKinds, tok : Nat, end : Nat, levels : Nat, kids : Seq(Nat)]

List(kind) == [kind |-> kind, tok |-> 0, end |-> 0, levels |-> 0, kids |-> << >>]
Node(kind, tok, end, levels, kids) ==
  [kind |-> kind, tok |-> tok, end |-> end, levels |-> levels, kids |-> kids]

Undef == 0   \* no node: JavaScript's undefined

Frames == [rule : Rules, phase : {"open", "close"}, node : Nat, child : Nat,
           tok : Nat, grouped : BOOLEAN]

VARIABLES
  input,      \* the token sequence being parsed
  pos,        \* the next token
  stack,      \* the engine's rule frames, the current one last
  heap,       \* every array and element built so far
  decodeErr,  \* the token of the first recorded decoder error, 0 if none
  outcome     \* how the parse ended, and at which token

vars == <<input, pos, stack, heap, decodeErr, outcome>>

TypeOK ==
  /\ input \in Seq(Tokens)
  /\ pos \in 1 .. Len(input) + 1
  /\ stack \in Seq(Frames)
  /\ heap \in Seq(Cells)
  /\ decodeErr \in 0 .. Len(input)
  /\ outcome \in [kind : Outcomes, at : 0 .. Len(input) + 1]

-----------------------------------------------------------------------------
(* Tokens ahead. Past the end the lexer keeps answering #ZZ.               *)

KindAt(i) == IF i \in 1 .. Len(input) THEN input[i].k ELSE "ZZ"

\* `NM ::=`, the two-token lookahead that begins a production.
ProdAt(i) == KindAt(i) = "NM" /\ KindAt(i + 1) = "DEF"

\* What ends a sequence without being consumed by it.
AtBoundary == ProdAt(pos) \/ KindAt(pos) \in {"ALT", "RP", "ZZ"}

\* The number of wrappers a run of operators builds.
Wraps(ops) == Cardinality({i \in 1 .. Len(ops) : ops[i] \in Wrappers})
BadRun(ops) == \E i \in 1 .. Len(ops) : ops[i] = "bad"

(* The stack of rule frames. *)

NewFrame(rule, node) ==
  [rule |-> rule, phase |-> "open", node |-> node, child |-> Undef,
   tok |-> 0, grouped |-> FALSE]

Top == stack[Len(stack)]
Running == outcome.kind = "running"
At(rule, phase) == Running /\ Top.rule = rule /\ Top.phase = phase

\* The current frame becomes f, and is processed in its close phase next.
Stay(f) == [stack EXCEPT ![Len(stack)] = [f EXCEPT !.phase = "close"]]
\* The same, with a child rule on top, which inherits f's node.
PushRule(f, rule) == Append(Stay(f), NewFrame(rule, f.node))
\* The current frame leaves; its node is its parent's `child.node`.
PopRule(node) ==
  [i \in 1 .. Len(stack) - 1 |->
     IF i = Len(stack) - 1 THEN [stack[i] EXCEPT !.child = node] ELSE stack[i]]

(* The heap. *)

Fresh == Len(heap) + 1
PushNode(h, list, ref) ==
  [h EXCEPT ![list] = [h[list] EXCEPT !.kids = Append(h[list].kids, ref)]]
\* What bc and elem's actions do: push the child's node, if it has one.
PushChild == IF Top.child = Undef THEN heap ELSE PushNode(heap, Top.node, Top.child)

(* How a parse ends. A recorded decoder error wins over any other end.     *)

Ended(kind, at) ==
  IF decodeErr # 0 THEN [kind |-> "decode", at |-> decodeErr]
                   ELSE [kind |-> kind, at |-> at]

\* Not in the code: a later decoder error overwrites the one recorded.
MLastError(at) == at

FirstError(at) == IF decodeErr = 0 THEN at ELSE decodeErr

-----------------------------------------------------------------------------
Init ==
  /\ input \in Inputs
  /\ pos = 1
  /\ stack = <<NewFrame("gbnf", Undef)>>
  /\ heap = << >>
  /\ decodeErr = 0
  /\ outcome = [kind |-> "running", at |-> 0]

OpenGbnf ==
  /\ At("gbnf", "open")
  /\ heap' = Append(heap, List("prods"))
  /\ LET f == [Top EXCEPT !.node = Fresh] IN
       stack' = IF KindAt(pos) = "ZZ" THEN Stay(f) ELSE PushRule(f, "prod")
  /\ UNCHANGED <<input, pos, decodeErr, outcome>>

OpenProd ==
  /\ At("prod", "open")
  /\ ProdAt(pos)
  /\ stack' = PushRule([Top EXCEPT !.tok = pos], "alts")
  /\ pos' = pos + 2
  /\ UNCHANGED <<input, heap, decodeErr, outcome>>

OpenAlts ==
  /\ At("alts", "open")
  /\ heap' = Append(heap, List("alts"))
  /\ stack' = PushRule([Top EXCEPT !.node = Fresh], "seq")
  /\ UNCHANGED <<input, pos, decodeErr, outcome>>

\* Not in the code: seq without its bo hook works on alts's array.
MOpenSeqShared ==
  /\ At("seq", "open")
  /\ stack' = IF AtBoundary THEN Stay(Top) ELSE PushRule(Top, "elem")
  /\ UNCHANGED <<input, pos, heap, decodeErr, outcome>>

OpenSeq ==
  /\ At("seq", "open")
  /\ heap' = Append(heap, List("seq"))
  /\ LET f == [Top EXCEPT !.node = Fresh] IN
       stack' = IF AtBoundary THEN Stay(f) ELSE PushRule(f, "elem")
  /\ UNCHANGED <<input, pos, decodeErr, outcome>>

OpenElem ==
  /\ At("elem", "open")
  /\ stack' = PushRule(Top, "atom")
  /\ UNCHANGED <<input, pos, heap, decodeErr, outcome>>

\* A leaf: a terminal, or a reference to a rule.
AtomTerm ==
  /\ At("atom", "open")
  /\ KindAt(pos) \in {"TERM", "NM"}
  /\ heap' = Append(heap, Node("term", pos, pos, 0, << >>))
  /\ stack' = Stay([Top EXCEPT !.node = Fresh])
  /\ pos' = pos + 1
  /\ UNCHANGED <<input, decodeErr, outcome>>

\* Not in the code: `""` with a `b`, which gives the literal back.
MAtomEmptyGivenBack ==
  /\ At("atom", "open")
  /\ KindAt(pos) = "EMPTY"
  /\ stack' = Stay([Top EXCEPT !.node = Undef])
  /\ UNCHANGED <<input, pos, heap, decodeErr, outcome>>

\* `""` contributes no element: the atom's node stays undefined.
AtomEmpty ==
  /\ At("atom", "open")
  /\ KindAt(pos) = "EMPTY"
  /\ stack' = Stay([Top EXCEPT !.node = Undef])
  /\ pos' = pos + 1
  /\ UNCHANGED <<input, heap, decodeErr, outcome>>

\* A literal or class the decoder refuses.
AtomBad ==
  /\ At("atom", "open")
  /\ KindAt(pos) = "BADTERM"
  /\ \/ /\ DeferDecode
        /\ decodeErr' = FirstError(pos)
        /\ stack' = Stay([Top EXCEPT !.node = Undef])
        /\ pos' = pos + 1
        /\ UNCHANGED <<input, heap, outcome>>
     \/ /\ ~DeferDecode
        /\ outcome' = [kind |-> "decode", at |-> pos]
        /\ UNCHANGED <<input, pos, stack, heap, decodeErr>>

\* Not in the code: a group that keeps the sequence it inherited as its node.
MAtomGroupKeepsNode ==
  /\ At("atom", "open")
  /\ KindAt(pos) = "LP"
  /\ stack' = PushRule([Top EXCEPT !.tok = pos, !.grouped = TRUE], "alts")
  /\ pos' = pos + 1
  /\ UNCHANGED <<input, heap, decodeErr, outcome>>

AtomGroup ==
  /\ At("atom", "open")
  /\ KindAt(pos) = "LP"
  /\ stack' = PushRule([Top EXCEPT !.node = Undef, !.tok = pos, !.grouped = TRUE],
                       "alts")
  /\ pos' = pos + 1
  /\ UNCHANGED <<input, heap, decodeErr, outcome>>

\* Not in the code: without the condition a plain atom eats the `)` too.
MGroupAheadAnyAtom == KindAt(pos) = "RP"

\* Only a group consumes a `)`.
GroupAhead == Top.grouped /\ KindAt(pos) = "RP"

CloseGroup ==
  /\ At("atom", "close")
  /\ GroupAhead
  /\ heap' = Append(heap, Node("group", Top.tok, pos, 0, <<Top.child>>))
  /\ stack' = PopRule(Fresh)
  /\ pos' = pos + 1
  /\ UNCHANGED <<input, decodeErr, outcome>>

\* The unconditional alternative of atom's close: a plain atom leaves with
\* the node its open phase set, and so does a group with no `)` ahead, whose
\* node is still undefined.
CloseAtom ==
  /\ At("atom", "close")
  /\ ~GroupAhead
  /\ stack' = PopRule(Top.node)
  /\ UNCHANGED <<input, pos, heap, decodeErr, outcome>>

ElemPlain ==
  /\ At("elem", "close")
  /\ KindAt(pos) # "POST"
  /\ heap' = PushChild
  /\ stack' = PopRule(Top.node)
  /\ UNCHANGED <<input, pos, decodeErr, outcome>>

\* applyPostfix over the whole run, then the push.
ElemPost ==
  /\ At("elem", "close")
  /\ KindAt(pos) = "POST"
  /\ Top.child = Undef \/ ~BadRun(input[pos].ops)
  /\ LET n == Wraps(input[pos].ops) IN
       heap' = IF Top.child = Undef THEN heap
               ELSE IF n = 0 THEN PushNode(heap, Top.node, Top.child)
               ELSE PushNode(Append(heap, Node("rep", pos, pos, n, <<Top.child>>)),
                             Top.node, Fresh)
  /\ stack' = PopRule(Top.node)
  /\ pos' = pos + 1
  /\ UNCHANGED <<input, decodeErr, outcome>>

\* A count whose bounds are the wrong way round.
ElemPostBad ==
  /\ At("elem", "close")
  /\ KindAt(pos) = "POST"
  /\ Top.child # Undef
  /\ BadRun(input[pos].ops)
  /\ \/ /\ DeferDecode
        /\ decodeErr' = FirstError(pos)
        /\ stack' = PopRule(Top.node)
        /\ pos' = pos + 1
        /\ UNCHANGED <<input, heap, outcome>>
     \/ /\ ~DeferDecode
        /\ outcome' = [kind |-> "decode", at |-> pos]
        /\ UNCHANGED <<input, pos, stack, heap, decodeErr>>

\* Not in the code: the boundary without its `b`, which consumes it.
MCloseSeqConsumes ==
  /\ At("seq", "close")
  /\ stack' = IF AtBoundary THEN PopRule(Top.node) ELSE PushRule(Top, "elem")
  /\ pos' = IF AtBoundary THEN pos + 1 ELSE pos
  /\ UNCHANGED <<input, heap, decodeErr, outcome>>

CloseSeq ==
  /\ At("seq", "close")
  /\ stack' = IF AtBoundary THEN PopRule(Top.node) ELSE PushRule(Top, "elem")
  /\ UNCHANGED <<input, pos, heap, decodeErr, outcome>>

\* Not in the code: only the last alternative is appended.
MCloseAltsLast ==
  /\ At("alts", "close")
  /\ heap' = IF KindAt(pos) = "ALT" THEN heap ELSE PushChild
  /\ IF KindAt(pos) = "ALT"
       THEN stack' = PushRule(Top, "seq") /\ pos' = pos + 1
       ELSE stack' = PopRule(Top.node) /\ pos' = pos
  /\ UNCHANGED <<input, decodeErr, outcome>>

\* bc appends the finished sequence every time alts is back on top.
CloseAlts ==
  /\ At("alts", "close")
  /\ heap' = PushChild
  /\ IF KindAt(pos) = "ALT"
       THEN /\ stack' = PushRule(Top, "seq")
            /\ pos' = pos + 1
       ELSE /\ stack' = PopRule(Top.node)
            /\ pos' = pos
  /\ UNCHANGED <<input, decodeErr, outcome>>

\* Not in the code: `p: 'prod'` for `r: 'prod'`.
MCloseProdPush ==
  /\ At("prod", "close")
  /\ heap' = IF Top.child = Undef THEN heap
             ELSE PushNode(Append(heap, Node("prod", Top.tok, Top.tok, 0, <<Top.child>>)),
                           Top.node, Fresh)
  /\ stack' = IF ProdAt(pos) THEN PushRule(Top, "prod") ELSE PopRule(Top.node)
  /\ UNCHANGED <<input, pos, decodeErr, outcome>>

\* bc appends the production; the next `NM ::=` replaces this frame.
CloseProd ==
  /\ At("prod", "close")
  /\ heap' = IF Top.child = Undef THEN heap
             ELSE PushNode(Append(heap, Node("prod", Top.tok, Top.tok, 0, <<Top.child>>)),
                           Top.node, Fresh)
  /\ stack' = IF ProdAt(pos)
                THEN [stack EXCEPT ![Len(stack)] = NewFrame("prod", Top.node)]
                ELSE PopRule(Top.node)
  /\ UNCHANGED <<input, pos, decodeErr, outcome>>

\* The end of the source: an empty production list is an error of its own.
CloseGbnf ==
  /\ At("gbnf", "close")
  /\ KindAt(pos) = "ZZ"
  /\ outcome' = Ended(IF heap[Top.node].kids = << >> THEN "empty" ELSE "ok", pos)
  /\ UNCHANGED <<input, pos, stack, heap, decodeErr>>

\* No alternative of the current rule matches.
NoAlternative ==
  \/ At("prod", "open") /\ ~ProdAt(pos)
  \/ At("atom", "open") /\ KindAt(pos) \in {"DEF", "ALT", "RP", "POST", "ZZ"}
  \/ At("gbnf", "close") /\ KindAt(pos) # "ZZ"

Unexpected ==
  /\ NoAlternative
  /\ outcome' = Ended("unexpected", pos)
  /\ UNCHANGED <<input, pos, stack, heap, decodeErr>>

\* The parse is over; nothing runs any more.
Finished == ~Running /\ UNCHANGED vars

Step ==
  \/ OpenGbnf \/ OpenProd \/ OpenAlts \/ OpenSeq \/ OpenElem
  \/ AtomTerm \/ AtomEmpty \/ AtomBad \/ AtomGroup
  \/ CloseGroup \/ CloseAtom \/ ElemPlain \/ ElemPost \/ ElemPostBad
  \/ CloseSeq \/ CloseAlts \/ CloseProd \/ CloseGbnf \/ Unexpected

Next == Step \/ Finished

Spec == Init /\ [][Next]_vars

(***************************************************************************)
(* Which rule the frame at each depth runs: below the two rules at the     *)
(* bottom the cycle alts, seq, elem, atom repeats once per open group, and *)
(* `r: 'prod'` replaces its frame rather than deepening the stack. The     *)
(* engine's `rule.d` of the frame at i is i - 1, so the k-th nested group  *)
(* is opened at d = 4k + 1, which is what the Rust depth cap counts.       *)
(***************************************************************************)
RuleAt(i) ==
  CASE i = 1 -> "gbnf"
    [] i = 2 -> "prod"
    [] i > 2 /\ (i - 3) % 4 = 0 -> "alts"
    [] i > 2 /\ (i - 3) % 4 = 1 -> "seq"
    [] i > 2 /\ (i - 3) % 4 = 2 -> "elem"
    [] OTHER -> "atom"

ShapedAt(s, i) ==
  /\ s[i].rule = RuleAt(i)
  /\ s[i].grouped => s[i].rule = "atom"
  /\ i < Len(s) => s[i].phase = "close" /\ (s[i].rule = "atom" => s[i].grouped)

Shaped(s) == Len(s) > 0 /\ \A i \in 1 .. Len(s) : ShapedAt(s, i)

StackShape == Shaped(stack)

\* Nodes are shared by reference, but never end up in two places: at every
\* moment each array and element has one parent at most, of the kind the IR
\* puts above it (prod's, alts's and elem's pushes through inherited nodes,
\* and the `r.node = ...` resets in the bo hooks that keep them apart).
Parents(r) ==
  {p \in (DOMAIN heap) \X (1 .. Len(input) + 1) :
     p[2] \in DOMAIN heap[p[1]].kids /\ heap[p[1]].kids[p[2]] = r}
Layers == {<<"prods", "prod">>, <<"prod", "alts">>, <<"group", "alts">>,
           <<"alts", "seq">>, <<"seq", "term">>, <<"seq", "group">>,
           <<"seq", "rep">>, <<"rep", "term">>, <<"rep", "group">>}
HeapIsForest ==
  \A r \in DOMAIN heap :
    /\ Cardinality(Parents(r)) <= 1
    /\ \A p \in Parents(r) : <<heap[p[1]].kind, heap[r].kind>> \in Layers

\* parse() is one synchronous call: once entered it runs until it returns.
FairSpec == Spec /\ WF_vars(Step)
=============================================================================
