------------------------------ MODULE Install ------------------------------
(***************************************************************************)
(* gbnf() and toSpec() from one call to the next: ts/src/gbnf.ts, with     *)
(* applyExactLexing, requireRelexSupport, markClassesEager and             *)
(* clearClassesEager of ts/src/converter.ts, and in the Rust port the slot *)
(* in which a decoder leaves its error (rs/src/parser_gbnf.rs).            *)
(*                                                                         *)
(* A grammar is what the calls tell apart: the terminals it is written     *)
(* with, at any depth, the decoder errors in it, whether the parser and    *)
(* the compiler take it. External: the compiler, which chooses the match   *)
(* tokens, marks them and sets options of its own, and tn.grammar, which   *)
(* lays a spec's options over those the instance has, or fails, before it  *)
(* has laid them or after.                                                 *)
(***************************************************************************)
EXTENDS Ranges, FiniteSets

CONSTANTS
  Grammars,
  Callable(_, _),  \* those a caller asks for, by the calls before and the last of them
  Emissions(_),    \* the specs the compiler may make of a grammar
  MaxCalls

\* An option of an instance or a spec that has not been set.
Unset == "unset"
Matchers == {"space", "line", "comment", "string", "number", "text", "value"}

VARIABLES
  port,
  engine,      \* whether @tabnas/parser implements negotiated lexing
  memo,        \* _relexSupported: "unknown", "yes" or "no"
  slot,        \* DECODE_ERR: the errors it holds, at most one
  pc,
  call,
  left,        \* the decoder errors the parse has yet to come upon
  spec,
  outcome,     \* what the last call returned or threw
  instance,    \* its options
  installed,   \* the specs whose options tn.grammar has laid
  calls

vars == <<port, engine, memo, slot, pc, call, left, spec, outcome, instance, installed, calls>>
global == <<port, engine, calls>>

\* tokens: by source, whether the match token is eager. sets: the token sets;
\* off: the default matchers that are switched off.
Defaults ==
  [tokens |-> << >>, sets |-> [IGNORE |-> "space"], off |-> {}, empty |-> Unset, relex |-> FALSE]
NoSpec == [Defaults EXCEPT !.sets = << >>]

\* The compiler answers with a spec, and no decoder error is called one.
ASSUME GrammarsAssumption ==
  \A g \in Grammars :
    /\ \A e \in Emissions(g) : DOMAIN e = DOMAIN NoSpec
    /\ g.faults # << >> => g.faults[1] # "spec"

Over(new, old) == [k \in DOMAIN new \cup DOMAIN old |-> IF k \in DOMAIN new THEN new[k] ELSE old[k]]

\* tn.grammar: what a spec does not set is left as it was.
Merge(new, old) ==
  [tokens |-> Over(new.tokens, old.tokens),
   sets |-> Over(new.sets, old.sets),
   off |-> new.off \cup old.off,
   empty |-> IF new.empty = Unset THEN old.empty ELSE new.empty,
   relex |-> new.relex \/ old.relex]

NoCall == [grammar |-> "none", eagerClasses |-> FALSE, install |-> FALSE]

Init ==
  /\ port \in {"ts", "rs"} /\ engine \in {"new", "old"}
  /\ port = "rs" => engine = "new"    \* checked when it is built
  /\ memo = "unknown" /\ slot = {}
  /\ pc = "idle" /\ call = NoCall /\ left = << >> /\ spec = NoSpec /\ outcome = "none"
  /\ instance = Defaults /\ installed = << >> /\ calls = 0

-----------------------------------------------------------------------------
(* A call, and the parse of its grammar.                                   *)

Call ==
  /\ pc = "idle" /\ calls < MaxCalls
  /\ \E g \in Callable(calls, call.grammar) \cap Grammars, eager \in BOOLEAN, into \in BOOLEAN :
       /\ call' = [grammar |-> g, eagerClasses |-> eager, install |-> into]
       /\ left' = g.faults
  /\ calls' = calls + 1 /\ spec' = NoSpec
  /\ pc' = IF port = "rs" THEN "clear" ELSE "parse"
  /\ UNCHANGED <<port, engine, memo, slot, outcome, instance, installed>>

Goes(next) == pc' = next /\ UNCHANGED <<global, memo, call, spec, outcome, instance, installed>>
Throws(error) ==
  /\ pc' = "idle" /\ outcome' = error
  /\ UNCHANGED <<global, memo, call, spec, instance, installed>>

\* Not in the code: the slot is taken to be empty.
MClearSlotTrusted == pc = "clear" /\ Goes("parse") /\ UNCHANGED <<slot, left>>

ClearSlot == pc = "clear" /\ slot' = {} /\ Goes("parse") /\ UNCHANGED left

\* A decoder throws in TypeScript; in Rust its error is kept, the first alone,
\* and the parse goes on, into an engine that may panic.
DecoderThrows ==
  /\ pc = "parse" /\ port = "ts" /\ left # << >>
  /\ Throws(left[1]) /\ UNCHANGED <<slot, left>>
Record ==
  /\ pc = "parse" /\ port = "rs" /\ left # << >>
  /\ slot' = (IF slot = {} THEN {left[1]} ELSE slot)
  /\ left' = Tail(left) /\ Goes("parse")
Panics ==
  /\ pc = "parse" /\ port = "rs" /\ call.grammar.panics
  /\ Throws("panic") /\ UNCHANGED <<slot, left>>

ParseReturns == pc = "parse" /\ left = << >> /\ ~call.grammar.panics
Parsed ==
  /\ ParseReturns /\ slot = {} /\ call.grammar.parses
  /\ Goes("emit") /\ UNCHANGED <<slot, left>>
Unparsed ==
  /\ ParseReturns /\ slot = {} /\ ~call.grammar.parses
  /\ Throws("unreadable") /\ UNCHANGED <<slot, left>>
TakeSlot ==
  /\ ParseReturns /\ \E e \in slot : Throws(e)
  /\ slot' = {} /\ UNCHANGED left

-----------------------------------------------------------------------------
(* The compiler, and the spec made exact.                                  *)

Emit ==
  /\ pc = "emit"
  /\ \/ call.grammar.compiles /\ pc' = "exact" /\ spec' \in Emissions(call.grammar)
        /\ UNCHANGED outcome
     \/ ~call.grammar.compiles /\ pc' = "idle" /\ outcome' = "uncompilable" /\ UNCHANGED spec
  /\ UNCHANGED <<global, memo, slot, call, left, instance, installed>>

\* Not in the code: the token sets are replaced.
MExactOf(s) == [s EXCEPT !.sets = [IGNORE |-> "nothing"], !.off = Matchers]

ExactOf(s) == [s EXCEPT !.sets = Over([IGNORE |-> "nothing"], @), !.off = Matchers]

Supported == IF engine = "new" THEN "yes" ELSE "no"

\* Not in the code: an engine that has been asked about is supported.
MProbed == IF memo = "unknown" THEN Supported ELSE "yes"

\* requireRelexSupport asks a throwaway instance, once.
Probed == IF memo = "unknown" THEN Supported ELSE memo

ApplyExactLexing ==
  /\ pc = "exact"
  /\ memo' = (IF port = "ts" THEN Probed ELSE memo)
  /\ IF memo' = "no"
       THEN pc' = "idle" /\ outcome' = "too old" /\ spec' = ExactOf(spec)
       ELSE pc' = "decide" /\ spec' = [ExactOf(spec) EXCEPT !.relex = TRUE] /\ UNCHANGED outcome
  /\ UNCHANGED <<global, slot, call, left, instance, installed>>

-----------------------------------------------------------------------------
(* The classes: all eager, or none.                                        *)

Patterns(g) == {t.pattern : t \in {u \in g.terminals : u.kind = "regex"}}
\* A literal is its first code point here.
LiteralHeads(g) == {t.head : t \in {u \in g.terminals : u.kind = "term"}}

RangesIn(g) == [p \in Patterns(g) |-> emittedClassRanges(p)]

Apart(rs, heads) ==
  \A p \in DOMAIN rs :
    /\ \A q \in DOMAIN rs \ {p} : ~rangesIntersect(rs[p], rs[q])
    /\ \A cp \in heads : ~rangesContain(rs[p], cp)

\* Every token has to be one of the classes, read back.
MarksClasses ==
  /\ DOMAIN spec.tokens # {}
  /\ \A p \in Patterns(call.grammar) : emittedClassRanges(p) # Null
  /\ DOMAIN spec.tokens \subseteq Patterns(call.grammar)
  /\ Apart(RangesIn(call.grammar), LiteralHeads(call.grammar))

All(eager) == [spec EXCEPT !.tokens = [p \in DOMAIN @ |-> eager]]

\* Not in the code: the compiler's marks are only ever added to.
MDecide ==
  /\ pc = "decide"
  /\ spec' = IF call.eagerClasses /\ MarksClasses THEN All(TRUE) ELSE spec
  /\ pc' = "return"
  /\ UNCHANGED <<global, memo, slot, call, left, outcome, instance, installed>>

\* markClassesEager, and clearClassesEager when it has not.
Decide ==
  /\ pc = "decide"
  /\ spec' = All(call.eagerClasses /\ MarksClasses)
  /\ pc' = "return"
  /\ UNCHANGED <<global, memo, slot, call, left, outcome, instance, installed>>

\* Not in the code: toSpec installs as well.
MReturns ==
  /\ pc = "return"
  /\ instance' = Merge(spec, instance)
  /\ installed' = IF call.install THEN Append(installed, spec) ELSE installed
  /\ pc' = "idle" /\ outcome' = "spec"
  /\ UNCHANGED <<global, memo, slot, call, left, spec>>

Lays == instance' = Merge(spec, instance) /\ installed' = Append(installed, spec)

\* gbnf installs, toSpec does not.
Returns ==
  /\ pc = "return"
  /\ IF call.install THEN Lays ELSE UNCHANGED <<instance, installed>>
  /\ pc' = "idle" /\ outcome' = "spec"
  /\ UNCHANGED <<global, memo, slot, call, left, spec>>

\* Nothing takes back what tn.grammar had laid when it failed.
InstallFails ==
  /\ pc = "return" /\ call.install
  /\ Lays \/ UNCHANGED <<instance, installed>>
  /\ pc' = "idle" /\ outcome' = "uninstalled"
  /\ UNCHANGED <<global, memo, slot, call, left, spec>>

Rest == pc = "idle" /\ UNCHANGED vars

Next ==
  \/ Call \/ ClearSlot \/ DecoderThrows \/ Record \/ Panics \/ Parsed \/ Unparsed \/ TakeSlot
  \/ Emit \/ ApplyExactLexing \/ Decide \/ Returns \/ InstallFails \/ Rest

Spec == Init /\ [][Next]_vars

-----------------------------------------------------------------------------
(* What the calls promise.                                                 *)

CONSTANT Points    \* of the code space, where two classes may differ

Listed(p) == MembersOf(Inside(p), readEscape)
ReadBack(m) == NoChar \notin {m.lo, m.hi}

\* A pattern is one that decodeCharClass or JavaScript has taken: what a class
\* lists lies in the code space, and no range descends.
ASSUME PatternsAssumption ==
  \A g \in Grammars : \A p \in Patterns(g) :
    /\ p \in Seq([e : STRING, c : Int])
    /\ \A m \in ToSet(Listed(p)) : ReadBack(m) => 0 <= m.lo /\ m.lo <= m.hi /\ m.hi <= MAX_CP

\* Wherever a class can begin there is a point, and at every literal's head. The
\* whole code space is such a set.
ASSUME PointsAssumption ==
  /\ 0 \in Points /\ Points \subseteq 0 .. MAX_CP
  /\ \A g \in Grammars :
       /\ LiteralHeads(g) \subseteq Points
       /\ \A p \in Patterns(g) : \A m \in ToSet(Listed(p)) :
            ReadBack(m) => m.lo \in Points /\ (m.hi < MAX_CP => m.hi + 1 \in Points)

Answered == pc = "idle" /\ calls > 0
Returned == Answered /\ outcome = "spec"

\* The code points a pattern matches.
Matched(p) ==
  IF p = AnyChar THEN Points
  ELSE LET ms == Listed(p)
           named == {c \in Points : \E k \in DOMAIN ms : ms[k].lo <= c /\ c <= ms[k].hi}
       IN IF Negated(Inside(p)) THEN Points \ named ELSE named

\* The tokens are eager all together or not at all: exactly when the caller has
\* not opted out, every one of them is a class of the grammar's that was read
\* back, and no code point belongs to two classes, or to a class and to the
\* beginning of a literal, so that what a character becomes depends on no rule.
EagerExactly ==
  Returned =>
    LET g == call.grammar
        clash == \E c \in Points :
          \/ \E p, q \in Patterns(g) : p # q /\ c \in Matched(p) \cap Matched(q)
          \/ c \in LiteralHeads(g) /\ \E p \in Patterns(g) : c \in Matched(p)
        tokens == DOMAIN spec.tokens
        eager == /\ call.eagerClasses /\ tokens # {} /\ tokens \subseteq Patterns(g)
                 /\ \A p \in Patterns(g) : emittedClassRanges(p) # Null
                 /\ ~clash
    IN \A p \in tokens : spec.tokens[p] = eager

\* What the compiler has answered is in the spec that is returned: its token
\* sets, but for IGNORE, and its answer on the empty input.
CompilerHeard ==
  Returned =>
    \E e \in Emissions(call.grammar) :
      /\ DOMAIN spec.tokens = DOMAIN e.tokens /\ spec.empty = e.empty
      /\ spec.sets = [k \in DOMAIN e.sets \cup {"IGNORE"} |->
                        IF k = "IGNORE" THEN "nothing" ELSE e.sets[k]]

\* A call is answered by its own grammar, whatever the calls before it left in
\* the slot or the memo: its first decoder error, its parse or compile error,
\* or the engine's age, and a spec only when there is none of these; where it
\* was to be installed too, the instance may refuse it.
AnsweredAlone ==
  Answered =>
    LET g == call.grammar IN
      outcome \in IF port = "rs" /\ g.panics THEN {"panic"}
                  ELSE IF g.faults # << >> THEN {g.faults[1]}
                  ELSE IF ~g.parses THEN {"unreadable"}
                  ELSE IF ~g.compiles THEN {"uncompilable"}
                  ELSE IF engine = "old" THEN {"too old"}
                  ELSE IF call.install THEN {"spec", "uninstalled"} ELSE {"spec"}

\* An instance has the settings of the specs laid on it, in their order: that
\* of a call that returned, and it is then the last, and it may be that of one
\* whose installation failed, but nothing of one that was only made or that
\* failed earlier. From the first on it lexes exactly, and no later one, failed
\* or not, undoes that.
InstanceExact ==
  LET laid[k \in 0 .. Len(installed)] ==
        IF k = 0 THEN Defaults ELSE Merge(installed[k], laid[k - 1])
  IN /\ instance = laid[Len(installed)]
     /\ Returned /\ call.install => installed # << >> /\ installed[Len(installed)] = spec
     /\ installed # << >> =>
          instance.relex /\ instance.off = Matchers /\ instance.sets["IGNORE"] = "nothing"
=============================================================================
