--------------------------- MODULE InstallProofs ---------------------------
(***************************************************************************)
(* Proofs about the calls of one thread, for any sequence of grammars and  *)
(* whatever the compiler answers.                                          *)
(***************************************************************************)
EXTENDS Install, SequenceTheorems, FiniteSetTheorems, TLAPS

-----------------------------------------------------------------------------
(* The inductive invariant.                                                *)

Kinds ==
  /\ port \in {"ts", "rs"} /\ engine \in {"new", "old"}
  /\ port = "rs" => engine = "new"
  /\ memo \in {"unknown", Supported}
  /\ pc \in {"idle", "clear", "parse", "emit", "exact", "decide", "return"}

\* Nothing of an earlier call is left in the slot of a parse: it is empty, and
\* all faults are to come, or it holds the first of this grammar's.
SlotOwn ==
  /\ pc = "clear" => left = call.grammar.faults
  /\ pc = "parse" /\ port = "ts" => slot = {}
  /\ pc = "parse" =>
       \/ slot = {} /\ left = call.grammar.faults
       \/ /\ port = "rs" /\ call.grammar.faults # << >>
          /\ slot = {call.grammar.faults[1]}
  /\ port = "ts" => slot = {}

\* What a call has got through, by where it is.
Passed ==
  /\ pc \in {"emit", "exact", "decide", "return"} =>
       /\ call.grammar.faults = << >> /\ call.grammar.parses /\ ~call.grammar.panics
  /\ pc \in {"exact", "decide", "return"} => call.grammar.compiles
  /\ pc \in {"decide", "return"} => engine = "new"

IInv == Kinds /\ SlotOwn /\ Passed /\ AnsweredAlone

-----------------------------------------------------------------------------
(* One lemma per part of the next-state relation.                          *)

LEMMA InitIInv == Init => IInv
BY DEF Init, IInv, Kinds, SlotOwn, Passed, AnsweredAlone, Answered, Supported

\* A call begins with all its faults to come.
LEMMA CallKeeps == IInv /\ Call => IInv'
<1> SUFFICES ASSUME IInv, Call PROVE IInv'
  OBVIOUS
<1> USE DEF IInv
<1>1. pc' \in {"clear", "parse"} /\ (pc' = "clear" <=> port = "rs")
      /\ left' = call'.grammar.faults
  <2>1. PICK g \in Callable(calls, call.grammar) \cap Grammars, eager \in BOOLEAN, into \in BOOLEAN :
          call' = [grammar |-> g, eagerClasses |-> eager, install |-> into] /\ left' = g.faults
    BY DEF Call
  <2> QED BY <2>1 DEF Call
<1>2. Kinds' BY <1>1 DEF Kinds, Call, Supported
<1>3. SlotOwn' BY <1>1 DEF SlotOwn, Kinds, Call
<1>4. Passed' BY <1>1 DEF Passed
<1>5. AnsweredAlone' BY <1>1 DEF AnsweredAlone, Answered
<1> QED BY <1>2, <1>3, <1>4, <1>5

\* The parse: what it leaves in the slot is taken by the call itself.
Parse == ClearSlot \/ DecoderThrows \/ Record \/ Panics \/ Parsed \/ Unparsed \/ TakeSlot

LEMMA ParseKeeps == IInv /\ Parse => IInv'
<1> SUFFICES ASSUME IInv, Parse PROVE IInv'
  OBVIOUS
<1> USE DEF IInv, Goes, Throws, global
<1>1. CASE ClearSlot
  BY <1>1 DEF ClearSlot, Kinds, SlotOwn, Passed, AnsweredAlone, Answered, Supported
<1>2. CASE DecoderThrows
  <2>1. left = call.grammar.faults /\ left # << >>
    BY <1>2 DEF DecoderThrows, SlotOwn
  <2>2. Kinds' /\ SlotOwn' /\ Passed'
    BY <1>2 DEF DecoderThrows, Kinds, SlotOwn, Passed, Supported
  <2>3. AnsweredAlone'
    BY <1>2, <2>1 DEF DecoderThrows, AnsweredAlone, Kinds
  <2> QED BY <2>2, <2>3
<1>3. CASE Record
  <2>1. SlotOwn'
    BY <1>3 DEF Record, SlotOwn
  <2>2. Kinds' /\ Passed' /\ AnsweredAlone'
    BY <1>3 DEF Record, Kinds, Passed, AnsweredAlone, Answered, Supported
  <2> QED BY <2>1, <2>2
<1>4. CASE Panics
  BY <1>4 DEF Panics, Kinds, SlotOwn, Passed, AnsweredAlone, Answered, Supported
<1>5. CASE Parsed
  <2>1. call.grammar.faults = << >> /\ call.grammar.parses /\ ~call.grammar.panics
    BY <1>5 DEF Parsed, ParseReturns, SlotOwn
  <2> QED BY <1>5, <2>1 DEF Parsed, ParseReturns, Kinds, SlotOwn, Passed, AnsweredAlone, Answered, Supported
<1>6. CASE Unparsed
  <2>1. call.grammar.faults = << >> /\ ~call.grammar.parses /\ ~call.grammar.panics
    BY <1>6 DEF Unparsed, ParseReturns, SlotOwn
  <2> QED BY <1>6, <2>1 DEF Unparsed, ParseReturns, Kinds, SlotOwn, Passed, AnsweredAlone, Answered, Supported
<1>7. CASE TakeSlot
  <2>1. /\ outcome' = call.grammar.faults[1] /\ call.grammar.faults # << >>
        /\ ~call.grammar.panics
    BY <1>7 DEF TakeSlot, ParseReturns, SlotOwn
  <2> QED BY <1>7, <2>1 DEF TakeSlot, ParseReturns, Kinds, SlotOwn, Passed, AnsweredAlone, Answered, Supported
<1> QED BY <1>1, <1>2, <1>3, <1>4, <1>5, <1>6, <1>7 DEF Parse

\* From the compiler on: the memo says what the engine is.
Compile == Emit \/ ApplyExactLexing \/ Decide \/ Returns \/ InstallFails

LEMMA CompileKeeps == IInv /\ Compile => IInv'
<1> SUFFICES ASSUME IInv, Compile PROVE IInv'
  OBVIOUS
<1> USE DEF IInv, global
<1>1. CASE Emit
  BY <1>1 DEF Emit, Kinds, SlotOwn, Passed, AnsweredAlone, Answered, Supported
<1>2. CASE ApplyExactLexing
  <2>1. memo' \in {"unknown", Supported} /\ (memo' = "no" => engine = "old")
        /\ (memo' # "no" => engine = "new")
    BY <1>2 DEF ApplyExactLexing, Probed, Kinds, Supported
  <2> QED
    BY <1>2, <2>1 DEF ApplyExactLexing, Kinds, SlotOwn, Passed, AnsweredAlone, Answered, Supported
<1>3. CASE Decide
  BY <1>3 DEF Decide, Kinds, SlotOwn, Passed, AnsweredAlone, Answered, Supported
<1>4. CASE Returns
  BY <1>4 DEF Returns, Kinds, SlotOwn, Passed, AnsweredAlone, Answered, Supported
<1>5. CASE InstallFails
  BY <1>5 DEF InstallFails, Kinds, SlotOwn, Passed, AnsweredAlone, Answered, Supported
<1> QED BY <1>1, <1>2, <1>3, <1>4, <1>5 DEF Compile

LEMMA NextKeeps == IInv /\ [Next]_vars => IInv'
<1> SUFFICES ASSUME IInv, [Next]_vars PROVE IInv'
  OBVIOUS
<1>1. CASE UNCHANGED vars
  BY <1>1 DEF vars, IInv, Kinds, SlotOwn, Passed, AnsweredAlone, Answered, Supported
<1>2. CASE Next
  BY <1>1, <1>2, CallKeeps, ParseKeeps, CompileKeeps DEF Next, Rest, Parse, Compile
<1> QED BY <1>1, <1>2

\* Whatever was called before, and however those calls ended, a call is
\* answered by its own grammar: requireRelexSupport's memo and the decoder
\* slot of the Rust port carry nothing over.
THEOREM AnswersAlone == Spec => []AnsweredAlone
<1>1. IInv => AnsweredAlone BY DEF IInv
<1> QED BY <1>1, InitIInv, NextKeeps, PTL DEF Spec

-----------------------------------------------------------------------------
(* The compiler's answer, on its way to the caller.                        *)

\* A spec says what the answer e does.
Says(s, e) ==
  /\ DOMAIN s.tokens = DOMAIN e.tokens /\ s.empty = e.empty
  /\ s.sets = [k \in DOMAIN e.sets \cup {"IGNORE"} |->
                 IF k = "IGNORE" THEN "nothing" ELSE e.sets[k]]

Heard ==
  /\ pc # "idle" => call.grammar \in Grammars
  /\ pc = "exact" => spec \in Emissions(call.grammar)
  /\ pc \in {"decide", "return"} =>
       DOMAIN spec = DOMAIN NoSpec /\ \E e \in Emissions(call.grammar) : Says(spec, e)

HInv == IInv /\ Heard /\ CompilerHeard

\* What applyExactLexing does to a spec.
LEMMA ExactSays ==
  ASSUME NEW e, DOMAIN e = DOMAIN NoSpec
  PROVE  /\ DOMAIN ExactOf(e) = DOMAIN NoSpec
         /\ Says([ExactOf(e) EXCEPT !.relex = TRUE], e)
         /\ DOMAIN [ExactOf(e) EXCEPT !.relex = TRUE] = DOMAIN NoSpec
<1>1. DOMAIN NoSpec = {"tokens", "sets", "off", "empty", "relex"}
  BY DEF NoSpec, Defaults
<1>2. /\ ExactOf(e).tokens = e.tokens /\ ExactOf(e).empty = e.empty
      /\ ExactOf(e).sets = Over([IGNORE |-> "nothing"], e.sets)
      /\ DOMAIN ExactOf(e) = DOMAIN e
  BY <1>1 DEF ExactOf
<1>3. Over([IGNORE |-> "nothing"], e.sets) =
        [k \in DOMAIN e.sets \cup {"IGNORE"} |-> IF k = "IGNORE" THEN "nothing" ELSE e.sets[k]]
  BY DEF Over
<1> DEFINE s == [ExactOf(e) EXCEPT !.relex = TRUE]
<1>4. s.tokens = ExactOf(e).tokens /\ s.empty = ExactOf(e).empty /\ s.sets = ExactOf(e).sets
      /\ DOMAIN s = DOMAIN ExactOf(e)
  BY <1>1, <1>2
<1> QED BY <1>2, <1>3, <1>4 DEF Says

\* Marking changes no token's name, and nothing else of a spec.
LEMMA AllSays ==
  ASSUME NEW s, NEW e, NEW eager, DOMAIN s = DOMAIN NoSpec, Says(s, e)
  PROVE  LET t == [s EXCEPT !.tokens = [p \in DOMAIN @ |-> eager]]
         IN DOMAIN t = DOMAIN NoSpec /\ Says(t, e)
<1>1. DOMAIN NoSpec = {"tokens", "sets", "off", "empty", "relex"}
  BY DEF NoSpec, Defaults
<1> QED BY <1>1 DEF Says

LEMMA HeardKept == HInv /\ [Next]_vars => Heard'
<1> SUFFICES ASSUME HInv, [Next]_vars PROVE Heard'
  OBVIOUS
<1> USE DEF HInv, global
<1>1. CASE UNCHANGED vars BY <1>1 DEF vars, Heard
<1>2. CASE Call
  <2>1. call'.grammar \in Grammars /\ pc' \in {"clear", "parse"}
    BY <1>2 DEF Call
  <2> QED BY <2>1 DEF Heard
<1>3. CASE Parse
  <2>1. pc' \in {"idle", "parse", "emit"} /\ (pc' # "idle" => pc # "idle") /\ UNCHANGED call
    BY <1>3 DEF Parse, ClearSlot, DecoderThrows, Record, Panics, Parsed, Unparsed, TakeSlot,
                ParseReturns, Goes, Throws
  <2> QED BY <2>1 DEF Heard
<1>4. CASE Emit BY <1>4 DEF Emit, Heard
<1>5. CASE ApplyExactLexing
  <2>1. spec \in Emissions(call.grammar) /\ DOMAIN spec = DOMAIN NoSpec
    BY <1>5, GrammarsAssumption DEF ApplyExactLexing, Heard
  <2>2. CASE memo' = "no"
    BY <1>5, <2>2 DEF ApplyExactLexing, Heard
  <2>3. CASE memo' # "no"
    <3>1. pc' = "decide" /\ spec' = [ExactOf(spec) EXCEPT !.relex = TRUE] /\ UNCHANGED call
      BY <1>5, <2>3 DEF ApplyExactLexing
    <3>2. DOMAIN spec' = DOMAIN NoSpec /\ Says(spec', spec)
      BY <2>1, <3>1, ExactSays
    <3> QED BY <1>5, <2>1, <3>1, <3>2 DEF Heard, ApplyExactLexing
  <2> QED BY <2>2, <2>3
<1>6. CASE Decide
  <2>1. PICK e \in Emissions(call.grammar) : DOMAIN spec = DOMAIN NoSpec /\ Says(spec, e)
    BY <1>6 DEF Decide, Heard
  <2>2. DOMAIN spec' = DOMAIN NoSpec /\ Says(spec', e)
    BY <1>6, <2>1, AllSays DEF Decide, All
  <2> QED BY <1>6, <2>2 DEF Decide, Heard
<1>7. CASE Returns \/ InstallFails BY <1>7 DEF Returns, InstallFails, Heard
<1>8. CASE Rest BY <1>8 DEF Rest, vars, Heard
<1> QED BY <1>1, <1>2, <1>3, <1>4, <1>5, <1>6, <1>7, <1>8 DEF Next, Parse

\* Only Returns answers a call with its spec.
LEMMA OnlyReturnsSpec == HInv /\ [Next]_vars => Returns \/ UNCHANGED vars \/ ~Returned'
<1> SUFFICES ASSUME HInv, [Next]_vars, ~Returns, ~UNCHANGED vars PROVE ~Returned'
  OBVIOUS
<1> USE DEF HInv, IInv, global, Returned, Answered
<1>2. CASE Call
  <2>1. pc' \in {"clear", "parse"} BY <1>2 DEF Call
  <2> QED BY <2>1
<1>3. CASE Parse
  <2>1. pc' = "idle" => outcome' # "spec"
    <3>1. pc \in {"clear", "parse"}
      BY <1>3 DEF Parse, ClearSlot, DecoderThrows, Record, Panics, Parsed, Unparsed, TakeSlot, ParseReturns
    <3>2. call.grammar.faults # << >> => call.grammar.faults[1] # "spec"
      BY <3>1, GrammarsAssumption DEF Heard
    <3>3. CASE DecoderThrows
      BY <3>2, <3>3 DEF DecoderThrows, Throws, SlotOwn
    <3>4. CASE TakeSlot
      BY <3>2, <3>4 DEF TakeSlot, ParseReturns, Throws, SlotOwn
    <3>5. CASE ClearSlot \/ Record \/ Panics \/ Parsed \/ Unparsed
      BY <3>5 DEF ClearSlot, Record, Panics, Parsed, Unparsed, Goes, Throws
    <3> QED BY <1>3, <3>3, <3>4, <3>5 DEF Parse
  <2> QED BY <2>1
<1>4. CASE Emit BY <1>4 DEF Emit
<1>5. CASE ApplyExactLexing BY <1>5 DEF ApplyExactLexing
<1>6. CASE Decide BY <1>6 DEF Decide
<1>7. CASE InstallFails BY <1>7 DEF InstallFails
<1> QED BY <1>2, <1>3, <1>4, <1>5, <1>6, <1>7 DEF Next, Parse, Rest

LEMMA AnswerKept == HInv /\ [Next]_vars => CompilerHeard'
<1> SUFFICES ASSUME HInv, [Next]_vars PROVE CompilerHeard'
  OBVIOUS
<1>1. CASE UNCHANGED vars
  BY <1>1 DEF vars, HInv, CompilerHeard, Returned, Answered
<1>2. CASE Returns
  <2>1. PICK e \in Emissions(call.grammar) : Says(spec, e)
    BY <1>2 DEF Returns, HInv, Heard
  <2> QED BY <1>2, <2>1 DEF Returns, Says, CompilerHeard
<1>3. CASE ~Returned'
  BY <1>3 DEF CompilerHeard
<1> QED BY <1>1, <1>2, <1>3, OnlyReturnsSpec

\* Whatever specs the compiler makes, what reaches the caller has its tokens,
\* its token sets and its answer on the empty input: applyExactLexing and the
\* marks lay their settings beside them.
THEOREM CompilerKept == Spec => []CompilerHeard
<1>1. Init => HInv
  BY InitIInv DEF Init, HInv, Heard, CompilerHeard, Returned, Answered
<1>2. HInv /\ [Next]_vars => HInv'
  BY NextKeeps, HeardKept, AnswerKept DEF HInv
<1>3. HInv => CompilerHeard BY DEF HInv
<1> QED BY <1>1, <1>2, <1>3, PTL DEF Spec

-----------------------------------------------------------------------------
(* What an instance has.                                                   *)

\* The settings of the specs in s, laid over one another: what the definition
\* in InstanceExact says of its function, said of any.
LaidFrom(f, s) ==
  f = [k \in 0 .. Len(s) |-> IF k = 0 THEN Defaults ELSE Merge(s[k], f[k - 1])]

\* Every such function ends in the instance, and there is one.
LaidExact ==
  /\ \E S : installed \in Seq(S)
  /\ \E f : LaidFrom(f, installed)
  /\ \A f : LaidFrom(f, installed) => f[Len(installed)] = instance

\* A spec that has been made exact lexes exactly.
Exactly(s) ==
  /\ s.relex = TRUE /\ s.off = Matchers
  /\ "IGNORE" \in DOMAIN s.sets /\ s.sets["IGNORE"] = "nothing"

OncePinned ==
  /\ pc \in {"decide", "return"} => Exactly(spec)
  /\ installed = << >> => instance = Defaults
  /\ installed # << >> => Exactly(instance)

\* A call that returned has laid its spec, on top.
LaidLast == Returned /\ call.install => installed # << >> /\ installed[Len(installed)] = spec

LInv == HInv /\ LaidExact /\ OncePinned /\ LaidLast

\* One spec more on the pile is one Merge more.
LEMMA LaidAppend ==
  ASSUME NEW S, NEW s \in Seq(S), NEW e \in S, NEW base,
         \E f : LaidFrom(f, s), \A f : LaidFrom(f, s) => f[Len(s)] = base
  PROVE  /\ \E f : LaidFrom(f, Append(s, e))
         /\ \A f : LaidFrom(f, Append(s, e)) => f[Len(Append(s, e))] = Merge(e, base)
<1> DEFINE t == Append(s, e)
           n == Len(s)
<1>1. /\ n \in Nat /\ Len(t) = n + 1 /\ t[n + 1] = e
      /\ \A i \in 1 .. n : t[i] = s[i]
  BY LenProperties, AppendProperties
<1>2. PICK f : LaidFrom(f, s)
  OBVIOUS
<1>3. f = [k \in 0 .. n |-> IF k = 0 THEN Defaults ELSE Merge(s[k], f[k - 1])]
  BY <1>2 DEF LaidFrom
<1>4. ASSUME TRUE PROVE \E g : LaidFrom(g, t)
  <2> DEFINE g == [k \in 0 .. n + 1 |-> IF k = n + 1 THEN Merge(e, f[n]) ELSE f[k]]
  <2>1. ASSUME NEW k \in 0 .. n + 1
        PROVE  g[k] = IF k = 0 THEN Defaults ELSE Merge(t[k], g[k - 1])
    <3>1. CASE k = n + 1
      <4>1. k # 0 /\ k - 1 = n /\ n \in 0 .. n + 1 /\ n # n + 1
        BY <1>1, <3>1
      <4>2. g[k] = Merge(e, f[n]) /\ g[k - 1] = f[n] /\ t[k] = e
        BY <1>1, <3>1, <4>1
      <4> QED BY <4>1, <4>2
    <3>2. CASE k \in 0 .. n
      <4>1. g[k] = f[k] /\ k # n + 1
        BY <1>1, <3>2
      <4>2. CASE k = 0
        BY <1>3, <3>2, <4>1, <4>2
      <4>3. CASE k # 0
        <5>1. k \in 1 .. n /\ k - 1 \in 0 .. n + 1 /\ k - 1 # n + 1
          BY <1>1, <3>2, <4>3
        <5>2. g[k - 1] = f[k - 1] /\ t[k] = s[k]
          BY <1>1, <5>1
        <5>3. f[k] = Merge(s[k], f[k - 1])
          BY <1>3, <3>2, <4>3
        <5> QED BY <4>1, <4>3, <5>2, <5>3
      <4> QED BY <4>2, <4>3
    <3> QED BY <1>1, <3>1, <3>2
  <2>2. g = [k \in 0 .. n + 1 |-> IF k = 0 THEN Defaults ELSE Merge(t[k], g[k - 1])]
    BY <2>1
  <2>3. LaidFrom(g, t)
    BY <1>1, <2>2 DEF LaidFrom
  <2> QED BY <2>3
<1>5. ASSUME NEW g, LaidFrom(g, t) PROVE g[n + 1] = Merge(e, base)
  <2> DEFINE h == [k \in 0 .. n |-> g[k]]
  <2>1. g = [k \in 0 .. n + 1 |-> IF k = 0 THEN Defaults ELSE Merge(t[k], g[k - 1])]
    BY <1>1, <1>5 DEF LaidFrom
  <2>2. ASSUME NEW k \in 0 .. n
        PROVE  h[k] = IF k = 0 THEN Defaults ELSE Merge(s[k], h[k - 1])
    <3>1. CASE k = 0
      BY <1>1, <2>1, <3>1
    <3>2. CASE k # 0
      <4>1. k \in 1 .. n /\ k - 1 \in 0 .. n /\ k \in 0 .. n + 1
        BY <1>1, <3>2
      <4>2. h[k] = Merge(t[k], g[k - 1]) /\ h[k - 1] = g[k - 1] /\ t[k] = s[k]
        BY <1>1, <2>1, <3>2, <4>1
      <4> QED BY <3>2, <4>2
    <3> QED BY <3>1, <3>2
  <2>3. h = [k \in 0 .. n |-> IF k = 0 THEN Defaults ELSE Merge(s[k], h[k - 1])]
    BY <2>2
  <2>4. LaidFrom(h, s)
    BY <2>3 DEF LaidFrom
  <2>5. h[n] = base
    BY <2>4
  <2>6. n + 1 \in 0 .. n + 1 /\ n + 1 # 0 /\ (n + 1) - 1 = n /\ n \in 0 .. n
    BY <1>1
  <2>7. g[n + 1] = Merge(t[n + 1], g[(n + 1) - 1])
    BY <2>1, <2>6
  <2> QED BY <1>1, <2>5, <2>6, <2>7
<1> QED BY <1>1, <1>4, <1>5

\* A spec laid over any settings leaves what it pins as it pins it.
LEMMA MergePins ==
  ASSUME NEW new, NEW old, Exactly(new), old = Defaults \/ Exactly(old)
  PROVE  Exactly(Merge(new, old))
<1> DEFINE m == Merge(new, old)
<1>1. /\ m.sets = Over(new.sets, old.sets) /\ m.off = new.off \cup old.off
      /\ m.relex = (new.relex \/ old.relex)
  BY DEF Merge
<1>2. m.off = Matchers
  <2>1. old.off = {} \/ old.off = Matchers
    BY DEF Exactly, Defaults
  <2> QED BY <1>1, <2>1 DEF Exactly
<1>3. "IGNORE" \in DOMAIN m.sets /\ m.sets["IGNORE"] = "nothing"
  BY <1>1 DEF Exactly, Over
<1>4. m.relex = TRUE
  BY <1>1 DEF Exactly
<1> HIDE DEF m
<1>5. Exactly(m) BY <1>2, <1>3, <1>4 DEF Exactly
<1> QED BY <1>5 DEF m

\* applyExactLexing pins, and the marks leave it so.
LEMMA ExactPins ==
  ASSUME NEW e, DOMAIN e = DOMAIN NoSpec
  PROVE  Exactly([ExactOf(e) EXCEPT !.relex = TRUE])
<1>1. DOMAIN NoSpec = {"tokens", "sets", "off", "empty", "relex"}
  BY DEF NoSpec, Defaults
<1>2. /\ ExactOf(e).off = Matchers /\ ExactOf(e).sets = Over([IGNORE |-> "nothing"], e.sets)
      /\ DOMAIN ExactOf(e) = DOMAIN e
  BY <1>1 DEF ExactOf
<1> DEFINE s == [ExactOf(e) EXCEPT !.relex = TRUE]
<1>3. s.off = ExactOf(e).off /\ s.sets = ExactOf(e).sets /\ s.relex = TRUE
  BY <1>1, <1>2
<1>4. "IGNORE" \in DOMAIN s.sets /\ s.sets["IGNORE"] = "nothing"
  BY <1>2, <1>3 DEF Over
<1> HIDE DEF s
<1>5. Exactly(s) BY <1>2, <1>3, <1>4 DEF Exactly
<1> QED BY <1>5 DEF s

LEMMA AllPins ==
  ASSUME NEW s, NEW eager, DOMAIN s = DOMAIN NoSpec, Exactly(s)
  PROVE  Exactly([s EXCEPT !.tokens = [p \in DOMAIN @ |-> eager]])
<1>1. DOMAIN NoSpec = {"tokens", "sets", "off", "empty", "relex"}
  BY DEF NoSpec, Defaults
<1> QED BY <1>1 DEF Exactly

LEMMA InitLInv == Init => LInv
<1> SUFFICES ASSUME Init PROVE LInv
  OBVIOUS
<1>1. HInv
  BY InitIInv DEF Init, HInv, Heard, CompilerHeard, Returned, Answered
<1>2. installed = << >> /\ instance = Defaults /\ pc = "idle" /\ Len(<< >>) = 0
  BY EmptySeq DEF Init
<1>3. LaidExact
  <2>1. installed \in Seq({}) BY <1>2, EmptySeq
  <2>2. Len(installed) = 0 BY <1>2
  <2> DEFINE f == [k \in 0 .. 0 |-> Defaults]
  <2>3. LaidFrom(f, installed)
    <3>1. f = [k \in 0 .. 0 |-> IF k = 0 THEN Defaults ELSE Merge(installed[k], f[k - 1])]
      OBVIOUS
    <3> QED BY <2>2, <3>1 DEF LaidFrom
  <2>4. ASSUME NEW g, LaidFrom(g, installed) PROVE g[0] = Defaults
    BY <2>2, <2>4 DEF LaidFrom
  <2> QED BY <1>2, <2>1, <2>2, <2>3, <2>4 DEF LaidExact
<1>4. OncePinned BY <1>2 DEF OncePinned
<1>5. LaidLast BY DEF Init, LaidLast, Returned, Answered
<1> QED BY <1>1, <1>3, <1>4, <1>5 DEF LInv

\* Only the installation touches an instance, failed or not.
Installs == pc = "return" /\ pc' = "idle" /\ UNCHANGED spec /\ (Returns \/ InstallFails)
LEMMA OnlyInstalls ==
  [Next]_vars =>
    \/ Installs /\ (Lays \/ UNCHANGED <<instance, installed>>)
    \/ ~Returns /\ ~InstallFails /\ UNCHANGED <<instance, installed>>
BY DEF Installs, Returns, InstallFails, Next, vars, Call, ClearSlot, DecoderThrows, Record, Panics, Parsed, Unparsed, TakeSlot, Goes,
       Throws, Emit, ApplyExactLexing, Decide, Rest

LEMMA PileKept == LInv /\ [Next]_vars => LaidExact'
<1> SUFFICES ASSUME LInv, [Next]_vars PROVE LaidExact'
  OBVIOUS
<1>1. CASE UNCHANGED <<instance, installed>>
  <2>1. LaidExact BY DEF LInv
  <2> QED BY <1>1, <2>1 DEF LaidExact
<1>2. CASE installed' = Append(installed, spec) /\ instance' = Merge(spec, instance)
  <2>1. PICK S : installed \in Seq(S)
    BY DEF LInv, LaidExact
  <2> DEFINE T == S \cup {spec}
  <2>2. installed \in Seq(T)
    BY <2>1, SeqMonotonic
  <2>3. installed' \in Seq(T)
    BY <1>2, <2>2, AppendProperties
  <2>4. /\ \E f : LaidFrom(f, installed)
        /\ \A f : LaidFrom(f, installed) => f[Len(installed)] = instance
    BY DEF LInv, LaidExact
  <2>5. spec \in T OBVIOUS
  <2>6. /\ \E f : LaidFrom(f, Append(installed, spec))
        /\ \A f : LaidFrom(f, Append(installed, spec)) =>
             f[Len(Append(installed, spec))] = Merge(spec, instance)
    <3> HIDE DEF T
    <3> QED BY <2>2, <2>4, <2>5, LaidAppend
  <2> QED BY <1>2, <2>3, <2>6 DEF LaidExact
<1> QED BY <1>1, <1>2, OnlyInstalls DEF Lays

\* A spec on a pile is the last of it.
LEMMA LaidOnTop ==
  ASSUME LInv, Lays
  PROVE  installed' # << >> /\ installed'[Len(installed')] = spec
<1>1. PICK S : installed \in Seq(S)
  BY DEF LInv, LaidExact
<1>2. installed \in Seq(S \cup {spec})
  BY <1>1, SeqMonotonic
<1> QED BY <1>2, AppendProperties, LenProperties DEF Lays

LEMMA LastKept == LInv /\ [Next]_vars => LaidLast'
<1> SUFFICES ASSUME LInv, [Next]_vars, Returned' PROVE LaidLast'
  BY DEF LaidLast
<1>1. CASE UNCHANGED vars
  BY <1>1 DEF LInv, LaidLast, Returned, Answered, vars
<1>2. CASE Returns
  <2>1. UNCHANGED <<call, spec>> /\ (call.install => Lays)
    BY <1>2 DEF Returns
  <2> QED BY <2>1, LaidOnTop DEF LaidLast
<1> QED BY <1>1, <1>2, OnlyReturnsSpec DEF LInv

LEMMA PinsKept == LInv /\ [Next]_vars => OncePinned'
<1> SUFFICES ASSUME LInv, [Next]_vars PROVE OncePinned'
  OBVIOUS
<1> USE DEF LInv, HInv, IInv
<1>1. (pc \in {"decide", "return"} => Exactly(spec)) /\ (installed = << >> => instance = Defaults)
      /\ (installed # << >> => Exactly(instance))
  BY DEF OncePinned
<1>2. CASE Installs
  <2>1. pc = "return" /\ pc' = "idle" /\ UNCHANGED spec
    BY <1>2 DEF Installs
  <2>2. CASE UNCHANGED <<instance, installed>>
    BY <1>1, <2>1, <2>2 DEF OncePinned
  <2>3. CASE Lays
    <3>1. Exactly(instance')
      BY <1>1, <2>1, <2>3, MergePins DEF Lays
    <3> QED BY <2>1, <2>3, <3>1, LaidOnTop DEF OncePinned
  <2> QED BY <1>2, <2>2, <2>3, OnlyInstalls DEF Installs
<1>3. CASE UNCHANGED <<instance, installed>> /\ (pc' \in {"decide", "return"} => Exactly(spec'))
  BY <1>1, <1>3 DEF OncePinned
<1>4. ASSUME ~Returns, ~InstallFails PROVE pc' \in {"decide", "return"} => Exactly(spec')
  <2>1. CASE ApplyExactLexing
    <3>1. spec \in Emissions(call.grammar) /\ DOMAIN spec = DOMAIN NoSpec
      BY <2>1, GrammarsAssumption DEF ApplyExactLexing, Heard
    <3> QED BY <2>1, <3>1, ExactPins DEF ApplyExactLexing
  <2>2. CASE Decide
    <3>1. DOMAIN spec = DOMAIN NoSpec /\ Exactly(spec)
      BY <1>1, <2>2 DEF Decide, Heard
    <3> QED BY <2>2, <3>1, AllPins DEF Decide, All
  <2>3. CASE ~ApplyExactLexing /\ ~Decide
    <3>1. pc' \in {"decide", "return"} => UNCHANGED <<pc, spec>>
      BY <1>4, <2>3
         DEF Next, vars, Call, ClearSlot, DecoderThrows, Record, Panics, Parsed, Unparsed, TakeSlot,
             Goes, Throws, Emit, Rest
    <3> QED BY <1>1, <3>1
  <2> QED BY <2>1, <2>2, <2>3
<1> QED BY <1>2, <1>3, <1>4, OnlyInstalls

\* Whatever specs are made, whichever of them are installed, and wherever an
\* installation fails: an instance has the settings of the specs laid on it in
\* their order and nothing else, that of a call that returned is among them,
\* and from the first on it lexes exactly.
THEOREM InstancesExact == Spec => []InstanceExact
<1>1. LInv /\ [Next]_vars => LInv'
  BY NextKeeps, HeardKept, AnswerKept, PileKept, PinsKept, LastKept DEF LInv, HInv
<1>2. ASSUME LInv PROVE InstanceExact
  <2> DEFINE laid == CHOOSE f : LaidFrom(f, installed)
  <2>1. LaidFrom(laid, installed)
    BY <1>2 DEF LInv, LaidExact
  <2>2. instance = laid[Len(installed)]
    BY <1>2, <2>1 DEF LInv, LaidExact
  <2>3. installed # << >> =>
          instance.relex /\ instance.off = Matchers /\ instance.sets["IGNORE"] = "nothing"
    BY <1>2 DEF LInv, OncePinned, Exactly
  <2>4. LaidLast
    BY <1>2 DEF LInv
  <2> QED BY <2>2, <2>3, <2>4 DEF InstanceExact, LaidFrom, LaidLast
<1> QED BY <1>1, <1>2, InitLInv, PTL DEF Spec

-----------------------------------------------------------------------------
(* The ranges: what the loops of Ranges compute, for lists of any length.  *)
(* Each loop is a function defined by CHOOSE: a lemma first finds one that *)
(* answers to its definition, then follows the one chosen along its list.  *)

\* The library's induction takes an operator; this is as much of it as a set says.
LEMMA SetInduction ==
  ASSUME NEW S, 0 \in S, \A n \in Nat : n \in S => n + 1 \in S
  PROVE  \A n \in Nat : n \in S
<1> SUFFICES ASSUME NEW m \in Nat, m \notin S PROVE FALSE
  OBVIOUS
<1> DEFINE D == {i \in 0 .. m : i \notin S}
           E == D \ {m}
           f == [i \in D |-> i - 1]
<1>1. \A i \in D : i - 1 \in E
  <2> SUFFICES ASSUME NEW i \in D PROVE i - 1 \in E
    OBVIOUS
  <2>1. i \in 0 .. m /\ i \notin S /\ i # 0 OBVIOUS
  <2>2. i - 1 \in Nat /\ i - 1 <= m /\ i - 1 # m /\ (i - 1) + 1 = i BY <2>1
  <2>3. i - 1 \notin S BY <2>1, <2>2
  <2> QED BY <2>2, <2>3
<1>2. f \in [D -> E]
  BY <1>1
<1>3. IsFiniteSet(D)
  <2>1. IsFiniteSet(0 .. m) BY FS_Interval
  <2> QED BY <2>1, FS_Subset
<1>4. m \in D OBVIOUS
<1>5. IsFiniteSet(E) /\ Cardinality(E) = Cardinality(D) - 1 /\ Cardinality(D) \in Nat
  <2> HIDE DEF D
  <2> QED BY <1>3, <1>4, FS_RemoveElement, FS_CardinalityType
<1>6. \E x, y \in D : x # y /\ f[x] = f[y]
  <2>1. IsFiniteSet(D) /\ IsFiniteSet(E) /\ Cardinality(E) < Cardinality(D)
    BY <1>3, <1>5
  <2> HIDE DEF D, E, f
  <2> QED BY <1>2, <2>1, FS_PigeonHole
<1> QED BY <1>6

\* Ranges, and the code points they cover.
Spans == [lo : Int, hi : Int]
In(r, c) == r.lo <= c /\ c <= r.hi
Covers(rs, c) == \E k \in 1 .. Len(rs) : In(rs[k], c)

\* No range is empty, and each ends before the next begins.
Ordered(rs) ==
  /\ rs \in Seq(Spans)
  /\ \A k \in 1 .. Len(rs) : rs[k].lo <= rs[k].hi
  /\ \A i, j \in 1 .. Len(rs) : i < j => rs[i].hi < rs[j].lo

\* What is in a list of ranges.
LEMMA Types ==
  ASSUME NEW rs \in Seq(Spans)
  PROVE  /\ Len(rs) \in Nat /\ DOMAIN rs = 1 .. Len(rs)
         /\ \A k \in 1 .. Len(rs) : rs[k] \in Spans /\ rs[k].lo \in Int /\ rs[k].hi \in Int
<1>1. /\ Len(rs) \in Nat /\ DOMAIN rs = 1 .. Len(rs)
      /\ \A k \in 1 .. Len(rs) : rs[k] \in Spans
  BY LenProperties, ElementOfSeq
<1> QED BY <1>1 DEF Spans

\* The loop of rangesContain, from each range on.
ContainsFrom(f, rs, cp) ==
  f = [k \in 1 .. Len(rs) + 1 |-> k <= Len(rs) /\ rs[k].lo <= cp /\ (cp <= rs[k].hi \/ f[k + 1])]

\* rangesContain may stop early, since no later range begins before.
LEMMA ContainsExact ==
  ASSUME NEW rs, Ordered(rs), NEW cp \in Int
  PROVE  rangesContain(rs, cp) <=> Covers(rs, cp)
<1> DEFINE n == Len(rs)
           w == [k \in 1 .. n + 1 |-> \E j \in k .. n : In(rs[j], cp)]
<1>1. /\ n \in Nat
      /\ \A k \in 1 .. n : rs[k].lo \in Int /\ rs[k].hi \in Int
  BY Types DEF Ordered
<1>2. ASSUME NEW k \in 1 .. n + 1
      PROVE  w[k] <=> k <= n /\ rs[k].lo <= cp /\ (cp <= rs[k].hi \/ w[k + 1])
  <2>1. CASE k = n + 1
    <3>1. k .. n = {} BY <1>1, <2>1
    <3> QED BY <1>1, <2>1, <3>1
  <2>2. CASE k \in 1 .. n
    <3>1. k \in k .. n /\ k + 1 \in 1 .. n + 1 /\ k .. n = {k} \cup ((k + 1) .. n) /\ k <= n
      BY <1>1, <2>2
    <3>2. w[k] <=> In(rs[k], cp) \/ \E j \in (k + 1) .. n : In(rs[j], cp)
      BY <3>1
    <3>3. w[k + 1] <=> \E j \in (k + 1) .. n : In(rs[j], cp)
      BY <3>1
    <3>4. ASSUME NEW j \in (k + 1) .. n, In(rs[j], cp) PROVE rs[k].lo <= cp
      <4>1. k < j /\ j \in 1 .. n BY <1>1, <2>2
      <4>2. rs[k].lo <= rs[k].hi /\ rs[k].hi < rs[j].lo BY <2>2, <4>1 DEF Ordered
      <4> QED BY <1>1, <2>2, <3>4, <4>1, <4>2 DEF In
    <3> HIDE DEF w
    <3> QED BY <3>1, <3>2, <3>3, <3>4 DEF In
  <2> QED BY <1>1, <2>1, <2>2
<1>3. ContainsFrom(w, rs, cp)
  <2>1. w = [k \in 1 .. n + 1 |-> k <= n /\ rs[k].lo <= cp /\ (cp <= rs[k].hi \/ w[k + 1])]
    <3>1. w = [k \in 1 .. n + 1 |-> w[k]] OBVIOUS
    <3>2. \A k \in 1 .. n + 1 : w[k] \in BOOLEAN OBVIOUS
    <3>3. \A k \in 1 .. n + 1 : w[k] = (k <= n /\ rs[k].lo <= cp /\ (cp <= rs[k].hi \/ w[k + 1]))
      <4> HIDE DEF w
      <4> QED BY <1>2, <3>2
    <3> HIDE DEF w
    <3> QED BY <3>1, <3>3, Zenon
  <2> QED BY <2>1 DEF ContainsFrom
<1> HIDE DEF w
<1> DEFINE f == CHOOSE f : ContainsFrom(f, rs, cp)
<1>4. ContainsFrom(f, rs, cp) BY <1>3
<1>5. rangesContain(rs, cp) = f[1] BY DEF rangesContain, ContainsFrom
<1> HIDE DEF f
<1>6. \A k \in 1 .. n + 1 : f[k] <=> k <= n /\ rs[k].lo <= cp /\ (cp <= rs[k].hi \/ f[k + 1])
  BY <1>4 DEF ContainsFrom
<1> DEFINE S == {d \in Nat : d <= n => (f[n + 1 - d] <=> w[n + 1 - d])}
<1>7. 0 \in S
  <2>1. n + 1 \in 1 .. n + 1 /\ ~(n + 1 <= n) /\ n + 1 - 0 = n + 1 BY <1>1
  <2> QED BY <1>2, <1>6, <2>1
<1>8. ASSUME NEW d \in Nat, d \in S PROVE d + 1 \in S
  <2> SUFFICES ASSUME d + 1 <= n PROVE f[n + 1 - (d + 1)] <=> w[n + 1 - (d + 1)]
    OBVIOUS
  <2> DEFINE k == n + 1 - (d + 1)
  <2>1. k \in 1 .. n + 1 /\ k + 1 = n + 1 - d /\ d <= n BY <1>1
  <2>2. f[k + 1] <=> w[k + 1] BY <1>8, <2>1
  <2> HIDE DEF k
  <2>3. f[k] <=> w[k] BY <1>2, <1>6, <2>1, <2>2
  <2> QED BY <2>3 DEF k
<1>9. f[1] <=> w[1]
  <2>1. n \in S
    <3> HIDE DEF S
    <3> QED BY <1>1, <1>7, <1>8, SetInduction
  <2> QED BY <1>1, <2>1
<1>10. w[1] <=> Covers(rs, cp)
  BY <1>1 DEF w, Covers
<1> QED BY <1>5, <1>9, <1>10

Meet(r, s) == r.lo <= s.hi /\ s.lo <= r.hi

\* The loop of rangesIntersect, from each pair of ranges on.
IntersectsFrom(f, a, b) ==
  f = [at \in (1 .. Len(a) + 1) \X (1 .. Len(b) + 1) |->
         /\ at[1] <= Len(a) /\ at[2] <= Len(b)
         /\ IF a[at[1]].hi < b[at[2]].lo THEN f[<<at[1] + 1, at[2]>>]
            ELSE IF b[at[2]].hi < a[at[1]].lo THEN f[<<at[1], at[2] + 1>>]
            ELSE TRUE]

\* One turn: a range that lies before the other's has met all it can.
LEMMA MeetTurn ==
  ASSUME NEW a, Ordered(a), NEW b, Ordered(b),
         NEW i \in 1 .. Len(a) + 1, NEW j \in 1 .. Len(b) + 1
  PROVE  (\E k \in i .. Len(a), l \in j .. Len(b) : Meet(a[k], b[l])) <=>
           /\ i <= Len(a) /\ j <= Len(b)
           /\ IF a[i].hi < b[j].lo
                THEN \E k \in (i + 1) .. Len(a), l \in j .. Len(b) : Meet(a[k], b[l])
              ELSE IF b[j].hi < a[i].lo
                THEN \E k \in i .. Len(a), l \in (j + 1) .. Len(b) : Meet(a[k], b[l])
              ELSE TRUE
<1> DEFINE n == Len(a)
           m == Len(b)
<1>1. /\ n \in Nat /\ m \in Nat
      /\ \A k \in 1 .. n : a[k].lo \in Int /\ a[k].hi \in Int
      /\ \A l \in 1 .. m : b[l].lo \in Int /\ b[l].hi \in Int
  BY Types DEF Ordered
<1>2. CASE ~(i <= n /\ j <= m)
  <2>1. i .. n = {} \/ j .. m = {} BY <1>1, <1>2
  <2> QED BY <1>2, <2>1
<1>3. CASE i <= n /\ j <= m
  <2>1. /\ i \in 1 .. n /\ j \in 1 .. m /\ i \in i .. n /\ j \in j .. m
        /\ i .. n = {i} \cup ((i + 1) .. n) /\ j .. m = {j} \cup ((j + 1) .. m)
    BY <1>1, <1>3
  <2>2. CASE a[i].hi < b[j].lo
    <3>1. ASSUME NEW l \in j .. m PROVE ~Meet(a[i], b[l])
      <4>1. l \in 1 .. m /\ (l = j \/ j < l) BY <2>1
      <4>2. b[j].lo <= b[j].hi /\ (j < l => b[j].hi < b[l].lo)
        BY <2>1, <4>1 DEF Ordered
      <4>3. b[j].lo <= b[l].lo
        <5>1. CASE l = j BY <1>1, <2>1, <5>1
        <5>2. CASE j < l BY <1>1, <2>1, <4>1, <4>2, <5>2
        <5> QED BY <4>1, <5>1, <5>2
      <4>4. a[i].hi \in Int /\ b[j].lo \in Int /\ b[l].lo \in Int BY <1>1, <2>1, <4>1
      <4> QED BY <2>2, <4>3, <4>4 DEF Meet
    <3> QED BY <1>3, <2>1, <2>2, <3>1
  <2>3. CASE ~(a[i].hi < b[j].lo) /\ b[j].hi < a[i].lo
    <3>1. ASSUME NEW k \in i .. n PROVE ~Meet(a[k], b[j])
      <4>1. k \in 1 .. n /\ (k = i \/ i < k) BY <2>1
      <4>2. a[i].lo <= a[i].hi /\ (i < k => a[i].hi < a[k].lo)
        BY <2>1, <4>1 DEF Ordered
      <4>3. a[i].lo <= a[k].lo
        <5>1. CASE k = i BY <1>1, <2>1, <5>1
        <5>2. CASE i < k BY <1>1, <2>1, <4>1, <4>2, <5>2
        <5> QED BY <4>1, <5>1, <5>2
      <4>4. b[j].hi \in Int /\ a[i].lo \in Int /\ a[k].lo \in Int BY <1>1, <2>1, <4>1
      <4> QED BY <2>3, <4>3, <4>4 DEF Meet
    <3> QED BY <1>3, <2>1, <2>3, <3>1
  <2>4. CASE ~(a[i].hi < b[j].lo) /\ ~(b[j].hi < a[i].lo)
    <3>1. Meet(a[i], b[j]) BY <1>1, <2>1, <2>4 DEF Meet
    <3> QED BY <1>3, <2>1, <2>4, <3>1
  <2> QED BY <2>2, <2>3, <2>4
<1> QED BY <1>2, <1>3

\* The two cursors of rangesIntersect pass over no two ranges that meet.
LEMMA MeetExact ==
  ASSUME NEW a, Ordered(a), NEW b, Ordered(b)
  PROVE  rangesIntersect(a, b) <=>
           \E k \in 1 .. Len(a), l \in 1 .. Len(b) : Meet(a[k], b[l])
<1> DEFINE n == Len(a)
           m == Len(b)
           w == [at \in (1 .. n + 1) \X (1 .. m + 1) |->
                   \E k \in at[1] .. n, l \in at[2] .. m : Meet(a[k], b[l])]
<1>1. n \in Nat /\ m \in Nat
  BY Types DEF Ordered
<1>2. ASSUME NEW i \in 1 .. n + 1, NEW j \in 1 .. m + 1
      PROVE  w[<<i, j>>] <=> /\ i <= n /\ j <= m
                         /\ IF a[i].hi < b[j].lo THEN w[<<i + 1, j>>]
                            ELSE IF b[j].hi < a[i].lo THEN w[<<i, j + 1>>]
                            ELSE TRUE
  <2>1. w[<<i, j>>] <=> \E k \in i .. n, l \in j .. m : Meet(a[k], b[l])
    OBVIOUS
  <2>2. i <= n => (w[<<i + 1, j>>] <=> \E k \in (i + 1) .. n, l \in j .. m : Meet(a[k], b[l]))
    <3> SUFFICES ASSUME i <= n PROVE w[<<i + 1, j>>] <=> \E k \in (i + 1) .. n, l \in j .. m : Meet(a[k], b[l])
      OBVIOUS
    <3>1. i + 1 \in 1 .. n + 1 BY <1>1
    <3> QED BY <3>1
  <2>3. j <= m => (w[<<i, j + 1>>] <=> \E k \in i .. n, l \in (j + 1) .. m : Meet(a[k], b[l]))
    <3> SUFFICES ASSUME j <= m PROVE w[<<i, j + 1>>] <=> \E k \in i .. n, l \in (j + 1) .. m : Meet(a[k], b[l])
      OBVIOUS
    <3>1. j + 1 \in 1 .. m + 1 BY <1>1
    <3> QED BY <3>1
  <2> HIDE DEF w
  <2> QED BY <2>1, <2>2, <2>3, MeetTurn
<1>3. IntersectsFrom(w, a, b)
  <2>1. \A i \in 1 .. n + 1, j \in 1 .. m + 1 : w[<<i, j>>] \in BOOLEAN OBVIOUS
  <2>2. \A i \in 1 .. n + 1, j \in 1 .. m + 1 :
          w[<<i, j>>] = (/\ i <= n /\ j <= m
                     /\ IF a[i].hi < b[j].lo THEN w[<<i + 1, j>>]
                        ELSE IF b[j].hi < a[i].lo THEN w[<<i, j + 1>>]
                        ELSE TRUE)
    <3> HIDE DEF w
    <3> QED BY <1>2, <2>1
  <2>3. ASSUME NEW at \in (1 .. n + 1) \X (1 .. m + 1)
        PROVE  w[at] = (/\ at[1] <= n /\ at[2] <= m
                        /\ IF a[at[1]].hi < b[at[2]].lo THEN w[<<at[1] + 1, at[2]>>]
                           ELSE IF b[at[2]].hi < a[at[1]].lo THEN w[<<at[1], at[2] + 1>>]
                           ELSE TRUE)
    <3> HIDE DEF w
    <3>1. PICK i \in 1 .. n + 1, j \in 1 .. m + 1 : at = <<i, j>> OBVIOUS
    <3>2. at[1] = i /\ at[2] = j BY <3>1
    <3>3. w[at] = w[<<i, j>>] BY <3>1
    <3> QED BY <2>2, <3>2, <3>3
  <2>4. w = [at \in (1 .. n + 1) \X (1 .. m + 1) |->
               /\ at[1] <= n /\ at[2] <= m
               /\ IF a[at[1]].hi < b[at[2]].lo THEN w[<<at[1] + 1, at[2]>>]
                  ELSE IF b[at[2]].hi < a[at[1]].lo THEN w[<<at[1], at[2] + 1>>]
                  ELSE TRUE]
    <3>1. w = [at \in (1 .. n + 1) \X (1 .. m + 1) |-> w[at]] OBVIOUS
    <3> HIDE DEF w
    <3> QED BY <2>3, <3>1, Zenon
  <2> QED BY <2>4 DEF IntersectsFrom
<1> HIDE DEF w
<1> DEFINE f == CHOOSE f : IntersectsFrom(f, a, b)
<1>4. IntersectsFrom(f, a, b) BY <1>3
<1>5. rangesIntersect(a, b) = f[<<1, 1>>] BY DEF rangesIntersect, IntersectsFrom
<1> HIDE DEF f
<1>6. \A i \in 1 .. n + 1, j \in 1 .. m + 1 :
        f[<<i, j>>] <=> /\ i <= n /\ j <= m
                    /\ IF a[i].hi < b[j].lo THEN f[<<i + 1, j>>]
                       ELSE IF b[j].hi < a[i].lo THEN f[<<i, j + 1>>]
                       ELSE TRUE
  <2> SUFFICES ASSUME NEW i \in 1 .. n + 1, NEW j \in 1 .. m + 1
               PROVE  f[<<i, j>>] <=> /\ i <= n /\ j <= m
                                      /\ IF a[i].hi < b[j].lo THEN f[<<i + 1, j>>]
                                         ELSE IF b[j].hi < a[i].lo THEN f[<<i, j + 1>>]
                                         ELSE TRUE
    OBVIOUS
  <2> DEFINE at == <<i, j>>
  <2>1. at \in (1 .. n + 1) \X (1 .. m + 1) /\ at[1] = i /\ at[2] = j OBVIOUS
  <2> HIDE DEF at
  <2>2. f[at] = (/\ at[1] <= n /\ at[2] <= m
                 /\ IF a[at[1]].hi < b[at[2]].lo THEN f[<<at[1] + 1, at[2]>>]
                    ELSE IF b[at[2]].hi < a[at[1]].lo THEN f[<<at[1], at[2] + 1>>]
                    ELSE TRUE)
    BY <1>4, <2>1 DEF IntersectsFrom
  <2>3. f[at] <=> /\ i <= n /\ j <= m
                  /\ IF a[i].hi < b[j].lo THEN f[<<i + 1, j>>]
                     ELSE IF b[j].hi < a[i].lo THEN f[<<i, j + 1>>]
                     ELSE TRUE
    BY <2>1, <2>2
  <2> QED BY <2>3 DEF at
<1> DEFINE S == {d \in Nat : \A i \in 1 .. n + 1, j \in 1 .. m + 1 :
                    (n + 1 - i) + (m + 1 - j) <= d => (f[<<i, j>>] <=> w[<<i, j>>])}
<1>7. ASSUME NEW i \in 1 .. n + 1, NEW j \in 1 .. m + 1, ~(i <= n /\ j <= m)
      PROVE  f[<<i, j>>] <=> w[<<i, j>>]
  BY <1>2, <1>6, <1>7
<1>8. 0 \in S
  <2> SUFFICES ASSUME NEW i \in 1 .. n + 1, NEW j \in 1 .. m + 1, (n + 1 - i) + (m + 1 - j) <= 0
               PROVE  f[<<i, j>>] <=> w[<<i, j>>]
    OBVIOUS
  <2>1. ~(i <= n /\ j <= m) BY <1>1
  <2> QED BY <1>7, <2>1
<1>9. ASSUME NEW d \in Nat, d \in S PROVE d + 1 \in S
  <2> SUFFICES ASSUME NEW i \in 1 .. n + 1, NEW j \in 1 .. m + 1,
                      (n + 1 - i) + (m + 1 - j) <= d + 1, i <= n, j <= m
               PROVE  f[<<i, j>>] <=> w[<<i, j>>]
    BY <1>7
  <2>1. /\ i + 1 \in 1 .. n + 1 /\ j + 1 \in 1 .. m + 1
        /\ (n + 1 - (i + 1)) + (m + 1 - j) <= d /\ (n + 1 - i) + (m + 1 - (j + 1)) <= d
    BY <1>1
  <2>2. (f[<<i + 1, j>>] <=> w[<<i + 1, j>>]) /\ (f[<<i, j + 1>>] <=> w[<<i, j + 1>>])
    BY <1>9, <2>1
  <2> QED BY <1>2, <1>6, <2>2
<1>10. f[<<1, 1>>] <=> w[<<1, 1>>]
  <2>1. n + m \in Nat /\ 1 \in 1 .. n + 1 /\ 1 \in 1 .. m + 1
        /\ (n + 1 - 1) + (m + 1 - 1) <= n + m BY <1>1
  <2>2. n + m \in S
    <3> HIDE DEF S
    <3> QED BY <1>8, <1>9, <2>1, SetInduction
  <2> QED BY <2>1, <2>2
<1>11. w[<<1, 1>>] <=> \E k \in 1 .. n, l \in 1 .. m : Meet(a[k], b[l])
  <2>1. 1 \in 1 .. n + 1 /\ 1 \in 1 .. m + 1 BY <1>1
  <2> QED BY <2>1 DEF w
<1> QED BY <1>5, <1>10, <1>11

\* Two lists intersect exactly where one of their ranges begins.
LEMMA IntersectsExact ==
  ASSUME NEW a, Ordered(a), NEW b, Ordered(b)
  PROVE  /\ rangesIntersect(a, b) =>
              \E c \in {a[k].lo : k \in 1 .. Len(a)} \cup {b[l].lo : l \in 1 .. Len(b)} :
                Covers(a, c) /\ Covers(b, c)
         /\ (\E c \in Int : Covers(a, c) /\ Covers(b, c)) => rangesIntersect(a, b)
<1>1. /\ \A k \in 1 .. Len(a) : a[k].lo \in Int /\ a[k].hi \in Int /\ a[k].lo <= a[k].hi
      /\ \A l \in 1 .. Len(b) : b[l].lo \in Int /\ b[l].hi \in Int /\ b[l].lo <= b[l].hi
  BY Types DEF Ordered
<1>2. ASSUME rangesIntersect(a, b)
      PROVE  \E c \in {a[k].lo : k \in 1 .. Len(a)} \cup {b[l].lo : l \in 1 .. Len(b)} :
               Covers(a, c) /\ Covers(b, c)
  <2>1. PICK k \in 1 .. Len(a), l \in 1 .. Len(b) : Meet(a[k], b[l])
    BY <1>2, MeetExact
  <2>2. CASE a[k].lo <= b[l].lo
    <3>1. In(a[k], b[l].lo) /\ In(b[l], b[l].lo) BY <1>1, <2>1, <2>2 DEF In, Meet
    <3> QED BY <3>1 DEF Covers
  <2>3. CASE b[l].lo <= a[k].lo
    <3>1. In(a[k], a[k].lo) /\ In(b[l], a[k].lo) BY <1>1, <2>1, <2>3 DEF In, Meet
    <3> QED BY <3>1 DEF Covers
  <2> QED BY <1>1, <2>2, <2>3
<1>3. ASSUME NEW c \in Int, Covers(a, c), Covers(b, c) PROVE rangesIntersect(a, b)
  <2>1. PICK k \in 1 .. Len(a) : In(a[k], c) BY <1>3 DEF Covers
  <2>2. PICK l \in 1 .. Len(b) : In(b[l], c) BY <1>3 DEF Covers
  <2>3. Meet(a[k], b[l]) BY <1>1, <2>1, <2>2 DEF In, Meet
  <2> QED BY <2>3, MeetExact
<1> QED BY <1>2, <1>3

-----------------------------------------------------------------------------
(* A loop over the elements 1 to n of a sequence is a function of how many *)
(* it has taken, and there is one.                                         *)

Steps(step, n, D) == step \in [1 .. n -> [D -> D]]
Iteration(f, step, n, D, base) ==
  /\ f \in [0 .. n -> D] /\ f[0] = base
  /\ \A k \in 1 .. n : f[k] = step[k][f[k - 1]]

\* As many turns as there are elements can be taken.
LEMMA Iterates ==
  ASSUME NEW D, NEW n \in Nat, NEW base \in D, NEW step, Steps(step, n, D)
  PROVE  \E f : Iteration(f, step, n, D, base)
<1>0. step \in [1 .. n -> [D -> D]] BY DEF Steps
<1> DEFINE Runs(m, f) == f[0] = base /\ \A k \in 1 .. m : f[k] = step[k][f[k - 1]]
           S == {m \in Nat : m <= n => \E f \in [0 .. m -> D] : Runs(m, f)}
<1>1. 0 \in S
  <2> DEFINE f == [k \in 0 .. 0 |-> base]
  <2>1. f \in [0 .. 0 -> D] /\ Runs(0, f) OBVIOUS
  <2> QED BY <2>1
<1>2. ASSUME NEW m \in Nat, m \in S PROVE m + 1 \in S
  <2> SUFFICES ASSUME m + 1 <= n PROVE \E f \in [0 .. m + 1 -> D] : Runs(m + 1, f)
    OBVIOUS
  <2>1. PICK f \in [0 .. m -> D] : Runs(m, f) BY <1>2
  <2> DEFINE g == [k \in 0 .. m + 1 |-> IF k <= m THEN f[k] ELSE step[m + 1][f[m]]]
  <2>2. /\ \A k \in 0 .. m : g[k] = f[k]
        /\ g[m + 1] = step[m + 1][f[m]]
    <3>1. m + 1 \in 0 .. m + 1 /\ ~(m + 1 <= m) /\ \A k \in 0 .. m : k \in 0 .. m + 1 /\ k <= m
      OBVIOUS
    <3> QED BY <3>1
  <2>3. step[m + 1][f[m]] \in D
    <3>1. f[m] \in D /\ m + 1 \in 1 .. n BY <1>2
    <3> QED BY <1>0, <3>1
  <2>4. g \in [0 .. m + 1 -> D]
    BY <2>3
  <2> HIDE DEF g
  <2>5. ASSUME NEW k \in 1 .. m + 1 PROVE g[k] = step[k][g[k - 1]]
    <3>1. CASE k = m + 1
      <4>1. k - 1 = m /\ m \in 0 .. m BY <1>2, <3>1
      <4> QED BY <2>2, <3>1, <4>1
    <3>2. CASE k \in 1 .. m
      <4>1. k \in 0 .. m /\ k - 1 \in 0 .. m BY <1>2, <3>2
      <4> QED BY <2>1, <2>2, <3>2, <4>1
    <3> QED BY <3>1, <3>2
  <2>6. g[0] = base BY <1>2, <2>1, <2>2
  <2> QED BY <2>4, <2>5, <2>6
<1>3. n \in S
  <2> HIDE DEF S
  <2> QED BY <1>1, <1>2, SetInduction
<1> QED BY <1>3 DEF Iteration

-----------------------------------------------------------------------------
(* Sorting.                                                                *)

Has(rs, r) == \E k \in 1 .. Len(rs) : rs[k] = r
Upwards(rs) == \A i, j \in 1 .. Len(rs) : i < j => rs[i].lo <= rs[j].lo
Ups == {rs \in Seq(Spans) : Upwards(rs)}

\* There is a place for r.
LEMMA PlaceFound ==
  ASSUME NEW out \in Ups, NEW r \in Spans
  PROVE  \E k \in 0 .. Len(out) : \A i \in DOMAIN out : i <= k <=> out[i].lo <= r.lo
<1> DEFINE n == Len(out)
           S == {d \in Nat : d <= n => \E k \in 0 .. d : \A i \in 1 .. d : i <= k <=> out[i].lo <= r.lo}
<1>1. n \in Nat /\ DOMAIN out = 1 .. n /\ r.lo \in Int /\ \A k \in 1 .. n : out[k].lo \in Int
  BY Types DEF Ups, Spans
<1>2. 0 \in S OBVIOUS
<1>3. ASSUME NEW d \in Nat, d \in S PROVE d + 1 \in S
  <2> SUFFICES ASSUME d + 1 <= n
               PROVE  \E k \in 0 .. d + 1 : \A i \in 1 .. d + 1 : i <= k <=> out[i].lo <= r.lo
    OBVIOUS
  <2>1. PICK k \in 0 .. d : \A i \in 1 .. d : i <= k <=> out[i].lo <= r.lo
    BY <1>1, <1>3
  <2>2. CASE out[d + 1].lo <= r.lo
    <3>1. ASSUME NEW i \in 1 .. d + 1 PROVE out[i].lo <= r.lo
      <4>1. CASE i = d + 1 BY <2>2, <4>1
      <4>2. CASE i < d + 1
        <5>1. i \in 1 .. n /\ d + 1 \in 1 .. n BY <1>1, <1>3
        <5>2. out[i].lo <= out[d + 1].lo BY <4>2, <5>1 DEF Ups, Upwards
        <5>3. out[i].lo \in Int /\ out[d + 1].lo \in Int BY <1>1, <5>1
        <5> QED BY <1>1, <2>2, <5>2, <5>3
      <4> QED BY <1>3, <4>1, <4>2
    <3>2. d + 1 \in 0 .. d + 1 /\ \A i \in 1 .. d + 1 : i <= d + 1 BY <1>3
    <3> QED BY <3>1, <3>2
  <2>3. CASE ~(out[d + 1].lo <= r.lo)
    <3>1. k \in 0 .. d + 1 /\ ~(d + 1 <= k) BY <1>3
    <3>2. \A i \in 1 .. d + 1 : i \in 1 .. d \/ i = d + 1 BY <1>3
    <3> QED BY <2>1, <2>3, <3>1, <3>2
  <2> QED BY <2>2, <2>3
<1>4. n \in S
  <2> HIDE DEF S
  <2> QED BY <1>1, <1>2, <1>3, SetInduction
<1> QED BY <1>1, <1>4

\* It goes in there, and nothing else changes.
LEMMA Placed ==
  ASSUME NEW out \in Ups, NEW r \in Spans
  PROVE  /\ Place(out, r) \in Ups
         /\ \A x : Has(Place(out, r), x) <=> x = r \/ Has(out, x)
<1> DEFINE n == Len(out)
           k == CHOOSE p \in 0 .. n : \A i \in DOMAIN out : i <= p <=> out[i].lo <= r.lo
           t == Place(out, r)
<1>1. /\ n \in Nat /\ DOMAIN out = 1 .. n /\ r.lo \in Int /\ out \in Seq(Spans)
      /\ \A i \in 1 .. n : out[i] \in Spans /\ out[i].lo \in Int
  BY Types DEF Ups, Spans
<1>2. k \in 0 .. n /\ \A i \in 1 .. n : i <= k <=> out[i].lo <= r.lo
  BY <1>1, PlaceFound
<1>3. t = SubSeq(out, 1, k) \o <<r>> \o SubSeq(out, k + 1, n)
  <2>1. (k + 1) - 1 = k BY <1>1, <1>2
  <2>2. t = InsertAt(out, k + 1, r) BY DEF Place
  <2> HIDE DEF k, t
  <2> QED BY <2>1, <2>2 DEF InsertAt
<1> HIDE DEF k, t
<1>4. /\ SubSeq(out, 1, k) \in Seq(Spans) /\ Len(SubSeq(out, 1, k)) = k
      /\ \A i \in 1 .. k : SubSeq(out, 1, k)[i] = out[i]
  <2>1. \A i \in 1 .. k : out[i] \in Spans BY <1>1, <1>2
  <2>2. Len(SubSeq(out, 1, k)) = (IF 1 <= k THEN k - 1 + 1 ELSE 0)
        /\ SubSeq(out, 1, k) \in Seq(Spans)
        /\ \A i \in 1 .. k - 1 + 1 : SubSeq(out, 1, k)[i] = out[1 + i - 1]
    BY <1>1, <1>2, <2>1, SubSeqProperties
  <2>3. k - 1 + 1 = k /\ \A i \in 1 .. k : 1 + i - 1 = i BY <1>2
  <2> QED BY <1>1, <1>2, <2>2, <2>3
<1>5. /\ SubSeq(out, k + 1, n) \in Seq(Spans) /\ Len(SubSeq(out, k + 1, n)) = n - k
      /\ \A i \in 1 .. n - k : SubSeq(out, k + 1, n)[i] = out[k + i]
  <2>1. \A i \in k + 1 .. n : out[i] \in Spans BY <1>1, <1>2
  <2>2. Len(SubSeq(out, k + 1, n)) = (IF k + 1 <= n THEN n - (k + 1) + 1 ELSE 0)
        /\ SubSeq(out, k + 1, n) \in Seq(Spans)
        /\ \A i \in 1 .. n - (k + 1) + 1 : SubSeq(out, k + 1, n)[i] = out[(k + 1) + i - 1]
    BY <1>1, <1>2, <2>1, SubSeqProperties
  <2>3. n - (k + 1) + 1 = n - k /\ \A i \in 1 .. n - k : (k + 1) + i - 1 = k + i BY <1>1, <1>2
  <2>4. (IF k + 1 <= n THEN n - (k + 1) + 1 ELSE 0) = n - k
    <3>1. CASE k + 1 <= n BY <2>3, <3>1
    <3>2. CASE ~(k + 1 <= n)
      <4>1. n \in Nat /\ k \in 0 .. n BY <1>1, <1>2
      <4> HIDE DEF n
      <4>2. k = n BY <3>2, <4>1
      <4> QED BY <3>2, <4>1, <4>2
    <3> QED BY <3>1, <3>2
  <2>5. \A i \in 1 .. n - k : SubSeq(out, k + 1, n)[i] = out[k + i]
    BY <2>2, <2>3
  <2> QED BY <2>2, <2>4, <2>5
<1>6. /\ t \in Seq(Spans) /\ Len(t) = n + 1 /\ t[k + 1] = r
      /\ \A i \in 1 .. k : t[i] = out[i]
      /\ \A i \in k + 1 .. n : t[i + 1] = out[i]
  <2> DEFINE a == SubSeq(out, 1, k)
             b == SubSeq(out, k + 1, n)
  <2>1. <<r>> \in Seq(Spans) /\ Len(<<r>>) = 1 /\ <<r>>[1] = r OBVIOUS
  <2> HIDE DEF a, b
  <2>2. a \o <<r>> \in Seq(Spans) /\ Len(a \o <<r>>) = k + 1
        /\ (a \o <<r>>)[k + 1] = r /\ \A i \in 1 .. k : (a \o <<r>>)[i] = out[i]
    BY <1>2, <1>4, <2>1, ConcatProperties DEF a
  <2>3. /\ t = (a \o <<r>>) \o b
        /\ t \in Seq(Spans) /\ Len(t) = k + 1 + (n - k)
        /\ \A i \in 1 .. k + 1 + (n - k) :
             t[i] = IF i <= k + 1 THEN (a \o <<r>>)[i] ELSE b[i - (k + 1)]
    <3> DEFINE c == a \o <<r>>
    <3>1. b \in Seq(Spans) /\ Len(b) = n - k BY <1>5 DEF b
    <3>2. t = c \o b BY <1>3 DEF a, b
    <3>3. c \in Seq(Spans) /\ Len(c) = k + 1 BY <2>2
    <3> HIDE DEF c
    <3>4. t \in Seq(Spans) /\ Len(t) = Len(c) + Len(b)
          /\ \A i \in 1 .. Len(c) + Len(b) : t[i] = IF i <= Len(c) THEN c[i] ELSE b[i - Len(c)]
      BY <3>1, <3>2, <3>3, ConcatProperties
    <3>5. Len(c) + Len(b) = k + 1 + (n - k) BY <3>1, <3>3
    <3> QED BY <3>2, <3>3, <3>4, <3>5 DEF c
  <2>4. ASSUME NEW i \in k + 1 .. n PROVE t[i + 1] = out[i]
    <3>1. i + 1 \in 1 .. k + 1 + (n - k) /\ ~(i + 1 <= k + 1) /\ (i + 1) - (k + 1) = i - k
          /\ i - k \in 1 .. n - k /\ k + (i - k) = i
      BY <1>1, <1>2
    <3> QED BY <1>5, <2>3, <3>1 DEF b
  <2>5. k + 1 + (n - k) = n + 1 /\ k + 1 \in 1 .. n + 1 /\ \A i \in 1 .. k : i \in 1 .. n + 1 /\ i <= k + 1
    BY <1>1, <1>2
  <2> QED BY <2>2, <2>3, <2>4, <2>5
<1>7. Upwards(t)
  <2> SUFFICES ASSUME NEW i \in 1 .. n + 1, NEW j \in 1 .. n + 1, i < j PROVE t[i].lo <= t[j].lo
    BY <1>6 DEF Upwards
  <2>1. \A p, q \in 1 .. n : p < q => out[p].lo <= out[q].lo BY DEF Ups, Upwards
  <2>2. CASE i <= k
    <3>1. i \in 1 .. k /\ i \in 1 .. n /\ t[i] = out[i] /\ out[i].lo <= r.lo BY <1>1, <1>2, <1>6, <2>2
    <3>2. CASE j <= k
      <4>1. j \in 1 .. k /\ j \in 1 .. n BY <1>1, <1>2, <3>2
      <4> QED BY <1>6, <2>1, <3>1, <4>1
    <3>3. CASE j = k + 1 BY <1>6, <3>1, <3>3
    <3>4. CASE j > k + 1
      <4>1. j - 1 \in k + 1 .. n /\ (j - 1) + 1 = j /\ j - 1 \in 1 .. n /\ i < j - 1 BY <1>1, <1>2, <2>2, <3>4
      <4>2. t[j] = out[j - 1] BY <1>6, <4>1
      <4> QED BY <2>1, <3>1, <4>1, <4>2
    <3> QED BY <1>2, <3>2, <3>3, <3>4
  <2>3. CASE i = k + 1
    <3>1. j - 1 \in k + 1 .. n /\ (j - 1) + 1 = j /\ j - 1 \in 1 .. n /\ ~(j - 1 <= k) BY <1>1, <1>2, <2>3
    <3>2. t[j] = out[j - 1] /\ t[i] = r /\ ~(out[j - 1].lo <= r.lo) /\ out[j - 1].lo \in Int
      BY <1>1, <1>2, <1>6, <2>3, <3>1
    <3> QED BY <1>1, <3>2
  <2>4. CASE i > k + 1
    <3>1. /\ i - 1 \in k + 1 .. n /\ (i - 1) + 1 = i /\ i - 1 \in 1 .. n
          /\ j - 1 \in k + 1 .. n /\ (j - 1) + 1 = j /\ j - 1 \in 1 .. n /\ i - 1 < j - 1
      BY <1>1, <1>2, <2>4
    <3>2. t[i] = out[i - 1] /\ t[j] = out[j - 1] BY <1>6, <3>1
    <3> QED BY <2>1, <3>1, <3>2
  <2> QED BY <1>2, <2>2, <2>3, <2>4
<1>8. ASSUME NEW x PROVE Has(t, x) <=> x = r \/ Has(out, x)
  <2>1. ASSUME NEW i \in 1 .. n + 1 PROVE t[i] = r \/ Has(out, t[i])
    <3>1. CASE i <= k
      <4>1. i \in 1 .. k /\ i \in 1 .. n BY <1>1, <1>2, <3>1
      <4> QED BY <1>6, <4>1 DEF Has
    <3>2. CASE i = k + 1 BY <1>6, <3>2
    <3>3. CASE i > k + 1
      <4>1. i - 1 \in k + 1 .. n /\ (i - 1) + 1 = i /\ i - 1 \in 1 .. n BY <1>1, <1>2, <3>3
      <4> QED BY <1>6, <4>1 DEF Has
    <3> QED BY <1>2, <3>1, <3>2, <3>3
  <2>2. ASSUME NEW i \in 1 .. n PROVE Has(t, out[i])
    <3>1. CASE i <= k
      <4>1. i \in 1 .. k /\ i \in 1 .. n + 1 BY <1>1, <1>2, <3>1
      <4> QED BY <1>6, <4>1 DEF Has
    <3>2. CASE i > k
      <4>1. i \in k + 1 .. n /\ i + 1 \in 1 .. n + 1 BY <1>1, <1>2, <3>2
      <4> QED BY <1>6, <4>1 DEF Has
    <3> QED BY <1>2, <3>1, <3>2
  <2>3. Has(t, r)
    <3>1. k + 1 \in 1 .. n + 1 BY <1>1, <1>2
    <3> QED BY <1>6, <3>1 DEF Has
  <2> QED BY <1>6, <2>1, <2>2, <2>3 DEF Has
<1> QED BY <1>6, <1>7, <1>8 DEF Ups, t

\* What the whole sort does.
LEMMA StartsExact ==
  ASSUME NEW rs \in Seq(Spans)
  PROVE  /\ ByStart(rs) \in Ups
         /\ \A x : Has(ByStart(rs), x) <=> Has(rs, x)
<1> DEFINE n == Len(rs)
           Sorts(f) == f = [k \in 0 .. n |-> IF k = 0 THEN << >> ELSE Place(f[k - 1], rs[k])]
           step == [k \in 1 .. n |-> [x \in Ups |-> Place(x, rs[k])]]
<1>1. n \in Nat /\ \A k \in 1 .. n : rs[k] \in Spans
  BY Types
<1>2. << >> \in Ups /\ Len(<< >>) = 0
  <2>1. << >> \in Seq(Spans) /\ Len(<< >>) = 0 BY EmptySeq
  <2> QED BY <2>1 DEF Ups, Upwards
<1>3. Steps(step, n, Ups)
  BY <1>1, Placed DEF Steps
<1>4. PICK f \in [0 .. n -> Ups] :
        f[0] = << >> /\ \A k \in 1 .. n : f[k] = step[k][f[k - 1]]
  <2>1. n \in Nat BY <1>1
  <2> HIDE DEF step, n
  <2>2. \E f : Iteration(f, step, n, Ups, << >>)
    BY <1>2, <1>3, <2>1, Iterates
  <2> QED BY <2>2 DEF Iteration
<1>5. Sorts(f)
  <2>1. ASSUME NEW k \in 1 .. n PROVE f[k] = Place(f[k - 1], rs[k])
    <3>1. k - 1 \in 0 .. n BY <1>1
    <3>2. f[k - 1] \in Ups BY <3>1
    <3>3. step[k][f[k - 1]] = Place(f[k - 1], rs[k]) BY <3>2
    <3> HIDE DEF step
    <3> QED BY <1>4, <3>3
  <2>2. \A k \in 0 .. n : f[k] = IF k = 0 THEN << >> ELSE Place(f[k - 1], rs[k])
    <3>1. \A k \in 0 .. n : k = 0 \/ k \in 1 .. n BY <1>1
    <3> HIDE DEF step
    <3> QED BY <1>4, <2>1, <3>1
  <2> QED BY <2>2
<1> HIDE DEF step
<1> DEFINE g == CHOOSE g : Sorts(g)
<1>6. Sorts(g) BY <1>5
<1>7. ByStart(rs) = g[n] BY DEF ByStart
<1> HIDE DEF g
<1>8. g[0] = << >> /\ \A k \in 1 .. n : g[k] = Place(g[k - 1], rs[k])
  BY <1>1, <1>6
<1> DEFINE S == {k \in Nat : k <= n => /\ g[k] \in Ups
                                       /\ \A x : Has(g[k], x) <=> \E i \in 1 .. k : rs[i] = x}
<1>9. 0 \in S
  BY <1>2, <1>8 DEF Has
<1>10. ASSUME NEW k \in Nat, k \in S PROVE k + 1 \in S
  <2> SUFFICES ASSUME k + 1 <= n
               PROVE  /\ g[k + 1] \in Ups
                      /\ \A x : Has(g[k + 1], x) <=> \E i \in 1 .. k + 1 : rs[i] = x
    OBVIOUS
  <2>1. g[k] \in Ups /\ \A x : Has(g[k], x) <=> \E i \in 1 .. k : rs[i] = x
    BY <1>1, <1>10
  <2>2. k + 1 \in 1 .. n /\ (k + 1) - 1 = k /\ rs[k + 1] \in Spans BY <1>1, <1>10
  <2>3. g[k + 1] = Place(g[k], rs[k + 1]) BY <1>8, <2>2
  <2>4. \A x : (\E i \in 1 .. k + 1 : rs[i] = x) <=> x = rs[k + 1] \/ \E i \in 1 .. k : rs[i] = x
    <3>1. 1 .. k + 1 = (1 .. k) \cup {k + 1} BY <1>10
    <3> QED BY <3>1
  <2> QED BY <2>1, <2>2, <2>3, <2>4, Placed
<1>11. n \in S
  <2> HIDE DEF S
  <2> QED BY <1>1, <1>9, <1>10, SetInduction
<1>12. g[n] \in Ups /\ \A x : Has(g[n], x) <=> \E i \in 1 .. n : rs[i] = x
  BY <1>11
<1> QED BY <1>7, <1>12 DEF Has

-----------------------------------------------------------------------------
(* Merging.                                                                *)

\* One range more: the list stays in order, covers that range as well, and begins
\* and ends no range where none began or ended.
Takes(t, out, r) ==
  /\ Ordered(t)
  /\ \A c \in Int : Covers(t, c) <=> Covers(out, c) \/ In(r, c)
  /\ \A i \in 1 .. Len(t) :
       /\ t[i].lo <= r.lo
       /\ t[i].lo = r.lo \/ \E j \in 1 .. Len(out) : t[i].lo = out[j].lo
       /\ t[i].hi = r.hi \/ \E j \in 1 .. Len(out) : t[i].hi = out[j].hi

\* The turn of normalizeRanges that merges.
LEMMA Absorbed ==
  ASSUME NEW out, Ordered(out), NEW r \in Spans, r.lo <= r.hi,
         \A i \in 1 .. Len(out) : out[i].lo <= r.lo
  PROVE  Takes(Absorb(out, r), out, r)
<1> DEFINE n == Len(out)
           t == Absorb(out, r)
<1>1. /\ n \in Nat /\ r.lo \in Int /\ r.hi \in Int /\ out \in Seq(Spans) /\ DOMAIN out = 1 .. n
      /\ \A i \in 1 .. n : out[i] \in Spans /\ out[i].lo \in Int /\ out[i].hi \in Int
  BY Types DEF Ordered, Spans
<1>2. out # << >> <=> n > 0
  BY <1>1, EmptySeq
<1>3. CASE out # << >> /\ r.lo <= Last(out).hi + 1
  <2> DEFINE hi == IF r.hi > out[n].hi THEN r.hi ELSE out[n].hi
             last == [out[n] EXCEPT !.hi = hi]
  <2>1. n \in 1 .. n /\ Last(out) = out[n] BY <1>1, <1>2, <1>3 DEF Last
  <2>2. /\ last \in Spans /\ last.lo = out[n].lo /\ last.hi = hi
        /\ hi \in Int /\ r.hi <= hi /\ out[n].hi <= hi /\ (hi = r.hi \/ hi = out[n].hi)
    <3>1. out[n].hi \in Int /\ r.hi \in Int /\ out[n] \in Spans BY <1>1, <2>1
    <3>2. hi \in Int /\ r.hi <= hi /\ out[n].hi <= hi /\ (hi = r.hi \/ hi = out[n].hi) BY <3>1
    <3> HIDE DEF hi
    <3>3. last \in Spans /\ last.lo = out[n].lo /\ last.hi = hi BY <3>1, <3>2 DEF Spans
    <3> QED BY <3>2, <3>3
  <2>3. t = [out EXCEPT ![n] = last]
    BY <1>3, <2>1 DEF Absorb
  <2> HIDE DEF hi, last, t
  <2>4. /\ t \in Seq(Spans) /\ Len(t) = n /\ t[n] = last
        /\ \A i \in 1 .. n : i # n => t[i] = out[i]
    BY <1>1, <2>1, <2>2, <2>3, ExceptSeq
  <2>5. /\ \A i \in 1 .. n : out[i].lo <= out[i].hi /\ out[i].lo <= r.lo
        /\ \A i, j \in 1 .. n : i < j => out[i].hi < out[j].lo
    BY DEF Ordered
  <2>6. \A i \in 1 .. n : t[i].lo = out[i].lo /\ (i # n => t[i].hi = out[i].hi)
    BY <2>2, <2>4
  <2>7. Ordered(t)
    <3>1. ASSUME NEW i \in 1 .. n PROVE t[i].lo <= t[i].hi
      <4>1. CASE i # n BY <2>5, <2>6, <4>1
      <4>2. CASE i = n
        <5>1. out[n].lo \in Int /\ out[n].hi \in Int /\ out[n].lo <= out[n].hi BY <1>1, <2>1, <2>5
        <5> QED BY <2>2, <2>4, <4>2, <5>1
      <4> QED BY <4>1, <4>2
    <3>2. ASSUME NEW i \in 1 .. n, NEW j \in 1 .. n, i < j PROVE t[i].hi < t[j].lo
      <4>1. n \in Nat BY <1>1
      <4>2. i # n BY <3>2, <4>1
      <4> QED BY <2>5, <2>6, <3>2, <4>2
    <3> QED BY <2>4, <3>1, <3>2 DEF Ordered
  <2>8. ASSUME NEW c \in Int PROVE Covers(t, c) <=> Covers(out, c) \/ In(r, c)
    <3>1. In(t[n], c) <=> In(out[n], c) \/ In(r, c)
      <4>1. out[n].lo \in Int /\ out[n].hi \in Int /\ out[n].lo <= out[n].hi /\ out[n].lo <= r.lo
            /\ r.lo <= out[n].hi + 1
        BY <1>1, <1>3, <2>1, <2>5
      <4>2. r.lo \in Int /\ r.hi \in Int /\ hi \in Int /\ (hi = r.hi \/ hi = out[n].hi)
            /\ r.hi <= hi /\ out[n].hi <= hi
        BY <1>1, <2>2
      <4>3. t[n].lo = out[n].lo /\ t[n].hi = hi BY <2>2, <2>4
      <4> QED BY <4>1, <4>2, <4>3 DEF In
    <3>2. \A i \in 1 .. n : i # n => (In(t[i], c) <=> In(out[i], c))
      BY <2>4
    <3> QED BY <2>1, <2>4, <3>1, <3>2 DEF Covers
  <2>9. \A i \in 1 .. n : /\ t[i].lo <= r.lo
                          /\ t[i].lo = out[i].lo
                          /\ t[i].hi = r.hi \/ t[i].hi = out[i].hi
    BY <2>2, <2>4, <2>5, <2>6
  <2>10. Takes(t, out, r) BY <2>4, <2>7, <2>8, <2>9 DEF Takes
  <2> QED BY <2>10 DEF t
<1>4. CASE ~(out # << >> /\ r.lo <= Last(out).hi + 1)
  <2>1. t = Append(out, r) BY <1>4 DEF Absorb
  <2> HIDE DEF t
  <2>2. /\ t \in Seq(Spans) /\ Len(t) = n + 1 /\ t[n + 1] = r
        /\ \A i \in 1 .. n : t[i] = out[i]
    BY <1>1, <2>1, AppendProperties
  <2>3. /\ \A i \in 1 .. n : out[i].lo <= out[i].hi /\ out[i].lo <= r.lo
        /\ \A i, j \in 1 .. n : i < j => out[i].hi < out[j].lo
    BY DEF Ordered
  <2>4. ASSUME NEW i \in 1 .. n PROVE out[i].hi < r.lo
    <3>1. n \in 1 .. n /\ n > 0 BY <1>1
    <3>2. out[n].hi < r.lo
      BY <1>1, <1>2, <1>4, <3>1 DEF Last
    <3>3. CASE i < n
      <4>1. out[i].hi < out[n].lo /\ out[n].lo <= out[n].hi BY <2>3, <3>1, <3>3
      <4> QED BY <1>1, <3>1, <3>2, <4>1
    <3> QED BY <1>1, <3>2, <3>3
  <2>5. Ordered(t)
    <3>1. ASSUME NEW i \in 1 .. n + 1 PROVE t[i].lo <= t[i].hi
      <4>1. i \in 1 .. n \/ i = n + 1 BY <1>1
      <4> QED BY <2>2, <2>3, <4>1
    <3>2. ASSUME NEW i \in 1 .. n + 1, NEW j \in 1 .. n + 1, i < j PROVE t[i].hi < t[j].lo
      <4>0. n \in Nat BY <1>1
      <4>1. i \in 1 .. n /\ (j \in 1 .. n \/ j = n + 1) BY <3>2, <4>0
      <4> QED BY <2>2, <2>3, <2>4, <3>2, <4>1
    <3> QED BY <2>2, <3>1, <3>2 DEF Ordered
  <2>6. ASSUME NEW c \in Int PROVE Covers(t, c) <=> Covers(out, c) \/ In(r, c)
    <3>1. 1 .. n + 1 = (1 .. n) \cup {n + 1} BY <1>1
    <3> QED BY <2>2, <3>1 DEF Covers
  <2>7. ASSUME NEW i \in 1 .. n + 1
        PROVE  /\ t[i].lo <= r.lo
               /\ t[i].lo = r.lo \/ \E j \in 1 .. n : t[i].lo = out[j].lo
               /\ t[i].hi = r.hi \/ \E j \in 1 .. n : t[i].hi = out[j].hi
    <3>1. i \in 1 .. n \/ i = n + 1 BY <1>1
    <3> QED BY <1>1, <2>2, <2>3, <3>1
  <2>8. Takes(t, out, r) BY <2>2, <2>5, <2>6, <2>7 DEF Takes
  <2> QED BY <2>8 DEF t
<1> QED BY <1>3, <1>4

\* Whatever it is given, it makes a list of ranges.
LEMMA AbsorbTypes ==
  ASSUME NEW out \in Seq(Spans), NEW r \in Spans
  PROVE  Absorb(out, r) \in Seq(Spans)
<1> DEFINE n == Len(out)
<1>1. /\ n \in Nat /\ r.hi \in Int
      /\ \A i \in 1 .. n : out[i] \in Spans /\ out[i].hi \in Int
  BY Types DEF Spans
<1>2. CASE out # << >> /\ r.lo <= Last(out).hi + 1
  <2> DEFINE hi == IF r.hi > out[n].hi THEN r.hi ELSE out[n].hi
             last == [out[n] EXCEPT !.hi = hi]
  <2>1. n \in 1 .. n
    <3>1. n # 0 BY <1>2, EmptySeq
    <3>2. n \in Nat BY <1>1
    <3> HIDE DEF n
    <3> QED BY <3>1, <3>2
  <2>2. last \in Spans
    <3>1. out[n].hi \in Int /\ r.hi \in Int /\ out[n] \in Spans BY <1>1, <2>1
    <3>2. hi \in Int BY <3>1
    <3> HIDE DEF hi
    <3> QED BY <3>1, <3>2 DEF Spans
  <2>3. Absorb(out, r) = [out EXCEPT ![n] = last]
    BY <1>2 DEF Absorb
  <2> HIDE DEF last
  <2> QED BY <2>1, <2>2, <2>3, ExceptSeq
<1>3. CASE ~(out # << >> /\ r.lo <= Last(out).hi + 1)
  <2>1. Absorb(out, r) = Append(out, r) BY <1>3 DEF Absorb
  <2> QED BY <2>1, AppendProperties
<1> QED BY <1>2, <1>3

\* t is what the first k ranges of s make.
Merged(t, s, k) ==
  /\ Ordered(t)
  /\ \A c \in Int : Covers(t, c) <=> \E i \in 1 .. k : In(s[i], c)
  /\ \A j \in 1 .. Len(t) : /\ k > 0 /\ t[j].lo <= s[k].lo
                            /\ \E i \in 1 .. k : t[j].lo = s[i].lo
                            /\ \E i \in 1 .. k : t[j].hi = s[i].hi

\* normalizeRanges: the same code points, in order.
LEMMA NormalExact ==
  ASSUME NEW rs \in Seq(Spans), \A k \in 1 .. Len(rs) : rs[k].lo <= rs[k].hi
  PROVE  LET t == normalizeRanges(rs) IN
         /\ Ordered(t)
         /\ \A c \in Int : Covers(t, c) <=> Covers(rs, c)
         /\ \A i \in 1 .. Len(t) : /\ \E k \in 1 .. Len(rs) : t[i].lo = rs[k].lo
                                   /\ \E k \in 1 .. Len(rs) : t[i].hi = rs[k].hi
<1> DEFINE s == ByStart(rs)
           n == Len(s)
           Merges(f) == f = [k \in 0 .. n |-> IF k = 0 THEN << >> ELSE Absorb(f[k - 1], s[k])]
           step == [k \in 1 .. n |-> [x \in Seq(Spans) |-> Absorb(x, s[k])]]
<1>1. s \in Seq(Spans) /\ Upwards(s) /\ \A x : Has(s, x) <=> Has(rs, x)
  BY StartsExact DEF Ups
<1>2. n \in Nat /\ \A k \in 1 .. n : s[k] \in Spans /\ s[k].lo \in Int /\ s[k].hi \in Int
  <2> HIDE DEF s
  <2> QED BY <1>1, Types
<1>3. \A k \in 1 .. n : s[k].lo <= s[k].hi
  <2> SUFFICES ASSUME NEW k \in 1 .. n PROVE s[k].lo <= s[k].hi
    OBVIOUS
  <2> HIDE DEF s
  <2>1. Has(s, s[k]) BY DEF Has
  <2> QED BY <1>1, <2>1 DEF Has
<1>4. normalizeRanges(rs) = LET g == CHOOSE g : Merges(g) IN g[n]
  BY DEF normalizeRanges
<1> HIDE DEF s
<1>5. Steps(step, n, Seq(Spans))
  BY <1>2, AbsorbTypes DEF Steps
<1>6. PICK f \in [0 .. n -> Seq(Spans)] :
        f[0] = << >> /\ \A k \in 1 .. n : f[k] = step[k][f[k - 1]]
  <2>1. n \in Nat /\ << >> \in Seq(Spans) BY <1>2, EmptySeq
  <2> HIDE DEF step, n
  <2>2. \E f : Iteration(f, step, n, Seq(Spans), << >>)
    BY <1>5, <2>1, Iterates
  <2> QED BY <2>2 DEF Iteration
<1>7. Merges(f)
  <2>1. ASSUME NEW k \in 1 .. n PROVE f[k] = Absorb(f[k - 1], s[k])
    <3>1. k - 1 \in 0 .. n BY <1>2
    <3>2. f[k - 1] \in Seq(Spans) BY <3>1
    <3>3. step[k][f[k - 1]] = Absorb(f[k - 1], s[k]) BY <3>2
    <3> HIDE DEF step
    <3> QED BY <1>6, <3>3
  <2>2. \A k \in 0 .. n : f[k] = IF k = 0 THEN << >> ELSE Absorb(f[k - 1], s[k])
    <3>1. \A k \in 0 .. n : k = 0 \/ k \in 1 .. n BY <1>2
    <3> HIDE DEF step
    <3> QED BY <1>6, <2>1, <3>1
  <2> QED BY <2>2
<1> HIDE DEF step
<1> DEFINE g == CHOOSE g : Merges(g)
<1>8. Merges(g) BY <1>7
<1>9. normalizeRanges(rs) = g[n] BY <1>4
<1> HIDE DEF g
<1>10. g[0] = << >> /\ \A k \in 1 .. n : g[k] = Absorb(g[k - 1], s[k])
  BY <1>2, <1>8
<1> DEFINE S == {k \in Nat : k <= n => Merged(g[k], s, k)}
<1>11. 0 \in S
  <2>1. g[0] \in Seq(Spans) /\ Len(g[0]) = 0 BY <1>10, EmptySeq
  <2>2. 1 .. Len(g[0]) = {} BY <2>1
  <2> QED BY <2>1, <2>2 DEF Ordered, Covers, Merged
<1>12. ASSUME NEW k \in Nat, k \in S PROVE k + 1 \in S
  <2> SUFFICES ASSUME k + 1 <= n PROVE Merged(g[k + 1], s, k + 1)
    OBVIOUS
  <2>1. Merged(g[k], s, k)
    <3>1. n \in Nat BY <1>2
    <3> HIDE DEF n
    <3> QED BY <1>12, <3>1
  <2>2. k + 1 \in 1 .. n /\ (k + 1) - 1 = k /\ k + 1 > 0
    <3>1. n \in Nat BY <1>2
    <3> HIDE DEF n
    <3> QED BY <3>1
  <2> DEFINE r == s[k + 1]
  <2>3. r \in Spans /\ r.lo <= r.hi /\ r.lo \in Int /\ g[k + 1] = Absorb(g[k], r)
    BY <1>2, <1>3, <1>10, <2>2
  <2>4. \A j \in 1 .. Len(g[k]) : g[k][j].lo <= r.lo
    <3> SUFFICES ASSUME NEW j \in 1 .. Len(g[k]) PROVE g[k][j].lo <= r.lo
      OBVIOUS
    <3>1. k > 0 /\ g[k][j].lo <= s[k].lo BY <2>1 DEF Merged
    <3>2. k \in 1 .. n /\ k < k + 1
      <4>1. n \in Nat BY <1>2
      <4> HIDE DEF n
      <4> QED BY <3>1, <4>1
    <3>3. s[k].lo <= r.lo BY <1>1, <2>2, <3>2 DEF Upwards
    <3>4. g[k][j].lo \in Int /\ s[k].lo \in Int
      BY <1>2, <2>1, <3>2, Types DEF Merged, Ordered
    <3> QED BY <2>3, <3>1, <3>3, <3>4
  <2>5. Takes(g[k + 1], g[k], r)
    <3>1. Ordered(g[k]) BY <2>1 DEF Merged
    <3> HIDE DEF r
    <3> QED BY <2>3, <2>4, <3>1, Absorbed
  <2>6. 1 .. k + 1 = (1 .. k) \cup {k + 1} BY <1>12
  <2>7. ASSUME NEW c \in Int PROVE Covers(g[k + 1], c) <=> \E i \in 1 .. k + 1 : In(s[i], c)
    BY <2>1, <2>5, <2>6 DEF Takes, Merged
  <2>8. ASSUME NEW j \in 1 .. Len(g[k + 1])
        PROVE  /\ g[k + 1][j].lo <= s[k + 1].lo
               /\ \E i \in 1 .. k + 1 : g[k + 1][j].lo = s[i].lo
               /\ \E i \in 1 .. k + 1 : g[k + 1][j].hi = s[i].hi
    <3>1. /\ g[k + 1][j].lo <= r.lo
          /\ g[k + 1][j].lo = r.lo \/ \E l \in 1 .. Len(g[k]) : g[k + 1][j].lo = g[k][l].lo
          /\ g[k + 1][j].hi = r.hi \/ \E l \in 1 .. Len(g[k]) : g[k + 1][j].hi = g[k][l].hi
      BY <2>5 DEF Takes
    <3>2. \A l \in 1 .. Len(g[k]) : /\ \E i \in 1 .. k : g[k][l].lo = s[i].lo
                                    /\ \E i \in 1 .. k : g[k][l].hi = s[i].hi
      BY <2>1 DEF Merged
    <3>3. \E i \in 1 .. k + 1 : g[k + 1][j].lo = s[i].lo BY <2>6, <3>1, <3>2
    <3>4. \E i \in 1 .. k + 1 : g[k + 1][j].hi = s[i].hi BY <2>6, <3>1, <3>2
    <3> QED BY <3>1, <3>3, <3>4
  <2> QED BY <2>2, <2>5, <2>7, <2>8 DEF Takes, Merged
<1>13. n \in S
  <2>1. n \in Nat BY <1>2
  <2> HIDE DEF S, n
  <2> QED BY <1>11, <1>12, <2>1, SetInduction
<1>14. Merged(g[n], s, n)
  <2>1. n \in Nat /\ n <= n BY <1>2
  <2> HIDE DEF n
  <2> QED BY <1>13, <2>1
<1>15. \A i \in 1 .. n : \E k \in 1 .. Len(rs) : rs[k] = s[i]
  <2> SUFFICES ASSUME NEW i \in 1 .. n PROVE \E k \in 1 .. Len(rs) : rs[k] = s[i]
    OBVIOUS
  <2>1. Has(s, s[i]) BY DEF Has
  <2> QED BY <1>1, <2>1 DEF Has
<1>16. ASSUME NEW c \in Int PROVE Covers(g[n], c) <=> Covers(rs, c)
  <2>1. (\E i \in 1 .. n : In(s[i], c)) <=> Covers(rs, c)
    <3>1. ASSUME NEW k \in 1 .. Len(rs) PROVE \E i \in 1 .. n : s[i] = rs[k]
      <4>1. Has(rs, rs[k]) BY DEF Has
      <4> QED BY <1>1, <4>1 DEF Has
    <3> QED BY <1>15, <3>1 DEF Covers
  <2> QED BY <1>14, <2>1 DEF Merged
<1>17. ASSUME NEW i \in 1 .. Len(g[n])
       PROVE  /\ \E k \in 1 .. Len(rs) : g[n][i].lo = rs[k].lo
              /\ \E k \in 1 .. Len(rs) : g[n][i].hi = rs[k].hi
  BY <1>14, <1>15 DEF Merged
<1>18. Ordered(g[n]) BY <1>14 DEF Merged
<1> QED BY <1>9, <1>16, <1>17, <1>18

-----------------------------------------------------------------------------
(* Complementing.                                                          *)

\* A gap more, that begins where it does or is none.
Joined(t, out, lo, hi) ==
  /\ Ordered(t)
  /\ \A c \in Int : Covers(t, c) <=> Covers(out, c) \/ (lo <= c /\ c <= hi)
  /\ \A i \in 1 .. Len(t) :
       t[i].hi <= hi /\ (t[i].lo = lo \/ \E j \in 1 .. Len(out) : t[i].lo = out[j].lo)

\* A gap after all the ranges is none of them, and is empty where two adjoin.
LEMMA GapJoined ==
  ASSUME NEW out, Ordered(out), NEW lo \in Int, NEW hi \in Int, lo <= hi + 1,
         \A i \in 1 .. Len(out) : out[i].hi < lo
  PROVE  Joined(out \o Gap(lo, hi), out, lo, hi)
<1> DEFINE n == Len(out)
           t == out \o Gap(lo, hi)
<1>1. /\ n \in Nat /\ out \in Seq(Spans)
      /\ \A i \in 1 .. n : out[i] \in Spans /\ out[i].lo \in Int /\ out[i].hi \in Int
  BY Types DEF Ordered
<1>2. /\ \A i \in 1 .. n : out[i].lo <= out[i].hi
      /\ \A i, j \in 1 .. n : i < j => out[i].hi < out[j].lo
  BY DEF Ordered
<1>3. CASE lo <= hi
  <2> DEFINE r == Span(lo, hi)
  <2>1. r \in Spans /\ r.lo = lo /\ r.hi = hi BY DEF Span, Spans
  <2> HIDE DEF r
  <2>2. t = Append(out, r)
    <3>1. Gap(lo, hi) = <<r>> BY <1>3 DEF Gap, r
    <3> QED BY <1>1, <2>1, <3>1, AppendIsConcat
  <2> HIDE DEF t
  <2>3. /\ t \in Seq(Spans) /\ Len(t) = n + 1 /\ t[n + 1] = r
        /\ \A i \in 1 .. n : t[i] = out[i]
    BY <1>1, <2>1, <2>2, AppendProperties
  <2>4. Ordered(t)
    <3>1. ASSUME NEW i \in 1 .. n + 1 PROVE t[i].lo <= t[i].hi
      <4>1. i \in 1 .. n \/ i = n + 1 BY <1>1
      <4> QED BY <1>2, <1>3, <2>1, <2>3, <4>1
    <3>2. ASSUME NEW i \in 1 .. n + 1, NEW j \in 1 .. n + 1, i < j PROVE t[i].hi < t[j].lo
      <4>0. n \in Nat BY <1>1
      <4>1. i \in 1 .. n /\ (j \in 1 .. n \/ j = n + 1) BY <3>2, <4>0
      <4> QED BY <1>2, <2>1, <2>3, <3>2, <4>1
    <3> QED BY <2>3, <3>1, <3>2 DEF Ordered
  <2>5. 1 .. n + 1 = (1 .. n) \cup {n + 1} BY <1>1
  <2>6. ASSUME NEW c \in Int PROVE Covers(t, c) <=> Covers(out, c) \/ (lo <= c /\ c <= hi)
    BY <2>1, <2>3, <2>5 DEF Covers, In
  <2>7. ASSUME NEW i \in 1 .. n + 1
        PROVE  t[i].hi <= hi /\ (t[i].lo = lo \/ \E j \in 1 .. n : t[i].lo = out[j].lo)
    BY <1>1, <1>3, <2>1, <2>3, <2>5
  <2>8. Joined(t, out, lo, hi) BY <2>3, <2>4, <2>6, <2>7 DEF Joined
  <2> QED BY <2>8 DEF t
<1>4. CASE ~(lo <= hi)
  <2>1. t = out
    <3>1. Gap(lo, hi) = << >> BY <1>4 DEF Gap
    <3> QED BY <1>1, <3>1, ConcatEmptySeq
  <2>2. \A i \in 1 .. n : out[i].hi <= hi BY <1>1, <1>4
  <2>3. \A c \in Int : ~(lo <= c /\ c <= hi) BY <1>4
  <2>4. Joined(out, out, lo, hi) BY <2>2, <2>3 DEF Joined
  <2> QED BY <2>1, <2>4
<1> QED BY <1>3, <1>4

\* Inside the code space.
Within(rs) == \A k \in 1 .. Len(rs) : 0 <= rs[k].lo /\ rs[k].hi <= MAX_CP

\* Where the next gap may begin.
LEMMA AfterBounds ==
  ASSUME NEW rs, Ordered(rs), Within(rs), NEW k \in 0 .. Len(rs)
  PROVE  /\ After(rs, k) \in Int /\ 0 <= After(rs, k) /\ After(rs, k) <= MAX_CP + 1
         /\ \A i \in 1 .. k : rs[i].hi < After(rs, k)
         /\ k < Len(rs) => After(rs, k) <= rs[k + 1].lo
<1> DEFINE n == Len(rs)
<1>1. n \in Nat /\ \A i \in 1 .. n : rs[i].lo \in Int /\ rs[i].hi \in Int
  BY Types DEF Ordered
<1>2. /\ \A i \in 1 .. n : rs[i].lo <= rs[i].hi /\ 0 <= rs[i].lo /\ rs[i].hi <= MAX_CP
      /\ \A i, j \in 1 .. n : i < j => rs[i].hi < rs[j].lo
  BY DEF Ordered, Within
<1> HIDE DEF n
<1>3. CASE k = 0
  <2>1. 1 .. k = {} /\ (k < n => k + 1 \in 1 .. n) BY <1>1, <1>3
  <2> QED BY <1>2, <1>3, <2>1 DEF After, MAX_CP, n
<1>4. CASE k # 0
  <2>1. k \in 1 .. n /\ (k < n => k + 1 \in 1 .. n /\ k < k + 1) BY <1>1, <1>4 DEF n
  <2>2. After(rs, k) = rs[k].hi + 1 BY <1>4 DEF After
  <2>3. ASSUME NEW i \in 1 .. k PROVE rs[i].hi < rs[k].hi + 1
    <3>1. i \in 1 .. n /\ (i < k \/ i = k) BY <1>1, <2>1
    <3>2. rs[i].hi \in Int /\ rs[k].hi \in Int /\ rs[k].lo \in Int /\ rs[k].lo <= rs[k].hi
      BY <1>1, <1>2, <2>1, <3>1
    <3>3. i < k => rs[i].hi < rs[k].lo BY <1>2, <2>1, <3>1
    <3> QED BY <3>1, <3>2, <3>3
  <2>4. rs[k].hi \in Int /\ rs[k].lo \in Int /\ 0 <= rs[k].lo /\ rs[k].lo <= rs[k].hi /\ rs[k].hi <= MAX_CP
    BY <1>1, <1>2, <2>1
  <2>5. k < n => rs[k].hi < rs[k + 1].lo /\ rs[k + 1].lo \in Int
    BY <1>1, <1>2, <2>1
  <2> QED BY <2>2, <2>3, <2>4, <2>5 DEF MAX_CP, n
<1> QED BY <1>3, <1>4

\* t is the gaps among the first k ranges of rs.
Gaps(t, rs, k) ==
  /\ Ordered(t)
  /\ \A c \in Int : Covers(t, c) <=>
       0 <= c /\ c < After(rs, k) /\ \A i \in 1 .. k : ~In(rs[i], c)
  /\ \A j \in 1 .. Len(t) :
       /\ t[j].hi < After(rs, k)
       /\ t[j].lo = 0 \/ \E i \in 1 .. k : t[j].lo = rs[i].hi + 1

\* The turn of complementRanges.
LEMMA NextGap ==
  ASSUME NEW rs, Ordered(rs), Within(rs), NEW k \in Nat, k + 1 <= Len(rs),
         NEW t, Gaps(t, rs, k)
  PROVE  Gaps(t \o Gap(After(rs, k), rs[k + 1].lo - 1), rs, k + 1)
<1> DEFINE n == Len(rs)
           lo == After(rs, k)
           hi == rs[k + 1].lo - 1
           u == t \o Gap(lo, hi)
<1>1. n \in Nat /\ \A i \in 1 .. n : rs[i].lo \in Int /\ rs[i].hi \in Int
  BY Types DEF Ordered
<1>2. k \in 0 .. n /\ k < n /\ k + 1 \in 1 .. n /\ 1 .. k + 1 = (1 .. k) \cup {k + 1}
      /\ k + 1 # 0
  <2>1. n \in Nat BY <1>1
  <2> HIDE DEF n
  <2> QED BY <2>1 DEF n
<1>3. rs[k + 1].lo \in Int /\ rs[k + 1].hi \in Int /\ hi \in Int /\ rs[k + 1].lo <= rs[k + 1].hi
  BY <1>1, <1>2 DEF Ordered
<1>4. /\ lo \in Int /\ 0 <= lo /\ lo <= rs[k + 1].lo
      /\ \A i \in 1 .. k : rs[i].hi < lo
  BY <1>2, AfterBounds
<1>5. After(rs, k + 1) = rs[k + 1].hi + 1 BY <1>2 DEF After
<1>6. k # 0 => k \in 1 .. k /\ lo = rs[k].hi + 1 BY DEF After
<1>7. k = 0 => lo = 0 BY DEF After
<1> HIDE DEF lo, n
<1>8. Ordered(t) /\ \A j \in 1 .. Len(t) : t[j].hi < lo BY DEF Gaps, lo
<1>9. Joined(u, t, lo, hi)
  <2>1. lo <= hi + 1 BY <1>3, <1>4
  <2> HIDE DEF hi
  <2> QED BY <1>3, <1>4, <1>8, <2>1, GapJoined
<1> HIDE DEF u
<1>10. ASSUME NEW c \in Int
       PROVE  Covers(u, c) <=> 0 <= c /\ c < After(rs, k + 1) /\ \A i \in 1 .. k + 1 : ~In(rs[i], c)
  <2>1. Covers(u, c) <=> Covers(t, c) \/ (lo <= c /\ c <= hi) BY <1>9 DEF Joined
  <2>2. Covers(t, c) <=> 0 <= c /\ c < lo /\ \A i \in 1 .. k : ~In(rs[i], c)
    BY DEF Gaps, lo
  <2>3. lo <= c => \A i \in 1 .. k : ~In(rs[i], c)
    <3> SUFFICES ASSUME lo <= c, NEW i \in 1 .. k PROVE ~In(rs[i], c)
      OBVIOUS
    <3>1. i \in 1 .. n BY <1>1, <1>2
    <3> QED BY <1>1, <1>4, <3>1 DEF In
  <2>4. In(rs[k + 1], c) <=> rs[k + 1].lo <= c /\ c <= rs[k + 1].hi BY DEF In
  <2>5. (\A i \in 1 .. k + 1 : ~In(rs[i], c)) <=> ~In(rs[k + 1], c) /\ \A i \in 1 .. k : ~In(rs[i], c)
    BY <1>2
  <2> QED BY <1>3, <1>4, <1>5, <2>1, <2>2, <2>3, <2>4, <2>5
<1>11. ASSUME NEW j \in 1 .. Len(u)
       PROVE  /\ u[j].hi < After(rs, k + 1)
              /\ u[j].lo = 0 \/ \E i \in 1 .. k + 1 : u[j].lo = rs[i].hi + 1
  <2>1. u[j].hi <= hi /\ (u[j].lo = lo \/ \E l \in 1 .. Len(t) : u[j].lo = t[l].lo)
    BY <1>9 DEF Joined
  <2>2. u[j].hi \in Int BY <1>9, Types DEF Joined, Ordered
  <2>3. u[j].lo = 0 \/ \E i \in 1 .. k : u[j].lo = rs[i].hi + 1
    <3>1. CASE u[j].lo = lo /\ k = 0 BY <1>7, <3>1
    <3>2. CASE u[j].lo = lo /\ k # 0 BY <1>6, <3>2
    <3>3. CASE \E l \in 1 .. Len(t) : u[j].lo = t[l].lo BY <3>3 DEF Gaps
    <3> QED BY <2>1, <3>1, <3>2, <3>3
  <2> QED BY <1>2, <1>3, <1>5, <2>1, <2>2, <2>3
<1>12. Gaps(u, rs, k + 1)
  BY <1>9, <1>10, <1>11 DEF Gaps, Joined
<1> QED BY <1>12 DEF u, lo

\* complementRanges: the code points that are in none of the ranges.
Complement(t, rs) ==
  /\ Ordered(t)
  /\ \A c \in Int : Covers(t, c) <=> c \in 0 .. MAX_CP /\ ~Covers(rs, c)
  /\ \A j \in 1 .. Len(t) : t[j].lo = 0 \/ \E i \in 1 .. Len(rs) : t[j].lo = rs[i].hi + 1

\* Whatever the bounds, a list of ranges.
LEMMA GapTypes ==
  ASSUME NEW out \in Seq(Spans), NEW lo \in Int, NEW hi \in Int
  PROVE  out \o Gap(lo, hi) \in Seq(Spans)
<1>1. Gap(lo, hi) \in Seq(Spans)
  <2>1. Span(lo, hi) \in Spans BY DEF Span, Spans
  <2> HIDE DEF Spans
  <2>2. <<Span(lo, hi)>> \in Seq(Spans) BY <2>1
  <2> QED BY <2>2, EmptySeq DEF Gap
<1> QED BY <1>1, ConcatProperties

\* All the turns, and the gap to the end of the code space.
LEMMA ComplementExact ==
  ASSUME NEW rs, Ordered(rs), Within(rs)
  PROVE  Complement(complementRanges(rs), rs)
<1> DEFINE n == Len(rs)
           Collects(f) == f = [k \in 0 .. n |->
             IF k = 0 THEN << >> ELSE f[k - 1] \o Gap(After(rs, k - 1), rs[k].lo - 1)]
           step == [k \in 1 .. n |-> [x \in Seq(Spans) |-> x \o Gap(After(rs, k - 1), rs[k].lo - 1)]]
<1>1. n \in Nat /\ \A i \in 1 .. n : rs[i].lo \in Int /\ rs[i].hi \in Int
  BY Types DEF Ordered
<1>2. \A k \in 1 .. n : k - 1 \in 0 .. n /\ After(rs, k - 1) \in Int /\ rs[k].lo - 1 \in Int
  <2> SUFFICES ASSUME NEW k \in 1 .. n
               PROVE k - 1 \in 0 .. n /\ After(rs, k - 1) \in Int /\ rs[k].lo - 1 \in Int
    OBVIOUS
  <2>1. k - 1 \in 0 .. n BY <1>1
  <2> QED BY <1>1, <2>1, AfterBounds
<1>3. Steps(step, n, Seq(Spans))
  BY <1>2, GapTypes DEF Steps
<1>4. PICK f \in [0 .. n -> Seq(Spans)] :
        f[0] = << >> /\ \A k \in 1 .. n : f[k] = step[k][f[k - 1]]
  <2>1. n \in Nat /\ << >> \in Seq(Spans) BY <1>1, EmptySeq
  <2> HIDE DEF step, n
  <2>2. \E f : Iteration(f, step, n, Seq(Spans), << >>)
    BY <1>3, <2>1, Iterates
  <2> QED BY <2>2 DEF Iteration
<1>5. Collects(f)
  <2>1. ASSUME NEW k \in 1 .. n PROVE f[k] = f[k - 1] \o Gap(After(rs, k - 1), rs[k].lo - 1)
    <3>1. k - 1 \in 0 .. n BY <1>1
    <3>2. f[k - 1] \in Seq(Spans) BY <3>1
    <3>3. step[k][f[k - 1]] = f[k - 1] \o Gap(After(rs, k - 1), rs[k].lo - 1) BY <3>2
    <3> HIDE DEF step
    <3> QED BY <1>4, <3>3
  <2>2. \A k \in 0 .. n :
          f[k] = IF k = 0 THEN << >> ELSE f[k - 1] \o Gap(After(rs, k - 1), rs[k].lo - 1)
    <3>1. \A k \in 0 .. n : k = 0 \/ k \in 1 .. n BY <1>1
    <3> HIDE DEF step
    <3> QED BY <1>4, <2>1, <3>1
  <2> QED BY <2>2
<1> HIDE DEF step
<1> DEFINE g == CHOOSE g : Collects(g)
<1>6. Collects(g) BY <1>5
<1>7. complementRanges(rs) = g[n] \o Gap(After(rs, n), MAX_CP)
  BY DEF complementRanges
<1> HIDE DEF g
<1>8. g[0] = << >> /\ \A k \in 1 .. n : g[k] = g[k - 1] \o Gap(After(rs, k - 1), rs[k].lo - 1)
  BY <1>1, <1>6
<1> DEFINE S == {k \in Nat : k <= n => Gaps(g[k], rs, k)}
<1>9. 0 \in S
  <2>1. g[0] \in Seq(Spans) /\ Len(g[0]) = 0 BY <1>8, EmptySeq
  <2>2. 1 .. Len(g[0]) = {} /\ After(rs, 0) = 0 BY <2>1 DEF After
  <2> QED BY <2>1, <2>2 DEF Ordered, Covers, Gaps
<1>10. ASSUME NEW k \in Nat, k \in S PROVE k + 1 \in S
  <2> SUFFICES ASSUME k + 1 <= n PROVE Gaps(g[k + 1], rs, k + 1)
    OBVIOUS
  <2>1. n \in Nat BY <1>1
  <2>2. k + 1 \in 1 .. n /\ (k + 1) - 1 = k /\ k <= n
    <3> HIDE DEF n
    <3> QED BY <2>1
  <2>3. g[k + 1] = g[k] \o Gap(After(rs, k), rs[k + 1].lo - 1) BY <1>8, <2>2
  <2>4. Gaps(g[k], rs, k) BY <1>10, <2>2
  <2> QED BY <2>3, <2>4, NextGap
<1>11. Gaps(g[n], rs, n)
  <2>1. n \in Nat BY <1>1
  <2>2. n \in S
    <3> HIDE DEF S, n
    <3> QED BY <1>9, <1>10, <2>1, SetInduction
  <2> QED BY <2>1, <2>2
<1> DEFINE lo == After(rs, n)
           t == g[n] \o Gap(lo, MAX_CP)
<1>12. lo \in Int /\ 0 <= lo /\ lo <= MAX_CP + 1 /\ \A i \in 1 .. n : rs[i].hi < lo
  <2>1. n \in 0 .. n BY <1>1
  <2> QED BY <2>1, AfterBounds
<1>13. Joined(t, g[n], lo, MAX_CP)
  <2>1. MAX_CP \in Int BY DEF MAX_CP
  <2>2. Ordered(g[n]) /\ \A j \in 1 .. Len(g[n]) : g[n][j].hi < lo BY <1>11 DEF Gaps
  <2> HIDE DEF lo
  <2> QED BY <1>12, <2>1, <2>2, GapJoined
<1>14. n = 0 => lo = 0 BY DEF After
<1>15. n # 0 => n \in 1 .. n /\ lo = rs[n].hi + 1
  <2>1. n \in Nat BY <1>1
  <2>2. n # 0 => n \in 1 .. n
    <3> HIDE DEF n
    <3> QED BY <2>1
  <2> QED BY <2>2 DEF After
<1>16. ASSUME NEW c \in Int PROVE Covers(t, c) <=> c \in 0 .. MAX_CP /\ ~Covers(rs, c)
  <2>1. Covers(t, c) <=> Covers(g[n], c) \/ (lo <= c /\ c <= MAX_CP) BY <1>13 DEF Joined
  <2>2. Covers(g[n], c) <=> 0 <= c /\ c < lo /\ ~Covers(rs, c) BY <1>11 DEF Gaps, Covers
  <2>3. lo <= c => ~Covers(rs, c)
    <3> SUFFICES ASSUME lo <= c, NEW i \in 1 .. n PROVE ~In(rs[i], c)
      BY DEF Covers
    <3>1. rs[i].hi \in Int /\ rs[i].hi < lo BY <1>1, <1>12
    <3> HIDE DEF lo
    <3> QED BY <1>12, <3>1 DEF In
  <2> HIDE DEF lo, t
  <2>4. MAX_CP \in Int BY DEF MAX_CP
  <2> QED BY <1>12, <2>1, <2>2, <2>3, <2>4
<1>17. ASSUME NEW j \in 1 .. Len(t)
       PROVE  t[j].lo = 0 \/ \E i \in 1 .. n : t[j].lo = rs[i].hi + 1
  <2>1. t[j].lo = lo \/ \E l \in 1 .. Len(g[n]) : t[j].lo = g[n][l].lo
    BY <1>13 DEF Joined
  <2> QED BY <1>11, <1>14, <1>15, <2>1 DEF Gaps
<1>18. Ordered(t) BY <1>13 DEF Joined
<1>19. Complement(t, rs) BY <1>16, <1>17, <1>18 DEF Complement
<1> QED BY <1>7, <1>19

-----------------------------------------------------------------------------
(* Reading a class back.                                                   *)

Symbols == [e : STRING, c : Int]
Listable == [lo : Int, hi : Int, range : BOOLEAN]

\* Where each turn of a loop goes on, and what it takes.
Turns(member, next, n) ==
  /\ member \in [1 .. n -> Listable]
  /\ next \in [1 .. n -> 1 .. n + 1] /\ \A i \in 1 .. n : i < next[i]
Lists(f, member, next, n) ==
  f = [i \in 1 .. n + 1 |-> IF i > n THEN << >> ELSE <<member[i]>> \o f[next[i]]]

\* One member more.
LEMMA ConsTypes ==
  ASSUME NEW m \in Listable, NEW s \in Seq(Listable)
  PROVE  <<m>> \o s \in Seq(Listable)
<1> HIDE DEF Listable
<1>1. <<m>> \in Seq(Listable) OBVIOUS
<1> QED BY <1>1, ConcatProperties

\* A loop that only goes forward can be run.
LEMMA ListFound ==
  ASSUME NEW n \in Nat, NEW member, NEW next, Turns(member, next, n)
  PROVE  \E f : Lists(f, member, next, n)
<1> DEFINE D == [1 .. n + 1 -> Seq(Listable)]
           base == [i \in 1 .. n + 1 |-> << >>]
           write(k, x) == [x EXCEPT ![n + 1 - k] = <<member[n + 1 - k]>> \o x[next[n + 1 - k]]]
           step == [k \in 1 .. n |-> [x \in D |-> write(k, x)]]
<1>1. base \in D
  BY EmptySeq
<1>2. ASSUME NEW i \in 1 .. n
      PROVE  member[i] \in Listable /\ next[i] \in 1 .. n + 1 /\ i < next[i] /\ i \in 1 .. n + 1
  BY DEF Turns
<1>3. ASSUME NEW k \in 1 .. n, NEW x \in D PROVE write(k, x) \in D
  <2> DEFINE i == n + 1 - k
  <2>1. i \in 1 .. n OBVIOUS
  <2> HIDE DEF i
  <2>2. <<member[i]>> \o x[next[i]] \in Seq(Listable)
    BY <1>2, <2>1, ConsTypes
  <2>3. [x EXCEPT ![i] = <<member[i]>> \o x[next[i]]] \in D
    BY <2>2
  <2> QED BY <2>3 DEF i
<1>4. Steps(step, n, D)
  BY <1>3 DEF Steps
<1>5. PICK f \in [0 .. n -> D] : f[0] = base /\ \A k \in 1 .. n : f[k] = step[k][f[k - 1]]
  <2> HIDE DEF step, D, base
  <2>1. \E f : Iteration(f, step, n, D, base)
    BY <1>1, <1>4, Iterates
  <2> QED BY <2>1 DEF Iteration
<1>6. ASSUME NEW k \in 1 .. n PROVE f[k] = write(k, f[k - 1])
  <2>1. k - 1 \in 0 .. n OBVIOUS
  <2>2. f[k - 1] \in D
    <3> HIDE DEF D
    <3> QED BY <2>1
  <2>3. step[k][f[k - 1]] = write(k, f[k - 1])
    <3> HIDE DEF D
    <3> QED BY <2>2
  <2> HIDE DEF step
  <2> QED BY <1>5, <2>3
<1> HIDE DEF step
\* After k turns the last k places are written, and stay so.
<1> DEFINE Done(k) == /\ f[k][n + 1] = << >>
                      /\ \A i \in n + 1 - k .. n : f[k][i] = <<member[i]>> \o f[k][next[i]]
           S == {k \in Nat : k <= n => Done(k)}
<1>7. 0 \in S
  <2>1. n + 1 - 0 .. n = {} /\ n + 1 \in 1 .. n + 1 OBVIOUS
  <2> QED BY <1>5, <2>1
<1> HIDE DEF Done
<1>8. ASSUME NEW k \in Nat, k \in S PROVE k + 1 \in S
  <2> SUFFICES ASSUME k + 1 <= n PROVE Done(k + 1)
    OBVIOUS
  <2> DEFINE j == n - k
             x == f[k]
             y == f[k + 1]
  <2>1. /\ j \in 1 .. n /\ k + 1 \in 1 .. n /\ k <= n /\ k \in 0 .. n /\ (k + 1) - 1 = k
        /\ n + 1 - (k + 1) = j /\ n + 1 - k = j + 1 /\ j \in Int
    OBVIOUS
  <2>2. /\ x[n + 1] = << >>
        /\ \A i \in n + 1 - k .. n : x[i] = <<member[i]>> \o x[next[i]]
    BY <1>8, <2>1 DEF Done
  <2>3. x \in D
    <3> HIDE DEF D
    <3> QED BY <1>5, <2>1
  <2>4. y = [x EXCEPT ![j] = <<member[j]>> \o x[next[j]]]
    BY <1>6, <2>1
  <2> HIDE DEF x, y, j
  <2>5. /\ y[j] = <<member[j]>> \o x[next[j]]
        /\ \A i \in 1 .. n + 1 : i # j => y[i] = x[i]
    <3>1. j \in 1 .. n + 1 BY <2>1
    <3> QED BY <2>3, <2>4, <3>1
  <2>6. y[n + 1] = << >>
    <3>1. n + 1 \in 1 .. n + 1 /\ n + 1 # j BY <2>1
    <3> QED BY <2>2, <2>5, <3>1
  <2>7. ASSUME NEW i \in j .. n PROVE y[i] = <<member[i]>> \o y[next[i]]
    <3>1. i \in 1 .. n /\ j <= i BY <2>1
    <3>2. next[i] \in 1 .. n + 1 /\ i < next[i] BY <1>2, <3>1
    <3>3. next[i] # j BY <2>1, <3>1, <3>2
    <3>4. y[next[i]] = x[next[i]] BY <2>5, <3>2, <3>3
    <3>5. CASE i = j BY <2>5, <3>4, <3>5
    <3>6. CASE i # j
      <4>1. i \in n + 1 - k .. n BY <2>1, <3>1, <3>6
      <4>2. x[i] = <<member[i]>> \o x[next[i]] BY <2>2, <4>1
      <4>3. i \in 1 .. n + 1 BY <3>1
      <4> QED BY <2>5, <3>4, <3>6, <4>2, <4>3
    <3> QED BY <3>5, <3>6
  <2> QED BY <2>1, <2>6, <2>7 DEF y, Done
<1>9. Done(n)
  <2>1. n \in S
    <3> HIDE DEF S
    <3> QED BY <1>7, <1>8, SetInduction
  <2> QED BY <2>1
<1> DEFINE h == f[n]
<1>10. h \in D
  <2> HIDE DEF D
  <2> QED BY <1>5
<1>11. ASSUME NEW i \in 1 .. n + 1
       PROVE h[i] = IF i > n THEN << >> ELSE <<member[i]>> \o h[next[i]]
  <2>1. CASE i = n + 1 BY <1>9, <2>1 DEF Done
  <2>2. CASE i \in 1 .. n
    <3>1. i \in n + 1 - n .. n /\ ~(i > n) BY <2>2
    <3> QED BY <1>9, <3>1 DEF Done
  <2> QED BY <2>1, <2>2
<1> HIDE DEF h
<1>12. h = [i \in 1 .. n + 1 |-> IF i > n THEN << >> ELSE <<member[i]>> \o h[next[i]]]
  <2>1. h = [i \in 1 .. n + 1 |-> h[i]] BY <1>10
  <2> QED BY <1>11, <2>1, Zenon
<1> QED BY <1>12 DEF Lists

\* What any such loop lists.
LEMMA ListTypes ==
  ASSUME NEW n \in Nat, NEW member, NEW next, Turns(member, next, n),
         NEW f, Lists(f, member, next, n), NEW start \in 1 .. n + 1
  PROVE  f[start] \in Seq(Listable)
<1> DEFINE S == {d \in Nat : \A i \in 1 .. n + 1 : n + 1 - i <= d => f[i] \in Seq(Listable)}
<1>1. \A i \in 1 .. n + 1 : f[i] = IF i > n THEN << >> ELSE <<member[i]>> \o f[next[i]]
  BY DEF Lists
<1>2. f[n + 1] = << >> /\ << >> \in Seq(Listable)
  <2>1. n + 1 \in 1 .. n + 1 /\ n + 1 > n OBVIOUS
  <2>2. f[n + 1] = << >> BY <1>1, <2>1
  <2> QED BY <2>2, EmptySeq
<1>3. 0 \in S
  <2>1. \A i \in 1 .. n + 1 : n + 1 - i <= 0 => i = n + 1 OBVIOUS
  <2> QED BY <1>2, <2>1
<1>4. ASSUME NEW d \in Nat, d \in S PROVE d + 1 \in S
  <2> SUFFICES ASSUME NEW i \in 1 .. n + 1, n + 1 - i <= d + 1 PROVE f[i] \in Seq(Listable)
    OBVIOUS
  <2>1. CASE i = n + 1 BY <1>2, <2>1
  <2>2. CASE i \in 1 .. n
    <3>1. member[i] \in Listable /\ next[i] \in 1 .. n + 1 /\ i < next[i] BY <2>2 DEF Turns
    <3>2. n + 1 - next[i] <= d BY <3>1
    <3>3. f[next[i]] \in Seq(Listable) BY <1>4, <3>1, <3>2
    <3>4. f[i] = <<member[i]>> \o f[next[i]]
      <4>1. ~(i > n) BY <2>2
      <4> QED BY <1>1, <4>1
    <3> QED BY <3>1, <3>3, <3>4, ConsTypes
  <2> QED BY <2>1, <2>2
<1>5. n \in S
  <2> HIDE DEF S
  <2> QED BY <1>3, <1>4, SetInduction
<1> QED BY <1>5

\* What readEscape lists is a sequence of members.
LEMMA ListedTypes ==
  ASSUME NEW body \in Seq(Symbols)
  PROVE  MembersOf(body, readEscape) \in Seq(Listable)
<1> DEFINE n == Len(body)
           taken(i) == TakeFrom(body, readEscape(body, i), readEscape)
           member == [i \in 1 .. n |-> taken(i).member]
           next == [i \in 1 .. n |-> taken(i).next]
           start == IF Negated(body) THEN 2 ELSE 1
<1>1. n \in Nat /\ DOMAIN body = 1 .. n /\ \A i \in 1 .. n : body[i].c \in Int
  <2>1. n \in Nat /\ DOMAIN body = 1 .. n /\ \A i \in 1 .. n : body[i] \in Symbols
    BY LenProperties, ElementOfSeq
  <2> QED BY <2>1 DEF Symbols
<1>2. ASSUME NEW i \in 1 .. n
      PROVE  readEscape(body, i).cp \in Int /\ readEscape(body, i).next = i + 1
  BY <1>1 DEF readEscape, Char, NoChar
<1>3. ASSUME NEW i \in 1 .. n
      PROVE  taken(i).member \in Listable /\ taken(i).next \in 1 .. n + 1 /\ i < taken(i).next
  <2> DEFINE lo == readEscape(body, i)
             hi == readEscape(body, i + 2)
  <2>1. lo.cp \in Int /\ lo.next = i + 1 BY <1>2
  <2>2. CASE OperatorAt(body, lo.next)
    <3>1. i + 1 < n BY <2>1, <2>2 DEF OperatorAt
    <3>2. i + 2 \in 1 .. n /\ lo.next + 1 = i + 2 BY <1>1, <2>1, <3>1
    <3>3. hi.cp \in Int /\ hi.next = i + 3
      <4>1. hi.cp \in Int /\ hi.next = (i + 2) + 1 BY <1>2, <3>2
      <4> QED BY <4>1
    <3>4. taken(i) = Ranged(lo, readEscape(body, lo.next + 1)) BY <2>2 DEF TakeFrom
    <3>5. taken(i) = Ranged(lo, hi) BY <3>2, <3>4
    <3> HIDE DEF lo, hi
    <3>6. taken(i).member = Member(lo.cp, hi.cp, TRUE) /\ taken(i).next = i + 3
      BY <3>3, <3>5 DEF Ranged, Taken
    <3>7. i + 3 \in 1 .. n + 1 BY <1>1, <3>1
    <3> QED BY <2>1, <3>3, <3>6, <3>7 DEF Member, Listable
  <2>3. CASE ~OperatorAt(body, lo.next)
    <3>1. taken(i) = Taken(lo.cp, lo.cp, FALSE, lo.next) BY <2>3 DEF TakeFrom
    <3> HIDE DEF lo
    <3>2. taken(i).member = Member(lo.cp, lo.cp, FALSE) /\ taken(i).next = i + 1
      BY <2>1, <3>1 DEF Taken
    <3>3. i + 1 \in 1 .. n + 1 BY <1>1
    <3> QED BY <2>1, <3>2, <3>3 DEF Member, Listable
  <2> QED BY <2>2, <2>3
<1>4. start \in 1 .. n + 1
  BY <1>1 DEF Negated, IsRaw
<1> DEFINE Reads(f) == f = [i \in 1 .. n + 1 |->
             IF i > n THEN << >> ELSE <<taken(i).member>> \o f[taken(i).next]]
<1>5. MembersOf(body, readEscape) = LET f == CHOOSE f : Reads(f) IN f[start]
  BY DEF MembersOf, Members
<1> HIDE DEF taken, start
<1>6. Turns(member, next, n)
  BY <1>3 DEF Turns
<1>7. \A i \in 1 .. n : member[i] = taken(i).member /\ next[i] = taken(i).next
  OBVIOUS
<1> HIDE DEF member, next
<1>8. \A i \in 1 .. n + 1 : i > n \/ i \in 1 .. n
  <2>1. n \in Nat BY <1>1
  <2> HIDE DEF n
  <2> QED BY <2>1
<1>9. ASSUME NEW f PROVE Reads(f) <=> Lists(f, member, next, n)
  <2>1. \A i \in 1 .. n + 1 : (IF i > n THEN << >> ELSE <<taken(i).member>> \o f[taken(i).next])
                            = (IF i > n THEN << >> ELSE <<member[i]>> \o f[next[i]])
    BY <1>7, <1>8
  <2>2. [i \in 1 .. n + 1 |-> IF i > n THEN << >> ELSE <<taken(i).member>> \o f[taken(i).next]]
      = [i \in 1 .. n + 1 |-> IF i > n THEN << >> ELSE <<member[i]>> \o f[next[i]]]
    BY <2>1, Zenon
  <2> QED BY <2>2, Zenon DEF Lists
<1>10. \E f : Reads(f)
  <2>1. \E f : Lists(f, member, next, n) BY <1>1, <1>6, ListFound
  <2> HIDE DEF Reads
  <2> QED BY <1>9, <2>1
<1> HIDE DEF Reads
<1> DEFINE g == CHOOSE f : Reads(f)
<1>11. Reads(g) BY <1>10
<1> HIDE DEF g
<1>12. Lists(g, member, next, n) BY <1>9, <1>11
<1>13. g[start] \in Seq(Listable)
  BY <1>1, <1>4, <1>6, <1>12, ListTypes
<1>14. MembersOf(body, readEscape) = g[start] BY <1>5 DEF g
<1> QED BY <1>13, <1>14

-----------------------------------------------------------------------------
(* The classes of a grammar.                                               *)

\* R is the code points that p matches, and begins where a point is.
ReadsBack(R, p) ==
  /\ Ordered(R)
  /\ \A c \in Points : Covers(R, c) <=> c \in Matched(p)
  /\ \A k \in 1 .. Len(R) : R[k].lo \in Points

\* What a class lists that was read back, as ranges, merged.
LEMMA MergedClass ==
  ASSUME NEW g \in Grammars, NEW p \in Patterns(g), NEW ms \in Seq(Listable), ms = Listed(p),
         ~(\E k \in DOMAIN ms : NoChar \in {ms[k].lo, ms[k].hi})
  PROVE  LET t == normalizeRanges([k \in DOMAIN ms |-> Span(ms[k].lo, ms[k].hi)]) IN
         /\ Ordered(t) /\ Within(t)
         /\ \A c \in Int : Covers(t, c) <=> \E k \in DOMAIN ms : ms[k].lo <= c /\ c <= ms[k].hi
         /\ \A i \in 1 .. Len(t) : t[i].lo \in Points /\ (t[i].hi < MAX_CP => t[i].hi + 1 \in Points)
<1> DEFINE rs == [k \in DOMAIN ms |-> Span(ms[k].lo, ms[k].hi)]
           t == normalizeRanges(rs)
           n == Len(ms)
<1>1. n \in Nat /\ DOMAIN ms = 1 .. n /\ \A k \in 1 .. n : ms[k].lo \in Int /\ ms[k].hi \in Int
  <2>1. n \in Nat /\ DOMAIN ms = 1 .. n /\ \A k \in 1 .. n : ms[k] \in Listable
    BY LenProperties, ElementOfSeq
  <2> QED BY <2>1 DEF Listable
<1>2. ASSUME NEW k \in 1 .. n
      PROVE  /\ 0 <= ms[k].lo /\ ms[k].lo <= ms[k].hi /\ ms[k].hi <= MAX_CP
             /\ ms[k].lo \in Points /\ (ms[k].hi < MAX_CP => ms[k].hi + 1 \in Points)
  <2>1. ms[k] \in ToSet(Listed(p)) BY <1>1 DEF ToSet
  <2>2. ReadBack(ms[k]) BY <1>1 DEF ReadBack
  <2> QED BY <2>1, <2>2, PatternsAssumption, PointsAssumption
<1>3. ASSUME NEW k \in 1 .. n
      PROVE  rs[k] \in Spans /\ rs[k].lo = ms[k].lo /\ rs[k].hi = ms[k].hi
  BY <1>1 DEF Span, Spans
<1>4. rs = [k \in 1 .. n |-> rs[k]]
  BY <1>1
<1> HIDE DEF rs
<1>5. rs \in Seq(Spans) /\ Len(rs) = n
  <2> HIDE DEF n
  <2> QED BY <1>1, <1>3, <1>4, SeqDef, LenProperties
<1>6. \A k \in 1 .. Len(rs) : rs[k].lo <= rs[k].hi
  BY <1>2, <1>3, <1>5
<1>7. /\ Ordered(t)
      /\ \A c \in Int : Covers(t, c) <=> Covers(rs, c)
      /\ \A i \in 1 .. Len(t) : /\ \E k \in 1 .. n : t[i].lo = rs[k].lo
                                /\ \E k \in 1 .. n : t[i].hi = rs[k].hi
  BY <1>5, <1>6, NormalExact
<1> HIDE DEF t
<1>8. \A i \in 1 .. Len(t) : /\ 0 <= t[i].lo /\ t[i].lo \in Points
                             /\ t[i].hi <= MAX_CP /\ (t[i].hi < MAX_CP => t[i].hi + 1 \in Points)
  <2> SUFFICES ASSUME NEW i \in 1 .. Len(t)
               PROVE  /\ 0 <= t[i].lo /\ t[i].lo \in Points
                      /\ t[i].hi <= MAX_CP /\ (t[i].hi < MAX_CP => t[i].hi + 1 \in Points)
    OBVIOUS
  <2>1. PICK k \in 1 .. n : t[i].lo = rs[k].lo BY <1>7
  <2>2. PICK l \in 1 .. n : t[i].hi = rs[l].hi BY <1>7
  <2>3. t[i].lo = ms[k].lo /\ t[i].hi = ms[l].hi BY <1>3, <2>1, <2>2
  <2>4. 0 <= ms[k].lo /\ ms[k].lo \in Points BY <1>2
  <2>5. ms[l].hi <= MAX_CP /\ (ms[l].hi < MAX_CP => ms[l].hi + 1 \in Points) BY <1>2
  <2> QED BY <2>3, <2>4, <2>5, Zenon
<1>9. \A c \in Int : Covers(rs, c) <=> \E k \in 1 .. n : ms[k].lo <= c /\ c <= ms[k].hi
  BY <1>3, <1>5 DEF Covers, In
<1>10. \A c \in Int : Covers(t, c) <=> \E k \in DOMAIN ms : ms[k].lo <= c /\ c <= ms[k].hi
  BY <1>1, <1>7, <1>9
<1>11. Ordered(t) /\ Within(t)
  BY <1>7, <1>8 DEF Within
<1> QED BY <1>8, <1>10, <1>11 DEF t, rs

\* emittedClassRanges is exact about a class it reads back.
LEMMA ClassExact ==
  ASSUME NEW g \in Grammars, NEW p \in Patterns(g), emittedClassRanges(p) # Null
  PROVE  ReadsBack(emittedClassRanges(p), p)
<1> DEFINE R == emittedClassRanges(p)
<1>1. Points \subseteq 0 .. MAX_CP /\ 0 \in Points /\ MAX_CP \in Nat
  <2>1. MAX_CP \in Nat BY SMT DEF MAX_CP
  <2> QED BY <2>1, PointsAssumption
<1>2. CASE p = AnyChar
  <2> DEFINE r == Span(0, MAX_CP)
  <2>1. R = <<r>> BY <1>2 DEF emittedClassRanges
  <2>2. r \in Spans /\ r.lo = 0 /\ r.hi = MAX_CP BY <1>1 DEF Span, Spans
  <2> HIDE DEF r, R
  <2>3. R \in Seq(Spans) /\ Len(R) = 1 /\ R[1] = r
    <3> HIDE DEF Spans
    <3> QED BY <2>1, <2>2
  <2>4. \A k \in 1 .. Len(R) : k = 1 BY <2>3
  <2>5. Ordered(R) BY <1>1, <2>2, <2>3, <2>4 DEF Ordered
  <2>6. \A c \in Points : Covers(R, c) BY <1>1, <2>2, <2>3 DEF Covers, In
  <2>7. Matched(p) = Points BY <1>2 DEF Matched
  <2>8. ReadsBack(R, p) BY <1>1, <2>2, <2>3, <2>4, <2>5, <2>6, <2>7 DEF ReadsBack
  <2> QED BY <2>8 DEF R
<1>3. CASE p # AnyChar
  <2> DEFINE ms == Listed(p)
             t == normalizeRanges([k \in DOMAIN ms |-> Span(ms[k].lo, ms[k].hi)])
             named == {c \in Points : \E k \in DOMAIN ms : ms[k].lo <= c /\ c <= ms[k].hi}
  <2>1. IsBracketed(p) /\ R = RangesOf(Negated(Inside(p)), ms)
    BY <1>3 DEF emittedClassRanges, Listed
  <2>2. ~(\E k \in DOMAIN ms : NoChar \in {ms[k].lo, ms[k].hi})
        /\ R = IF Negated(Inside(p)) THEN complementRanges(t) ELSE t
    BY <2>1 DEF RangesOf
  <2>3. ms \in Seq(Listable)
    <3>1. p \in Seq(Symbols) BY PatternsAssumption DEF Symbols
    <3>2. Len(p) \in Nat /\ Len(p) > 1 BY <2>1, <3>1, LenProperties DEF IsBracketed
    <3>3. 2 \in 1 .. Len(p) + 1 /\ Len(p) - 1 \in 2 - 1 .. Len(p) BY <3>2
    <3>4. Inside(p) \in Seq(Symbols) BY <3>1, <3>3, SubSeqProperties DEF Inside
    <3> QED BY <3>4, ListedTypes DEF Listed
  <2>4. /\ Ordered(t) /\ Within(t)
        /\ \A c \in Int : Covers(t, c) <=> \E k \in DOMAIN ms : ms[k].lo <= c /\ c <= ms[k].hi
        /\ \A i \in 1 .. Len(t) : t[i].lo \in Points /\ (t[i].hi < MAX_CP => t[i].hi + 1 \in Points)
    BY <2>2, <2>3, MergedClass
  <2>5. Matched(p) = IF Negated(Inside(p)) THEN Points \ named ELSE named
    BY <1>3 DEF Matched
  <2> HIDE DEF ms, R
  <2>6. \A c \in Points : Covers(t, c) <=> c \in named
    <3> SUFFICES ASSUME NEW c \in Points PROVE Covers(t, c) <=> c \in named
      OBVIOUS
    <3>1. c \in Int BY <1>1
    <3>2. Covers(t, c) <=> \E k \in DOMAIN ms : ms[k].lo <= c /\ c <= ms[k].hi
      BY <2>4, <3>1
    <3> HIDE DEF t
    <3> QED BY <3>2
  <2> HIDE DEF t, named
  <2>7. CASE ~Negated(Inside(p))
    <3>1. R = t /\ Matched(p) = named BY <2>2, <2>5, <2>7
    <3>2. ReadsBack(R, p) BY <2>4, <2>6, <3>1 DEF ReadsBack
    <3> QED BY <3>2 DEF R
  <2>8. CASE Negated(Inside(p))
    <3>1. R = complementRanges(t) /\ Matched(p) = Points \ named BY <2>2, <2>5, <2>8
    <3>2. Complement(R, t) BY <2>4, <3>1, ComplementExact
    <3>3. Ordered(R) BY <3>2 DEF Complement
    <3>4. \A c \in Points : Covers(R, c) <=> c \in Matched(p)
      BY <1>1, <2>6, <3>1, <3>2 DEF Complement
    <3>5. ASSUME NEW j \in 1 .. Len(R) PROVE R[j].lo \in Points
      <4>1. R[j].lo \in Int /\ R[j].hi \in Int /\ R[j].lo <= R[j].hi
        BY <3>3, Types DEF Ordered
      <4>2. Covers(R, R[j].lo) BY <4>1 DEF Covers, In
      <4>3. R[j].lo <= MAX_CP BY <1>1, <3>2, <4>1, <4>2 DEF Complement
      <4>4. CASE R[j].lo = 0 BY <1>1, <4>4
      <4>5. CASE \E i \in 1 .. Len(t) : R[j].lo = t[i].hi + 1
        <5>1. PICK i \in 1 .. Len(t) : R[j].lo = t[i].hi + 1 BY <4>5
        <5>2. t[i].hi \in Int BY <2>4, Types DEF Ordered
        <5>3. t[i].hi < MAX_CP BY <1>1, <4>3, <5>1, <5>2
        <5> QED BY <2>4, <5>1, <5>3
      <4> QED BY <3>2, <4>4, <4>5 DEF Complement
    <3>6. ReadsBack(R, p) BY <3>3, <3>4, <3>5 DEF ReadsBack
    <3> QED BY <3>6 DEF R
  <2> QED BY <2>7, <2>8
<1> QED BY <1>2, <1>3

Clash(g) ==
  \E c \in Points :
    \/ \E p, q \in Patterns(g) : p # q /\ c \in Matched(p) \cap Matched(q)
    \/ c \in LiteralHeads(g) /\ \E p \in Patterns(g) : c \in Matched(p)

\* What Apart finds of the classes read back is what they match.
LEMMA ApartExact ==
  ASSUME NEW g \in Grammars, \A p \in Patterns(g) : emittedClassRanges(p) # Null
  PROVE  Apart(RangesIn(g), LiteralHeads(g)) <=> ~Clash(g)
<1> DEFINE rs == RangesIn(g)
<1>1. DOMAIN rs = Patterns(g) /\ \A p \in Patterns(g) : rs[p] = emittedClassRanges(p)
  BY DEF RangesIn
<1> HIDE DEF rs
<1>2. \A p \in Patterns(g) : ReadsBack(rs[p], p)
  BY <1>1, ClassExact
<1>3. /\ Points \subseteq 0 .. MAX_CP /\ MAX_CP \in Nat /\ LiteralHeads(g) \subseteq Points
      /\ \A c \in Points : c \in Int
  <2>1. MAX_CP \in Nat BY SMT DEF MAX_CP
  <2>2. Points \subseteq 0 .. MAX_CP /\ LiteralHeads(g) \subseteq Points BY PointsAssumption
  <2>3. \A c \in Points : c \in Int BY <2>1, <2>2
  <2> QED BY <2>1, <2>2, <2>3
<1>4. ASSUME NEW p \in Patterns(g), NEW q \in Patterns(g)
      PROVE  rangesIntersect(rs[p], rs[q]) <=> \E c \in Points : c \in Matched(p) \cap Matched(q)
  <2> DEFINE a == rs[p]
             b == rs[q]
  <2>1. /\ Ordered(a) /\ \A k \in 1 .. Len(a) : a[k].lo \in Points
        /\ Ordered(b) /\ \A k \in 1 .. Len(b) : b[k].lo \in Points
        /\ \A c \in Points : (Covers(a, c) <=> c \in Matched(p)) /\ (Covers(b, c) <=> c \in Matched(q))
    BY <1>2 DEF ReadsBack
  <2> HIDE DEF a, b
  <2>2. /\ rangesIntersect(a, b) =>
              \E c \in {a[k].lo : k \in 1 .. Len(a)} \cup {b[l].lo : l \in 1 .. Len(b)} :
                Covers(a, c) /\ Covers(b, c)
        /\ (\E c \in Int : Covers(a, c) /\ Covers(b, c)) => rangesIntersect(a, b)
    BY <2>1, IntersectsExact
  <2>3. \A c \in {a[k].lo : k \in 1 .. Len(a)} \cup {b[l].lo : l \in 1 .. Len(b)} : c \in Points
    BY <2>1
  <2>4. rangesIntersect(a, b) => \E c \in Points : Covers(a, c) /\ Covers(b, c)
    BY <2>2, <2>3
  <2>5. (\E c \in Points : Covers(a, c) /\ Covers(b, c)) => rangesIntersect(a, b)
    BY <1>3, <2>2
  <2>6. rangesIntersect(a, b) <=> \E c \in Points : c \in Matched(p) \cap Matched(q)
    BY <2>1, <2>4, <2>5
  <2> QED BY <2>6 DEF a, b
<1>5. ASSUME NEW p \in Patterns(g), NEW c \in Points
      PROVE  rangesContain(rs[p], c) <=> c \in Matched(p)
  <2>1. Ordered(rs[p]) /\ (Covers(rs[p], c) <=> c \in Matched(p)) BY <1>2 DEF ReadsBack
  <2>2. rangesContain(rs[p], c) <=> Covers(rs[p], c) BY <1>3, <2>1, ContainsExact
  <2> QED BY <2>1, <2>2
<1>6. Apart(rs, LiteralHeads(g)) <=>
        \A p \in Patterns(g) :
          /\ \A q \in Patterns(g) \ {p} : ~\E c \in Points : c \in Matched(p) \cap Matched(q)
          /\ \A c \in LiteralHeads(g) : c \notin Matched(p)
  BY <1>1, <1>3, <1>4, <1>5 DEF Apart
<1>7. Clash(g) <=>
        \E p \in Patterns(g) :
          \/ \E q \in Patterns(g) \ {p} : \E c \in Points : c \in Matched(p) \cap Matched(q)
          \/ \E c \in LiteralHeads(g) : c \in Matched(p)
  BY <1>3 DEF Clash
<1>8. Apart(rs, LiteralHeads(g)) <=> ~Clash(g) BY <1>6, <1>7
<1> QED BY <1>8 DEF rs

\* What EagerExactly says a token's mark is.
Eager ==
  /\ call.eagerClasses /\ DOMAIN spec.tokens # {}
  /\ DOMAIN spec.tokens \subseteq Patterns(call.grammar)
  /\ \A p \in Patterns(call.grammar) : emittedClassRanges(p) # Null
  /\ ~Clash(call.grammar)

EagerKnown ==
  pc = "return" \/ Returned => \A p \in DOMAIN spec.tokens : spec.tokens[p] = Eager

EInv == HInv /\ EagerKnown

\* markClassesEager decides as the code points do.
LEMMA MarksExact ==
  ASSUME pc = "decide", HInv
  PROVE  (call.eagerClasses /\ MarksClasses) <=> Eager
<1>1. call.grammar \in Grammars
  BY DEF HInv, Heard
<1>2. CASE \A p \in Patterns(call.grammar) : emittedClassRanges(p) # Null
  <2>1. Apart(RangesIn(call.grammar), LiteralHeads(call.grammar)) <=> ~Clash(call.grammar)
    BY <1>1, <1>2, ApartExact
  <2> QED BY <2>1 DEF MarksClasses, Eager
<1>3. CASE ~(\A p \in Patterns(call.grammar) : emittedClassRanges(p) # Null)
  BY <1>3 DEF MarksClasses, Eager
<1> QED BY <1>2, <1>3

\* Decide marks, and no step before the next decision touches a token.
LEMMA EagerKept == EInv /\ [Next]_vars => EagerKnown'
<1> SUFFICES ASSUME EInv, [Next]_vars PROVE EagerKnown'
  OBVIOUS
<1> USE DEF EInv, Returned, Answered
<1>1. CASE UNCHANGED <<pc, calls, outcome, spec, call>>
  BY <1>1 DEF EagerKnown, Eager
<1>2. CASE Call
  <2>1. pc' \in {"clear", "parse"} BY <1>2 DEF Call
  <2> QED BY <2>1 DEF EagerKnown
<1>3. CASE Parse
  <2>1. pc' \in {"idle", "parse", "emit"} /\ (pc' = "idle" => outcome' # "spec")
    <3>1. pc \in {"clear", "parse"}
      BY <1>3 DEF Parse, ClearSlot, DecoderThrows, Record, Panics, Parsed, Unparsed, TakeSlot, ParseReturns
    <3>2. call.grammar.faults # << >> => call.grammar.faults[1] # "spec"
      BY <3>1, GrammarsAssumption DEF HInv, Heard
    <3>3. CASE DecoderThrows
      BY <3>2, <3>3 DEF DecoderThrows, Throws, HInv, IInv, SlotOwn
    <3>4. CASE TakeSlot
      BY <3>2, <3>4 DEF TakeSlot, ParseReturns, Throws, HInv, IInv, SlotOwn
    <3>5. CASE ClearSlot \/ Record \/ Panics \/ Parsed \/ Unparsed
      BY <3>5 DEF ClearSlot, Record, Panics, Parsed, Unparsed, Goes, Throws
    <3> QED BY <1>3, <3>3, <3>4, <3>5 DEF Parse
  <2> QED BY <2>1 DEF EagerKnown
<1>4. CASE Emit
  <2>1. pc' = "exact" \/ (pc' = "idle" /\ outcome' = "uncompilable") BY <1>4 DEF Emit
  <2> QED BY <2>1 DEF EagerKnown
<1>5. CASE ApplyExactLexing
  <2>1. pc' = "decide" \/ (pc' = "idle" /\ outcome' = "too old") BY <1>5 DEF ApplyExactLexing
  <2> QED BY <2>1 DEF EagerKnown
<1>6. CASE Decide
  <2> DEFINE mark == call.eagerClasses /\ MarksClasses
  <2>1. /\ pc = "decide" /\ pc' = "return" /\ UNCHANGED call
        /\ spec' = [spec EXCEPT !.tokens = [p \in DOMAIN spec.tokens |-> mark]]
    BY <1>6 DEF Decide, All
  <2>2. "tokens" \in DOMAIN spec
    BY <2>1 DEF HInv, Heard, NoSpec, Defaults
  <2>3. mark <=> Eager
    BY <2>1, MarksExact
  <2> HIDE DEF mark
  <2>4. spec'.tokens = [p \in DOMAIN spec.tokens |-> mark]
    BY <2>1, <2>2
  <2>5. DOMAIN spec'.tokens = DOMAIN spec.tokens /\ \A p \in DOMAIN spec'.tokens : spec'.tokens[p] = mark
    BY <2>4
  <2>6. Eager' <=> Eager
    BY <2>1, <2>5, Zenon DEF Eager
  <2>7. mark = Eager'
    <3>1. mark \in BOOLEAN BY DEF mark
    <3>2. Eager' \in BOOLEAN BY DEF Eager
    <3> QED BY <2>3, <2>6, <3>1, <3>2
  <2> QED BY <2>5, <2>7, Zenon DEF EagerKnown
<1>7. CASE Returns \/ InstallFails
  <2>1. pc = "return" /\ pc' = "idle" /\ UNCHANGED <<spec, call>> BY <1>7 DEF Returns, InstallFails
  <2> QED BY <2>1 DEF EagerKnown, Eager
<1>8. CASE Rest BY <1>1, <1>8 DEF Rest, vars
<1> QED BY <1>1, <1>2, <1>3, <1>4, <1>5, <1>6, <1>7, <1>8 DEF Next, Parse, vars

\* Whatever the classes of a grammar are, and whatever the compiler names its
\* tokens: markClassesEager and clearClassesEager leave every token eager or
\* none, and every one exactly when the caller has not opted out, each was read
\* back as a class of the grammar's, and no code point is one class's and
\* another's, or a class's and the beginning of a literal.
THEOREM EagerRight == Spec => []EagerExactly
<1>1. Init => EInv
  BY InitIInv DEF Init, EInv, EagerKnown, HInv, Heard, CompilerHeard, Returned, Answered
<1>2. EInv /\ [Next]_vars => EInv'
  BY NextKeeps, HeardKept, AnswerKept, EagerKept DEF EInv, HInv
<1>3. EInv => EagerExactly
  <2> SUFFICES ASSUME EInv, Returned, NEW p \in DOMAIN spec.tokens PROVE spec.tokens[p] = Eager
    BY Zenon DEF EagerExactly, Eager, Clash
  <2> QED BY DEF EInv, EagerKnown
<1> QED BY <1>1, <1>2, <1>3, PTL DEF Spec
=============================================================================
