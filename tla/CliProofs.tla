----------------------------- MODULE CliProofs -----------------------------
(***************************************************************************)
(* Proofs about a run of gbnf-check, for any arguments and any world: the  *)
(* exit code, what is reported of each sample, and that whoever asks for   *)
(* JSON gets it; and that the arguments mean what ParseExact says: the     *)
(* queue is compared, turn by turn, with the vector as written out.        *)
(***************************************************************************)
EXTENDS Cli, SequenceTheorems, FiniteSetTheorems, TLAPS

-----------------------------------------------------------------------------
(* The inductive invariant: what the reading keeps.                        *)

ArgTypes ==
  /\ argv \in Seq(Arguments) /\ pending \in Seq(Arguments)
  /\ optionsDone \in BOOLEAN /\ flags \subseteq Booleans
  /\ texts \in Seq(Values) /\ positionals \in Seq(Arguments)
  /\ parse \in {"running", "parsed"} \cup Errors

\* A `--json` with no argument before it that writes out to a separator.
JsonAhead(s) ==
  \E i \in DOMAIN s :
    s[i] = LongOption("json", None) /\ \A j \in 1 .. i - 1 : ~HasSeparator(s[j])

\* It is still to come, or it has been read.
JsonComes ==
  JsonAhead(argv) =>
    IF parse = "running" /\ ~optionsDone THEN "json" \in flags \/ JsonAhead(pending)
    ELSE parse \in Errors \/ "json" \in flags

(* What the run keeps.                                                     *)

Phases == {"args", "files", "stdin", "strip", "compile", "check", "refused", "done"}

\* The arguments are fit to run on.
Fit ==
  /\ parse = "parsed" /\ ~Informs
  /\ ~({"quiet", "json"} \subseteq flags)
  /\ positionals # << >> /\ ~(positionals[1] = Dash /\ "stdin" \in flags)
  /\ From(positionals[1]) # Unreadable

Other == [body |-> "other", newlines |-> 0]
Samples ==
  [from : {"file", "text", "stdin"}, text : Texts \cup {Unreadable, Other}]

FileSample(i) == SampleFrom("file", FileOf(positionals[i + 1]))
FilesNamed == [i \in 1 .. Len(positionals) - 1 |-> FileSample(i)]
TextsNamed == [i \in DOMAIN texts |-> SampleFrom("text", TextOf(texts[i]))]
FilesRead(n) == \A i \in 1 .. n : FileOf(positionals[i + 1]) # Unreadable

\* The verdict the report has to give of the i-th sample.
Due(i) ==
  LET text == Tested[i].text
      ok == text \in world.accepts
  IN Verdict(Tested[i], ok,
       /\ ~ok /\ text.newlines > 0 /\ "strip-final-newline" \notin flags
       /\ Shorter(text) \in world.accepts)

AtArgs == phase = "args" => samples = << >> /\ stdin = world.stdin
AtFiles ==
  phase = "files" =>
    /\ samples \in Seq(Samples)
    /\ Len(samples) <= Len(positionals) - 1
    /\ FilesRead(Len(samples))
    /\ \A i \in DOMAIN samples : samples[i] = FileSample(i)
\* The grammar did not come from it, so all of standard input is left.
StdinWhole == phase \in {"files", "stdin"} /\ "stdin" \in flags => stdin = world.stdin
AtStdin ==
  phase = "stdin" =>
    /\ "stdin" \in flags /\ FilesRead(Len(positionals) - 1)
    /\ samples = FilesNamed \o TextsNamed
AtStrip == phase = "strip" => ~Misused /\ samples = Named
Collected ==
  phase \in {"compile", "check", "refused"} =>
    /\ ~Misused /\ samples = Tested
    /\ phase = "check" => world.compiles
    /\ phase = "refused" => ~world.compiles
Reported ==
  /\ phase \notin {"check", "done"} => reports = << >>
  /\ phase = "check" =>
       /\ Len(reports) <= Len(samples)
       /\ reports \in Seq({Due(i) : i \in Nat})
       /\ \A i \in DOMAIN reports : reports[i] = Due(i)

RunInv ==
  /\ world \in World /\ phase \in Phases /\ wantJson = WantJson
  /\ phase \notin {"args", "done"} => Fit
  /\ AtArgs /\ AtFiles /\ StdinWhole /\ AtStdin /\ AtStrip /\ Collected /\ Reported
  /\ ExitExact /\ ReportExact

CInv == ArgTypes /\ JsonComes /\ RunInv

-----------------------------------------------------------------------------
(* Induction over the naturals: a counterexample m would give a map from   *)
(* the counterexamples up to m, i |-> i - 1, that is injective and misses  *)
(* m.                                                                      *)

LEMMA SetInduction ==
  ASSUME NEW S, 0 \in S, \A n \in Nat : n \in S => n + 1 \in S
  PROVE  \A n \in Nat : n \in S
<1> SUFFICES ASSUME NEW m \in Nat, m \notin S PROVE FALSE
  OBVIOUS
<1> DEFINE D == {i \in 0 .. m : i \notin S}
           E == D \ {m}
           f == [i \in D |-> i - 1]
<1>1. \A i \in D : i - 1 \in E
  <2> SUFFICES ASSUME NEW i \in D PROVE i - 1 \in E
    OBVIOUS
  <2>1. i \in 0 .. m /\ i \notin S /\ i # 0 OBVIOUS
  <2>2. i - 1 \in Nat /\ i - 1 <= m /\ i - 1 # m /\ (i - 1) + 1 = i BY <2>1
  <2>3. i - 1 \notin S BY <2>1, <2>2
  <2> QED BY <2>2, <2>3
<1>2. f \in [D -> E]
  BY <1>1
<1>3. IsFiniteSet(D)
  <2>1. IsFiniteSet(0 .. m) BY FS_Interval
  <2> QED BY <2>1, FS_Subset
<1>4. m \in D OBVIOUS
<1>5. IsFiniteSet(E) /\ Cardinality(E) = Cardinality(D) - 1 /\ Cardinality(D) \in Nat
  <2> HIDE DEF D
  <2> QED BY <1>3, <1>4, FS_RemoveElement, FS_CardinalityType
<1>6. \E x, y \in D : x # y /\ f[x] = f[y]
  <2>1. IsFiniteSet(D) /\ IsFiniteSet(E) /\ Cardinality(E) < Cardinality(D)
    BY <1>3, <1>5
  <2> HIDE DEF D, E, f
  <2> QED BY <1>2, <2>1, FS_PigeonHole
<1> QED BY <1>6

LEMMA Least ==
  ASSUME NEW S \in SUBSET Nat, S # {}
  PROVE  Min(S) \in S /\ \A n \in S : Min(S) <= n
<1>1. \E m \in S : \A n \in S : m <= n
  <2> SUFFICES ASSUME \A m \in S : \E n \in S : n < m PROVE FALSE
    OBVIOUS
  <2> DEFINE T == {n \in Nat : \A i \in 0 .. n : i \notin S}
  <2>1. 0 \in T OBVIOUS
  <2>2. ASSUME NEW n \in Nat, n \in T PROVE n + 1 \in T
    <3>1. \A i \in 0 .. n + 1 : i \in 0 .. n \/ i = n + 1 OBVIOUS
    <3>2. n + 1 \notin S
      <4> SUFFICES ASSUME n + 1 \in S PROVE FALSE
        OBVIOUS
      <4>1. PICK k \in S : k < n + 1 OBVIOUS
      <4> QED BY <2>2, <4>1
    <3> QED BY <2>2, <3>1, <3>2
  <2>3. \A n \in Nat : n \in T
    <3> HIDE DEF T
    <3> QED BY <2>1, <2>2, SetInduction
  <2>4. \A n \in Nat : n \notin S
    BY <2>3
  <2> QED BY <2>4
<1> QED BY <1>1 DEF Min

-----------------------------------------------------------------------------
(* The reading of the arguments.                                           *)

Part(letters, cut, i) ==
  IF i = cut THEN Short(SubSeq(letters, i, Len(letters)))
  ELSE IF letters[i] = "-" THEN Separator
  ELSE Short(<<letters[i]>>)

\* A group is written out to separators and to options that are no groups.
LEMMA ExpansionParts ==
  ASSUME NEW a \in Arguments, Group(a)
  PROVE  /\ Expansion(a) \in Seq(Arguments) /\ 1 \in DOMAIN Expansion(a)
         /\ \A i \in DOMAIN Expansion(a) :
              \/ Expansion(a)[i] = Separator
              \/ Expansion(a)[i].kind = "short" /\ ~Group(Expansion(a)[i])
<1> DEFINE letters == a.letters
           I == {i \in 1 .. Len(letters) : letters[i] = "t"}
           cut == IF I # {} THEN Min(I) ELSE 0
           n == IF cut = 0 THEN Len(letters) ELSE cut
<1>1. letters \in Seq(Chars) /\ a.kind = "short" /\ Len(letters) \in Nat
  BY DEF Arguments, Group
<1>2. cut \in 0 .. Len(letters) /\ (cut # 0 => letters[cut] = "t")
  <2>1. I \in SUBSET Nat /\ I \subseteq 1 .. Len(letters) /\ \A i \in I : letters[i] = "t"
    OBVIOUS
  <2>2. I # {} => Min(I) \in I
    <3> HIDE DEF I
    <3> QED BY <2>1, Least
  <2>3. cut \in I \/ cut = 0
    <3> HIDE DEF I
    <3> QED BY <2>2
  <2> HIDE DEF I, cut
  <2>4. Len(letters) \in Nat
    BY <1>1
  <2> HIDE DEF letters
  <2>5. CASE cut \in I BY <2>1, <2>4, <2>5
  <2>6. CASE cut = 0 BY <2>4, <2>6
  <2> QED BY <2>3, <2>5, <2>6
<1>3. Expansion(a) = [i \in 1 .. n |-> Part(letters, cut, i)]
  BY DEF Expansion, Part, SelectInSeq
<1> HIDE DEF I, cut
<1>4. n \in Nat /\ n <= Len(letters)
  BY <1>1, <1>2
<1>5. ASSUME NEW i \in 1 .. n
      PROVE  /\ Part(letters, cut, i) \in Arguments
             /\ \/ Part(letters, cut, i) = Separator
                \/ Part(letters, cut, i).kind = "short" /\ ~Group(Part(letters, cut, i))
  <2>1. i \in 1 .. Len(letters) /\ letters[i] \in Chars
    BY <1>1, <1>4
  <2>2. CASE i = cut
    <3>1. SubSeq(letters, i, Len(letters)) \in Seq(Chars)
      BY <1>1, <2>1, SubSeqProperties
    <3>2. SubSeq(letters, i, Len(letters))[1] = "t"
      BY <1>1, <1>2, <2>1, <2>2, SubSeqProperties
    <3> QED BY <2>2, <3>1, <3>2 DEF Part, Short, Group, Arguments
  <2>3. CASE i # cut
    BY <2>1, <2>3 DEF Part, Short, Separator, Group, Arguments
  <2> QED BY <2>2, <2>3
<1>6. 1 \in 1 .. n
  BY <1>1, <1>2 DEF Group
<1> QED BY <1>3, <1>4, <1>5, <1>6

LEMMA PlainSplits ==
  /\ ~HasSeparator(LongOption("json", None))
  /\ \A a : a.kind = "short" /\ ~Group(a) => ~HasSeparator(a)
  /\ HasSeparator(Separator)
  /\ \A w : ~HasSeparator(Word(w))
BY DEF HasSeparator, Splits, Separator, LongOption, Word

LEMMA QueueTyped ==
  ASSUME ArgTypes, pending # << >>
  PROVE  /\ arg \in Arguments /\ arg = pending[1]
         /\ Tail(pending) \in Seq(Arguments) /\ Len(pending) \in Nat \ {0}
         /\ DOMAIN pending = 1 .. Len(pending)
         /\ Len(Tail(pending)) = Len(pending) - 1
         /\ \A i \in 1 .. Len(pending) - 1 : Tail(pending)[i] = pending[i + 1]
         /\ \A i \in DOMAIN pending : pending[i] \in Arguments
BY HeadTailProperties, LenProperties, EmptySeq DEF ArgTypes, arg

LEMMA InlineTyped ==
  ASSUME NEW a \in Arguments, InlineOf(a) # None
  PROVE  InlineOf(a) \in Values
<1>1. CASE a.kind = "long"
  BY <1>1 DEF InlineOf, Arguments, Values
<1>2. CASE a.kind # "long"
  <2>1. Attached(a) /\ InlineOf(a) = [letters |-> Tail(a.letters)]
    BY <1>2 DEF InlineOf
  <2>2. a.letters \in Seq(Chars) /\ a.letters # << >>
    BY <2>1 DEF Attached, Arguments
  <2>3. Tail(a.letters) \in Seq(Chars)
    BY <2>2, HeadTailProperties
  <2> QED BY <2>1, <2>3 DEF Values
<1> QED BY <1>1, <1>2

LEMMA ArgTypesKept == ArgTypes /\ ArgStep => ArgTypes'
<1> SUFFICES ASSUME ArgTypes, ArgStep PROVE ArgTypes'
  OBVIOUS
<1>1. ASSUME AfterSeparator \/ Positional PROVE ArgTypes'
  <2>1. /\ pending # << >> /\ positionals' = Append(positionals, arg) /\ pending' = Tail(pending)
        /\ UNCHANGED <<argv, optionsDone, flags, texts, parse>>
    BY <1>1 DEF AfterSeparator, Positional, Turn
  <2>2. arg \in Arguments /\ Tail(pending) \in Seq(Arguments)
    BY <2>1, QueueTyped
  <2>3. positionals' \in Seq(Arguments)
    BY <2>1, <2>2, AppendProperties DEF ArgTypes
  <2> QED BY <2>1, <2>2, <2>3 DEF ArgTypes
<1>2. ASSUME AtSeparator PROVE ArgTypes'
  BY <1>2, QueueTyped DEF AtSeparator, Turn, ArgTypes
<1>3. ASSUME Expand PROVE ArgTypes'
  <2>1. arg \in Arguments /\ Tail(pending) \in Seq(Arguments) /\ Group(arg)
    BY <1>3, QueueTyped DEF Expand, Turn
  <2>2. Expansion(arg) \in Seq(Arguments)
    BY <2>1, ExpansionParts
  <2>3. Expansion(arg) \o Tail(pending) \in Seq(Arguments)
    BY <2>1, <2>2, ConcatProperties
  <2> QED BY <1>3, <2>3 DEF Expand, ArgTypes
<1>4. ASSUME Unknown \/ FlagWithValue \/ TextMissing \/ TextAmbiguous PROVE ArgTypes'
  BY <1>4 DEF Unknown, FlagWithValue, TextMissing, TextAmbiguous, Refuse, Errors, ArgTypes
<1>5. ASSUME Flag PROVE ArgTypes'
  BY <1>5, QueueTyped DEF Flag, Option, Turn, ArgTypes
<1>6. ASSUME TextInline PROVE ArgTypes'
  <2>1. arg \in Arguments /\ Tail(pending) \in Seq(Arguments) /\ InlineOf(arg) # None
    BY <1>6, QueueTyped DEF TextInline, Option, Turn
  <2>2. InlineOf(arg) \in Values
    BY <2>1, InlineTyped
  <2>3. Append(texts, InlineOf(arg)) \in Seq(Values)
    BY <2>2, AppendProperties DEF ArgTypes
  <2> QED BY <1>6, <2>1, <2>3 DEF TextInline, ArgTypes
<1>7. ASSUME TextNext PROVE ArgTypes'
  <2>1. /\ pending # << >> /\ Len(pending) > 1
        /\ pending[2].kind = "word" /\ texts' = Append(texts, pending[2].word)
    BY <1>7 DEF TextNext, BareText, Option, Turn
  <2>2. pending[2] \in Arguments
    BY <2>1, QueueTyped
  <2>3. pending[2].word \in Values
    BY <2>1, <2>2 DEF Arguments, Values
  <2>4. Tail(pending) \in Seq(Arguments) /\ Tail(pending) # << >>
    BY <2>1, QueueTyped, EmptySeq
  <2>5. Tail(Tail(pending)) \in Seq(Arguments)
    BY <2>4, HeadTailProperties
  <2> QED BY <1>7, <2>1, <2>3, <2>5, AppendProperties DEF TextNext, ArgTypes
<1>8. ASSUME Parsed PROVE ArgTypes'
  BY <1>8 DEF Parsed, ArgTypes
<1> QED BY <1>1, <1>2, <1>3, <1>4, <1>5, <1>6, <1>7, <1>8 DEF ArgStep

LEMMA ReadsOn ==
  ASSUME ArgStep
  PROVE  parse = "running" /\ argv' = argv /\ flags \subseteq flags'
<1> DEFINE Goal == parse = "running" /\ argv' = argv /\ flags \subseteq flags'
<1>1. AfterSeparator \/ AtSeparator \/ Positional \/ Expand \/ Parsed => Goal
  BY DEF AfterSeparator, AtSeparator, Positional, Expand, Parsed, Turn
<1>2. Unknown \/ FlagWithValue \/ TextMissing \/ TextAmbiguous => Goal
  BY DEF Unknown, FlagWithValue, TextMissing, TextAmbiguous, BareText, Refuse, Option, Turn
<1>3. Flag \/ TextInline \/ TextNext => Goal
  BY DEF Flag, TextInline, TextNext, BareText, Option, Turn
<1> QED BY <1>1, <1>2, <1>3 DEF ArgStep

LEMMA Joins ==
  ASSUME NEW T, NEW a \in Seq(T), NEW b \in Seq(T)
  PROVE  /\ a \o b \in Seq(T) /\ Len(a) \in Nat /\ Len(b) \in Nat
         /\ DOMAIN a = 1 .. Len(a) /\ DOMAIN b = 1 .. Len(b)
         /\ Len(a \o b) = Len(a) + Len(b) /\ DOMAIN (a \o b) = 1 .. Len(a \o b)
         /\ \A j \in DOMAIN a : j \in DOMAIN (a \o b) /\ (a \o b)[j] = a[j]
         /\ \A j \in DOMAIN b : Len(a) + j \in DOMAIN (a \o b) /\ (a \o b)[Len(a) + j] = b[j]
         /\ \A j \in DOMAIN (a \o b) :
              \/ j \in DOMAIN a /\ (a \o b)[j] = a[j]
              \/ j > Len(a) /\ \E q \in DOMAIN b : j = Len(a) + q /\ (a \o b)[j] = b[q]
<1>1. /\ Len(a) \in Nat /\ Len(b) \in Nat /\ DOMAIN a = 1 .. Len(a) /\ DOMAIN b = 1 .. Len(b)
      /\ a \o b \in Seq(T) /\ Len(a \o b) = Len(a) + Len(b) /\ DOMAIN (a \o b) = 1 .. Len(a \o b)
      /\ \A j \in 1 .. Len(a) + Len(b) :
           (a \o b)[j] = IF j <= Len(a) THEN a[j] ELSE b[j - Len(a)]
  BY LenProperties, ConcatProperties
<1> DEFINE c == a \o b
<1> HIDE DEF c
<1>2. \A j \in DOMAIN a : j \in DOMAIN c /\ c[j] = a[j]
  BY <1>1 DEF c
<1>3. ASSUME NEW j \in DOMAIN b PROVE Len(a) + j \in DOMAIN c /\ c[Len(a) + j] = b[j]
  <2>1. Len(a) + j \in 1 .. Len(a) + Len(b) /\ ~(Len(a) + j <= Len(a)) /\ (Len(a) + j) - Len(a) = j
    BY <1>1
  <2> QED BY <1>1, <2>1 DEF c
<1>4. ASSUME NEW j \in DOMAIN c
      PROVE  \/ j \in DOMAIN a /\ c[j] = a[j]
             \/ j > Len(a) /\ \E q \in DOMAIN b : j = Len(a) + q /\ c[j] = b[q]
  <2>1. j \in 1 .. Len(a) + Len(b)
    BY <1>1 DEF c
  <2>2. CASE j <= Len(a)
    BY <1>1, <1>2, <2>1, <2>2
  <2>3. CASE j > Len(a)
    <3>1. j - Len(a) \in DOMAIN b /\ j = Len(a) + (j - Len(a))
      BY <1>1, <2>1, <2>3
    <3> QED BY <1>3, <2>3, <3>1
  <2> QED BY <1>1, <2>1, <2>2, <2>3
<1> QED BY <1>1, <1>2, <1>3, <1>4 DEF c

\* A step takes arguments that are not the one looked for and that write out
\* to no separator, or it takes the `--json`.
LEMMA JsonComesKept == ArgTypes /\ JsonComes /\ ArgStep => JsonComes'
<1> SUFFICES ASSUME ArgTypes, JsonComes, ArgStep, JsonAhead(argv)
             PROVE  JsonComes'
  BY ReadsOn DEF JsonComes
<1> DEFINE Json == LongOption("json", None)
<1>1. parse = "running" /\ flags \subseteq flags'
  BY ReadsOn
<1>2. CASE "json" \in flags
  BY <1>1, <1>2 DEF JsonComes
<1>3. CASE "json" \notin flags
  <2>1. ~optionsDone /\ JsonAhead(pending)
    BY <1>1, <1>3 DEF JsonComes, Errors
  <2>2. PICK k \in DOMAIN pending :
          pending[k] = Json /\ \A j \in 1 .. k - 1 : ~HasSeparator(pending[j])
    BY <2>1 DEF JsonAhead
  <2>3. pending # << >> /\ k \in 1 .. Len(pending) /\ Len(pending) \in Nat \ {0}
    <3>1. pending # << >>
      BY <2>2, EmptySeq
    <3> QED BY <2>2, <3>1, QueueTyped
  <2>4. Json.kind = "long" /\ ~Group(Json) /\ IsOption(Json) /\ OptionOf(Json) = "json"
        /\ InlineOf(Json) = None /\ Json # Separator
    BY DEF LongOption, Group, OptionOf, InlineOf, IsOption, Separator
  <2>5. arg = pending[1] /\ (k = 1 => arg = Json)
    BY <2>2, <2>3, QueueTyped
  <2>6. \A n \in 1 .. k - 1 : ~HasSeparator(pending[n])
    BY <2>2
  <2>7. ASSUME k # 1 PROVE JsonAhead(Tail(pending))
    <3>1. k - 1 \in DOMAIN Tail(pending) /\ Tail(pending)[k - 1] = Json
      BY <2>2, <2>3, <2>7, QueueTyped, LenProperties
    <3>2. \A j \in 1 .. (k - 1) - 1 : Tail(pending)[j] = pending[j + 1] /\ j + 1 \in 1 .. k - 1
      BY <2>3, QueueTyped
    <3>3. \A j \in 1 .. (k - 1) - 1 : ~HasSeparator(Tail(pending)[j])
      BY <2>2, <3>2
    <3> QED BY <3>1, <3>3 DEF JsonAhead
  <2>8. ASSUME AfterSeparator \/ Parsed PROVE JsonComes'
    BY <2>1, <2>3, <2>8 DEF AfterSeparator, Parsed
  <2>9. ASSUME AtSeparator PROVE JsonComes'
    <3>1. pending[1] = Separator /\ k # 1
      BY <2>4, <2>5, <2>9 DEF AtSeparator
    <3>2. 1 \in 1 .. k - 1
      BY <2>3, <3>1
    <3> QED BY <2>6, <3>1, <3>2, PlainSplits
  <2>10. ASSUME Positional PROVE JsonComes'
    <3>1. k # 1
      BY <2>4, <2>5, <2>10 DEF Positional
    <3> QED BY <2>7, <2>10, <3>1 DEF Positional, JsonComes
  <2>11. ASSUME Expand PROVE JsonComes'
    <3> DEFINE parts == Expansion(arg)
               n == Len(parts)
    <3>1. Group(arg) /\ k # 1 /\ pending' = parts \o Tail(pending) /\ parse' = parse
          /\ arg \in Arguments /\ Tail(pending) \in Seq(Arguments)
          /\ optionsDone' = optionsDone /\ argv' = argv
      BY <2>3, <2>4, <2>5, <2>11, QueueTyped DEF Expand
    <3>2. /\ parts \in Seq(Arguments) /\ n \in Nat /\ DOMAIN parts = 1 .. n
          /\ \A i \in 1 .. n : parts[i] = Separator \/ (parts[i].kind = "short" /\ ~Group(parts[i]))
      BY <3>1, ExpansionParts, LenProperties
    <3>3. \A i \in 1 .. n : ~HasSeparator(parts[i])
      <4>1. 1 \in 1 .. k - 1
        BY <2>3, <3>1
      <4>2. ~HasSeparator(arg)
        BY <2>5, <2>6, <4>1
      <4>3. arg.kind = "short"
        BY <3>1 DEF Group
      <4>4. \A i \in 1 .. n : parts[i] # Separator
        BY <3>1, <3>2, <4>2, <4>3 DEF HasSeparator, Splits
      <4> QED BY <3>2, <4>4, PlainSplits
    <3>4. JsonAhead(pending')
      <4> HIDE DEF parts, n
      <4>1. PICK q \in DOMAIN Tail(pending) :
              Tail(pending)[q] = Json /\ \A j \in 1 .. q - 1 : ~HasSeparator(Tail(pending)[j])
        BY <2>7, <3>1 DEF JsonAhead
      <4>2. q \in 1 .. Len(Tail(pending)) /\ Len(Tail(pending)) \in Nat
        BY <3>1, <4>1, LenProperties
      <4>3. pending' = parts \o Tail(pending) /\ Len(parts) = n
        BY <3>1 DEF n
      <4>4. /\ n + q \in DOMAIN pending' /\ pending'[n + q] = Tail(pending)[q]
            /\ \A j \in DOMAIN pending' :
                 \/ j \in DOMAIN parts /\ pending'[j] = parts[j]
                 \/ \E i \in DOMAIN Tail(pending) : j = n + i /\ pending'[j] = Tail(pending)[i]
            /\ DOMAIN pending' = 1 .. Len(pending') /\ Len(pending') \in Nat
        <5> DEFINE t == Tail(pending)
        <5>1. t \in Seq(Arguments) /\ parts \in Seq(Arguments)
          BY <3>1, <3>2
        <5> HIDE DEF t
        <5>2. /\ DOMAIN (parts \o t) = 1 .. Len(parts \o t) /\ Len(parts \o t) \in Nat
              /\ \A j \in DOMAIN t :
                   Len(parts) + j \in DOMAIN (parts \o t) /\ (parts \o t)[Len(parts) + j] = t[j]
              /\ \A j \in DOMAIN (parts \o t) :
                   \/ j \in DOMAIN parts /\ (parts \o t)[j] = parts[j]
                   \/ \E i \in DOMAIN t : j = Len(parts) + i /\ (parts \o t)[j] = t[i]
          BY <5>1, Joins, LenProperties
        <5>3. pending' = parts \o t /\ Len(parts) = n /\ q \in DOMAIN t
          BY <4>3 DEF t
        <5> QED BY <5>2, <5>3 DEF t
      <4>5. \A j \in 1 .. n + q - 1 : ~HasSeparator(pending'[j])
        <5> SUFFICES ASSUME NEW j \in 1 .. n + q - 1 PROVE ~HasSeparator(pending'[j])
          OBVIOUS
        <5>1. j \in DOMAIN pending' /\ j < n + q
          BY <3>2, <4>2, <4>4
        <5>2. CASE j \in DOMAIN parts /\ pending'[j] = parts[j]
          BY <3>2, <3>3, <5>2
        <5>3. ASSUME NEW i \in DOMAIN Tail(pending), j = n + i, pending'[j] = Tail(pending)[i]
              PROVE  ~HasSeparator(pending'[j])
          <6>1. i \in 1 .. Len(Tail(pending)) /\ Len(Tail(pending)) \in Nat
            BY <3>1, LenProperties
          <6>2. i \in 1 .. q - 1
            BY <3>2, <4>2, <5>1, <5>3, <6>1
          <6> QED BY <4>1, <5>3, <6>2
        <5> QED BY <4>4, <5>1, <5>2, <5>3
      <4> DEFINE m == n + q
      <4>6. m \in DOMAIN pending' /\ pending'[m] = Json
        BY <4>1, <4>4
      <4>7. \A j \in 1 .. m - 1 : ~HasSeparator(pending'[j])
        BY <3>2, <4>2, <4>3, <4>5, SMTT(20)
      <4> HIDE DEF m
      <4> QED BY <4>6, <4>7 DEF JsonAhead
    <3> QED BY <1>1, <2>1, <3>1, <3>4 DEF JsonComes
  <2>12. ASSUME Unknown \/ FlagWithValue \/ TextMissing \/ TextAmbiguous PROVE JsonComes'
    <3>1. parse' \in Errors
      BY <2>12 DEF Unknown, FlagWithValue, TextMissing, TextAmbiguous, Refuse, Errors
    <3> QED BY <3>1 DEF JsonComes, Errors
  <2>13. ASSUME Flag PROVE JsonComes'
    <3>1. CASE k = 1
      <4>1. "json" \in flags'
        BY <2>4, <2>5, <2>13, <3>1 DEF Flag
      <4> QED BY <4>1 DEF JsonComes
    <3>2. CASE k # 1
      BY <2>7, <2>13, <3>2 DEF Flag, JsonComes
    <3> QED BY <3>1, <3>2
  <2>14. ASSUME TextInline PROVE JsonComes'
    <3>1. k # 1
      BY <2>4, <2>5, <2>14 DEF TextInline, Option
    <3> QED BY <2>7, <2>14, <3>1 DEF TextInline, JsonComes
  <2>15. ASSUME TextNext PROVE JsonComes'
    <3>1. /\ k # 1 /\ Len(pending) > 1 /\ pending[2].kind = "word"
          /\ pending' = Tail(Tail(pending)) /\ UNCHANGED <<argv, optionsDone, parse>>
      BY <2>4, <2>5, <2>15 DEF TextNext, BareText, Option
    <3>2. k # 2
      BY <2>2, <2>4, <3>1
    <3>3. /\ Tail(pending) \in Seq(Arguments) /\ Len(Tail(pending)) = Len(pending) - 1
          /\ \A i \in 1 .. Len(pending) - 1 : Tail(pending)[i] = pending[i + 1]
      BY <2>3, QueueTyped
    <3>4. Tail(pending) # << >>
      BY <3>1, <3>3, EmptySeq, SMTT(20)
    <3>5. /\ pending' \in Seq(Arguments) /\ Len(pending') = Len(pending) - 2
          /\ \A i \in 1 .. Len(pending) - 2 : pending'[i] = pending[i + 2]
      BY <2>3, <3>1, <3>3, <3>4, HeadTailProperties
    <3>6. k - 2 \in DOMAIN pending' /\ pending'[k - 2] = Json
      <4>1. k \in 1 .. Len(pending) /\ Len(pending) \in Nat /\ k # 1 /\ k # 2
        BY <2>3, <3>1, <3>2
      <4>2. k - 2 \in 1 .. Len(pending) - 2 /\ (k - 2) + 2 = k
        BY <4>1
      <4>3. DOMAIN pending' = 1 .. Len(pending) - 2
        BY <3>5, LenProperties
      <4>4. pending'[k - 2] = pending[k]
        BY <3>5, <4>2
      <4> QED BY <2>2, <4>2, <4>3, <4>4
    <3>7. \A j \in 1 .. (k - 2) - 1 : pending'[j] = pending[j + 2] /\ j + 2 \in 1 .. k - 1
      BY <2>3, <3>5
    <3>8. \A j \in 1 .. (k - 2) - 1 : ~HasSeparator(pending'[j])
      BY <2>6, <3>7
    <3>9. JsonAhead(pending')
      BY <3>6, <3>8 DEF JsonAhead
    <3> QED BY <1>1, <2>1, <3>1, <3>9 DEF JsonComes
  <2> QED BY <2>8, <2>9, <2>10, <2>11, <2>12, <2>13, <2>14, <2>15 DEF ArgStep
<1> QED BY <1>2, <1>3

-----------------------------------------------------------------------------
(* What is asked for in the vector as written out is asked for in the      *)
(* vector itself.                                                          *)

FlatUpTo(ss, f, n) ==
  f = [i \in 1 .. n |-> IF i = 1 THEN ss[i] ELSE f[i - 1] \o ss[i]]

\* FlattenSeq joins from the left.
LEMMA Flattened ==
  ASSUME NEW T, NEW ss \in Seq(Seq(T)), ss # << >>
  PROVE  \E f : /\ FlattenSeq(ss) = f[Len(ss)] /\ f[1] = ss[1]
                /\ \A i \in 2 .. Len(ss) : f[i] = f[i - 1] \o ss[i]
<1>1. Len(ss) \in Nat \ {0}
  BY LenProperties, EmptySeq
<1> DEFINE S == {n \in Nat : n > 0 => \E f : FlatUpTo(ss, f, n)}
<1>2. 0 \in S OBVIOUS
<1>3. ASSUME NEW n \in Nat, n \in S PROVE n + 1 \in S
  <2>1. CASE n = 0
    <3> DEFINE f == [i \in 1 .. 1 |-> ss[i]]
    <3>1. FlatUpTo(ss, f, 1) BY DEF FlatUpTo
    <3> QED BY <2>1, <3>1
  <2>2. CASE n > 0
    <3>1. PICK f : FlatUpTo(ss, f, n)
      BY <1>3, <2>2
    <3> DEFINE g == [i \in 1 .. n + 1 |-> IF i <= n THEN f[i] ELSE f[n] \o ss[n + 1]]
    <3>2. \A i \in 1 .. n + 1 : g[i] = IF i = 1 THEN ss[i] ELSE g[i - 1] \o ss[i]
      <4>1. \A i \in 1 .. n : f[i] = IF i = 1 THEN ss[i] ELSE f[i - 1] \o ss[i]
        BY <3>1 DEF FlatUpTo
      <4>2. ASSUME NEW i \in 1 .. n PROVE g[i] = IF i = 1 THEN ss[i] ELSE g[i - 1] \o ss[i]
        <5>1. g[i] = f[i] /\ (i # 1 => g[i - 1] = f[i - 1])
          OBVIOUS
        <5> QED BY <4>1, <5>1
      <4>3. g[n + 1] = g[n] \o ss[n + 1] /\ n + 1 # 1 /\ (n + 1) - 1 = n
        <5>1. n + 1 \in 1 .. n + 1 /\ n \in 1 .. n + 1 /\ ~(n + 1 <= n) /\ n <= n
          BY <2>2
        <5>2. g[n + 1] = f[n] \o ss[n + 1] /\ g[n] = f[n]
          BY <5>1
        <5> HIDE DEF g
        <5> QED BY <2>2, <5>2
      <4>4. \A i \in 1 .. n + 1 : i \in 1 .. n \/ i = n + 1
        OBVIOUS
      <4> HIDE DEF g
      <4> QED BY <4>2, <4>3, <4>4
    <3>3. FlatUpTo(ss, g, n + 1)
      <4>1. g = [i \in 1 .. n + 1 |-> g[i]]
        OBVIOUS
      <4> HIDE DEF g
      <4> QED BY <3>2, <4>1 DEF FlatUpTo
    <3> QED BY <3>3
  <2> QED BY <2>1, <2>2
<1>4. Len(ss) \in S
  <2> HIDE DEF S
  <2> QED BY <1>1, <1>2, <1>3, SetInduction
<1> DEFINE flat == CHOOSE f : FlatUpTo(ss, f, Len(ss))
<1>5. FlatUpTo(ss, flat, Len(ss))
  BY <1>1, <1>4
<1>6. FlattenSeq(ss) = flat[Len(ss)]
  BY <1>1 DEF FlattenSeq, FlatUpTo
<1> HIDE DEF flat
<1>7. flat[1] = ss[1] /\ \A i \in 2 .. Len(ss) : flat[i] = flat[i - 1] \o ss[i]
  <2>1. \A i \in 1 .. Len(ss) : flat[i] = IF i = 1 THEN ss[i] ELSE flat[i - 1] \o ss[i]
    BY <1>5 DEF FlatUpTo
  <2>2. 1 \in 1 .. Len(ss) /\ \A i \in 2 .. Len(ss) : i \in 1 .. Len(ss) /\ i # 1
    BY <1>1
  <2> QED BY <2>1, <2>2
<1> QED BY <1>6, <1>7

LEMMA FirstPlace ==
  ASSUME NEW n \in Nat, NEW I \in SUBSET (1 .. n)
  PROVE  LET least == IF I # {} THEN Min(I) ELSE 0
             first == IF least = 0 THEN n + 1 ELSE least
         IN /\ first \in 1 .. n + 1
            /\ first <= n => first \in I
            /\ \A i \in I : first <= i
<1>1. I \in SUBSET Nat
  OBVIOUS
<1>2. CASE I = {}
  BY <1>2
<1>3. CASE I # {}
  <2>1. Min(I) \in I /\ \A i \in I : Min(I) <= i
    BY <1>1, <1>3, Least
  <2>2. Min(I) \in 1 .. n
    BY <2>1
  <2> QED BY <1>3, <2>1, <2>2
<1> QED BY <1>2, <1>3

\* One past the end, where there is none.
LEMMA FirstSeparator ==
  ASSUME NEW s \in Seq(Arguments)
  PROVE  /\ FirstIn(s, HasSeparator) \in 1 .. Len(s) + 1
         /\ FirstIn(s, HasSeparator) <= Len(s) => HasSeparator(s[FirstIn(s, HasSeparator)])
         /\ \A i \in 1 .. Len(s) : i < FirstIn(s, HasSeparator) => ~HasSeparator(s[i])
         /\ End(s) \in 1 .. Len(s) + 1
         /\ \A i \in 1 .. Len(s) : i < End(s) => s[i] # Separator
<1> Len(s) \in Nat
  BY LenProperties
<1>1. FirstIn(s, HasSeparator) \in 1 .. Len(s) + 1
      /\ (FirstIn(s, HasSeparator) <= Len(s) => HasSeparator(s[FirstIn(s, HasSeparator)]))
      /\ \A i \in 1 .. Len(s) : i < FirstIn(s, HasSeparator) => ~HasSeparator(s[i])
  <2> DEFINE I == {i \in 1 .. Len(s) : HasSeparator(s[i])}
             least == IF I # {} THEN Min(I) ELSE 0
             first == IF least = 0 THEN Len(s) + 1 ELSE least
  <2>1. FirstIn(s, HasSeparator) = first
    BY DEF FirstIn, SelectInSeq
  <2>2. first \in 1 .. Len(s) + 1 /\ (first <= Len(s) => first \in I) /\ \A i \in I : first <= i
    <3>1. I \in SUBSET (1 .. Len(s)) OBVIOUS
    <3> HIDE DEF I
    <3> QED BY <3>1, FirstPlace
  <2> HIDE DEF first, least
  <2> QED BY <2>1, <2>2
<1>2. End(s) \in 1 .. Len(s) + 1 /\ \A i \in 1 .. Len(s) : i < End(s) => s[i] # Separator
  <2> DEFINE I == {i \in 1 .. Len(s) : s[i] = Separator}
             least == IF I # {} THEN Min(I) ELSE 0
             first == IF least = 0 THEN Len(s) + 1 ELSE least
  <2>1. End(s) = first
    BY DEF End, FirstIn, SelectInSeq
  <2>2. first \in 1 .. Len(s) + 1 /\ \A i \in I : first <= i
    <3>1. I \in SUBSET (1 .. Len(s)) OBVIOUS
    <3> HIDE DEF I
    <3> QED BY <3>1, FirstPlace
  <2> HIDE DEF first, least
  <2> QED BY <2>1, <2>2
<1> QED BY <1>1, <1>2

\* A `--json` is written out of nothing but itself.
LEMMA SplitsParts ==
  ASSUME NEW a \in Arguments
  PROVE  /\ Splits(a) \in Seq(Arguments)
         /\ \A i \in DOMAIN Splits(a) : Splits(a)[i] = LongOption("json", None) => a = Splits(a)[i]
<1>1. CASE a.kind = "short" /\ Group(a)
  <2>1. Splits(a) = Expansion(a)
    BY <1>1 DEF Splits
  <2> QED BY <1>1, <2>1, ExpansionParts DEF LongOption, Separator
<1>2. CASE ~(a.kind = "short" /\ Group(a))
  BY <1>2 DEF Splits
<1> QED BY <1>1, <1>2

Divided(s) == \E q \in DOMAIN s : s[q] = Separator
\* P, or every `--json` has a separator before it.
Blocked(s, P) ==
  \A j \in DOMAIN s :
    s[j] = LongOption("json", None) => P \/ \E q \in DOMAIN s : q < j /\ s[q] = Separator

LEMMA BlockedJoin ==
  ASSUME NEW a \in Seq(Arguments), NEW b \in Seq(Arguments), NEW P \in BOOLEAN,
         Blocked(a, P), Divided(a) \/ Blocked(b, P)
  PROVE  Blocked(a \o b, P)
<1> DEFINE c == a \o b
<1>1. c = a \o b OBVIOUS
<1> HIDE DEF c
<1> SUFFICES ASSUME NEW j \in DOMAIN c, c[j] = LongOption("json", None), ~P
             PROVE  \E q \in DOMAIN c : q < j /\ c[q] = Separator
  BY <1>1 DEF Blocked
<1>2. CASE j \in DOMAIN a /\ c[j] = a[j]
  <2>1. PICK q \in DOMAIN a : q < j /\ a[q] = Separator
    BY <1>2 DEF Blocked
  <2> QED BY <1>1, <2>1, Joins
<1>3. ASSUME j > Len(a), NEW i \in DOMAIN b, j = Len(a) + i, c[j] = b[i]
      PROVE  \E q \in DOMAIN c : q < j /\ c[q] = Separator
  <2>1. CASE Divided(a)
    <3>1. PICK q \in DOMAIN a : a[q] = Separator
      BY <2>1 DEF Divided
    <3>2. q \in 1 .. Len(a) /\ Len(a) \in Nat /\ Len(b) \in Nat /\ i \in 1 .. Len(b)
      BY Joins
    <3>3. q \in DOMAIN c /\ q < j /\ c[q] = Separator
      BY <1>1, <1>3, <3>1, <3>2, Joins
    <3> QED BY <3>3
  <2>2. CASE Blocked(b, P)
    <3>1. PICK q \in DOMAIN b : q < i /\ b[q] = Separator
      BY <1>3, <2>2 DEF Blocked
    <3>2. Len(a) + q \in DOMAIN c /\ c[Len(a) + q] = Separator
      BY <1>1, <3>1, Joins
    <3>3. Len(a) + q < j
      <4>1. q \in Nat /\ i \in Nat /\ Len(a) \in Nat
        BY Joins
      <4> QED BY <1>3, <3>1, <4>1
    <3> QED BY <3>2, <3>3
  <2> QED BY <2>1, <2>2
<1> QED BY <1>1, <1>2, <1>3, Joins

LEMMA JsonAskedAhead ==
  ASSUME argv \in Seq(Arguments), JsonAsked
  PROVE  JsonAhead(argv)
<1> DEFINE Json == LongOption("json", None)
           N == Len(argv)
           last == FirstIn(argv, HasSeparator)
           ss == [i \in DOMAIN argv |-> IF i <= last THEN Splits(argv[i]) ELSE <<argv[i]>>]
           s == FlattenSeq(ss)
           P == JsonAhead(argv)
<1>1. N \in Nat /\ DOMAIN argv = 1 .. N /\ \A i \in 1 .. N : argv[i] \in Arguments
  BY LenProperties
<1>2. /\ last \in 1 .. N + 1 /\ (last <= N => HasSeparator(argv[last]))
      /\ \A i \in 1 .. N : i < last => ~HasSeparator(argv[i])
  BY FirstSeparator
<1>3. s = WrittenOut
  BY DEF WrittenOut
<1>4. ss \in Seq(Seq(Arguments)) /\ Len(ss) = N /\ DOMAIN ss = 1 .. N
  <2>1. \A i \in 1 .. N : (IF i <= last THEN Splits(argv[i]) ELSE <<argv[i]>>) \in Seq(Arguments)
    BY <1>1, SplitsParts
  <2> HIDE DEF last
  <2> QED BY <1>1, <2>1
<1>5. ASSUME NEW n \in 1 .. N
      PROVE  /\ ss[n] \in Seq(Arguments)
             /\ n = last => Divided(ss[n])
             /\ n <= last => Blocked(ss[n], P)
  <2>1. ss[n] \in Seq(Arguments)
    BY <1>4
  <2>2. CASE n > last
    <3>1. n # last /\ ~(n <= last)
      BY <1>2, <2>2
    <3> QED BY <2>1, <3>1
  <2>3. CASE n <= last
    <3>1. ss[n] = Splits(argv[n])
      BY <1>1, <2>3
    <3>2. n = last => Divided(ss[n])
      <4>1. n = last => HasSeparator(argv[n])
        BY <1>1, <1>2
      <4> HIDE DEF last, ss
      <4> QED BY <3>1, <4>1 DEF HasSeparator, Divided
    <3>3. ASSUME NEW q \in DOMAIN ss[n], ss[n][q] = Json PROVE P
      <4>1. argv[n] = Json
        BY <1>1, <3>1, <3>3, SplitsParts
      <4>2. \A j \in 1 .. n - 1 : j \in 1 .. N /\ j < last
        BY <1>1, <1>2, <2>3
      <4> QED BY <1>1, <1>2, <4>1, <4>2 DEF JsonAhead
    <3> HIDE DEF ss
    <3> QED BY <2>1, <3>2, <3>3 DEF Blocked
  <2> QED BY <1>1, <1>2, <2>2, <2>3
<1> HIDE DEF last, ss
<1>6. PICK k \in DOMAIN s : k < End(s) /\ s[k] = Json
  BY <1>3 DEF JsonAsked
<1>7. ss # << >>
  <2> SUFFICES ASSUME ss = << >> PROVE FALSE
    OBVIOUS
  <2>1. s = << >>
    BY DEF FlattenSeq
  <2> QED BY <1>6, <2>1
<1>8. N > 0
  BY <1>1, <1>4, <1>7, EmptySeq
<1>9. PICK f : /\ s = f[N] /\ f[1] = ss[1]
               /\ \A i \in 2 .. N : f[i] = f[i - 1] \o ss[i]
  <2>1. \E f : /\ s = f[Len(ss)] /\ f[1] = ss[1]
               /\ \A i \in 2 .. Len(ss) : f[i] = f[i - 1] \o ss[i]
    BY <1>4, <1>7, Flattened
  <2> QED BY <1>4, <2>1
<1> DEFINE Joined(n) ==
             f[n] \in Seq(Arguments) /\ (n >= last => Divided(f[n])) /\ Blocked(f[n], P)
           J == {n \in Nat : n + 1 <= N => Joined(n + 1)}
<1> P \in BOOLEAN
  BY DEF JsonAhead
<1> HIDE DEF P
<1>10. 0 \in J
  <2>1. Joined(1)
    BY <1>2, <1>5, <1>8, <1>9
  <2> HIDE DEF Joined
  <2> QED BY <2>1
<1>11. ASSUME NEW n \in Nat, n \in J PROVE n + 1 \in J
  <2> SUFFICES ASSUME n + 2 <= N PROVE Joined(n + 2)
    <3> HIDE DEF Joined
    <3> QED OBVIOUS
  <2>1. Joined(n + 1)
    <3> HIDE DEF Joined
    <3> QED BY <1>1, <1>11
  <2>2. n + 2 \in 1 .. N /\ n + 2 \in 2 .. N /\ (n + 2) - 1 = n + 1
    BY <1>1
  <2> DEFINE a == f[n + 1]
             b == ss[n + 2]
  <2>3. f[n + 2] = a \o b
    BY <1>9, <2>2
  <2>4. b \in Seq(Arguments) /\ (n + 2 = last => Divided(b)) /\ (n + 2 <= last => Blocked(b, P))
    BY <1>5, <2>2
  <2>5. a \in Seq(Arguments) /\ (n + 1 >= last => Divided(a)) /\ Blocked(a, P)
    BY <2>1
  <2>6. last \in Nat
    BY <1>1, <1>2
  <2> HIDE DEF a, b
  <2>7. a \o b \in Seq(Arguments) /\ (Divided(a) \/ Divided(b) => Divided(a \o b))
    <3>1. a \o b \in Seq(Arguments)
      BY <2>4, <2>5, Joins
    <3>2. Divided(a) => Divided(a \o b)
      BY <2>4, <2>5, Joins DEF Divided
    <3>3. ASSUME Divided(b) PROVE Divided(a \o b)
      <4>1. PICK q \in DOMAIN b : b[q] = Separator
        BY <3>3 DEF Divided
      <4>2. Len(a) + q \in DOMAIN (a \o b) /\ (a \o b)[Len(a) + q] = Separator
        BY <2>4, <2>5, <4>1, Joins
      <4> QED BY <4>2 DEF Divided
    <3> QED BY <3>1, <3>2, <3>3
  <2>8. n + 2 >= last => Divided(a \o b)
    BY <2>4, <2>5, <2>6, <2>7
  <2>9. Blocked(a \o b, P)
    <3>1. Divided(a) \/ Blocked(b, P)
      BY <2>4, <2>5, <2>6
    <3> QED BY <2>4, <2>5, <3>1, BlockedJoin
  <2> QED BY <2>3, <2>7, <2>8, <2>9
<1>12. Joined(N)
  <2>1. \A n \in Nat : n \in J
    <3> HIDE DEF J
    <3> QED BY <1>10, <1>11, SetInduction
  <2>2. N - 1 \in Nat /\ (N - 1) + 1 = N
    BY <1>1, <1>8
  <2> HIDE DEF Joined
  <2> QED BY <2>1, <2>2
<1>13. s \in Seq(Arguments) /\ Blocked(s, P)
  BY <1>9, <1>12
<1> HIDE DEF s
<1>14. Len(s) \in Nat /\ DOMAIN s = 1 .. Len(s) /\ End(s) \in 1 .. Len(s) + 1
       /\ \A i \in 1 .. Len(s) : i < End(s) => s[i] # Separator
  BY <1>13, LenProperties, FirstSeparator
<1>15. \A q \in DOMAIN s : q < k => s[q] # Separator
  <2>1. \A q \in DOMAIN s : q < k => q < End(s)
    BY <1>6, <1>14
  <2> QED BY <1>14, <2>1
<1> QED BY <1>6, <1>13, <1>15 DEF Blocked, P

\* What comes of it is seen before the options are read.
LEMMA JsonAheadWanted ==
  ASSUME JsonAhead(argv)
  PROVE  WantJson
BY PlainSplits DEF JsonAhead, WantJson

-----------------------------------------------------------------------------
(* The run.                                                                *)

\* What the arguments and the world come to does not change under way.
LEMMA Settled ==
  ASSUME UNCHANGED <<parsing, world>>
  PROVE  /\ Informs' = Informs /\ Misused' = Misused /\ Fit' = Fit
         /\ Named' = Named /\ Tested' = Tested /\ WantJson' = WantJson
         /\ FilesNamed' = FilesNamed /\ TextsNamed' = TextsNamed
         /\ \A n : FilesRead(n)' = FilesRead(n)
         /\ \A i : FileSample(i)' = FileSample(i) /\ Due(i)' = Due(i)
         /\ ArgTypes' = ArgTypes /\ JsonComes' = JsonComes /\ JsonAsked' = JsonAsked
<1>1. /\ argv' = argv /\ pending' = pending /\ optionsDone' = optionsDone /\ flags' = flags
      /\ texts' = texts /\ positionals' = positionals /\ parse' = parse /\ world' = world
  BY DEF parsing
<1>2. Informs' = Informs
  BY <1>1 DEF Informs
<1>3. Misused' = Misused
  BY <1>1 DEF Misused, From, FileOf
<1>4. Fit' = Fit
  BY <1>1 DEF Fit, From, FileOf, Informs
<1>5. FilesNamed' = FilesNamed /\ TextsNamed' = TextsNamed
  BY <1>1 DEF FilesNamed, TextsNamed, FileSample, FileOf
<1>6. Named' = Named
  BY <1>1 DEF Named, FileOf
<1>7. Tested' = Tested
  BY <1>1, <1>6 DEF Tested
<1>8. WantJson' = WantJson
  BY <1>1 DEF WantJson
<1>9. \A n : FilesRead(n)' = FilesRead(n)
  BY <1>1 DEF FilesRead, FileOf
<1>10. \A i : FileSample(i)' = FileSample(i)
  BY <1>1 DEF FileSample, FileOf
<1>11. \A i : Due(i)' = Due(i)
  BY <1>1, <1>7 DEF Due
<1>12. ArgTypes' = ArgTypes /\ JsonComes' = JsonComes /\ JsonAsked' = JsonAsked
  <2>1. ArgTypes' = ArgTypes BY <1>1 DEF ArgTypes
  <2>2. JsonComes' = JsonComes BY <1>1 DEF JsonComes
  <2>3. JsonAsked' = JsonAsked BY <1>1 DEF JsonAsked, WrittenOut
  <2> QED BY <2>1, <2>2, <2>3
<1> QED BY <1>2, <1>3, <1>4, <1>5, <1>6, <1>7, <1>8, <1>9, <1>10, <1>11, <1>12

LEMMA InitCInv == Init => CInv
<1> SUFFICES ASSUME Init PROVE CInv
  OBVIOUS
<1> USE DEF Init, ArgInit
<1>1. argv \in Seq(Arguments)
  BY ArgvsAssumption DEF WellFormed
<1>2. ArgTypes
  <2>1. << >> \in Seq(Values) /\ << >> \in Seq(Arguments)
    BY EmptySeq
  <2>2. pending \in Seq(Arguments) /\ flags \subseteq Booleans /\ optionsDone \in BOOLEAN
    BY <1>1
  <2> QED BY <1>1, <2>1, <2>2 DEF ArgTypes
<1>3. JsonComes
  BY DEF JsonComes
<1>4. world \in World
  BY WorldsAssumption
<1>5. RunInv
  BY <1>4 DEF RunInv, Phases, AtArgs, AtFiles, StdinWhole, AtStdin, AtStrip, Collected, Reported,
              ExitExact, ReportExact
<1> QED BY <1>2, <1>3, <1>5 DEF CInv

LEMMA FilesTyped ==
  ASSUME ArgTypes, world \in World
  PROVE  /\ \A a \in Arguments : FileOf(a) \in Texts \cup {Unreadable}
         /\ \A i \in 1 .. Len(positionals) - 1 : FileSample(i) \in Samples
<1>1. ASSUME NEW a \in Arguments PROVE FileOf(a) \in Texts \cup {Unreadable}
  BY DEF FileOf, World, Arguments
<1>2. ASSUME NEW i \in 1 .. Len(positionals) - 1 PROVE FileSample(i) \in Samples
  <2>1. positionals[i + 1] \in Arguments
    BY LenProperties DEF ArgTypes
  <2> QED BY <1>1, <2>1 DEF FileSample, SampleFrom, Samples
<1> QED BY <1>1, <1>2

LEMMA NamedTyped ==
  ASSUME ArgTypes, world \in World, positionals # << >>
  PROVE  /\ FilesNamed \in Seq(Samples) /\ Len(FilesNamed) = Len(positionals) - 1
         /\ TextsNamed \in Seq(Samples)
         /\ FilesNamed \o TextsNamed \in Seq(Samples)
         /\ Named \in Seq(Samples)
         /\ Named = IF "stdin" \in flags
                    THEN Append(FilesNamed \o TextsNamed, SampleFrom("stdin", world.stdin))
                    ELSE FilesNamed \o TextsNamed
<1>1. Len(positionals) - 1 \in Nat
  BY LenProperties, EmptySeq DEF ArgTypes
<1>2. FilesNamed \in Seq(Samples) /\ Len(FilesNamed) = Len(positionals) - 1
  BY <1>1, FilesTyped DEF FilesNamed
<1>3. TextsNamed \in Seq(Samples)
  <2>1. DOMAIN texts = 1 .. Len(texts) /\ Len(texts) \in Nat
    BY LenProperties DEF ArgTypes
  <2>2. \A i \in DOMAIN texts : SampleFrom("text", TextOf(texts[i])) \in Samples
    BY WorldsAssumption DEF SampleFrom, Samples, TextOf, Other
  <2> QED BY <2>1, <2>2 DEF TextsNamed
<1> DEFINE both == FilesNamed \o TextsNamed
           last == SampleFrom("stdin", world.stdin)
<1>4. both \in Seq(Samples)
  BY <1>2, <1>3, ConcatProperties
<1>5. last \in Samples
  BY DEF World, SampleFrom, Samples
<1>6. Named = both \o (IF "stdin" \in flags THEN <<last>> ELSE << >>)
  BY DEF Named, FilesNamed, TextsNamed, FileSample
<1> HIDE DEF both, last
<1>7. both \o << >> = both /\ both \o <<last>> = Append(both, last)
  BY <1>4, <1>5, ConcatEmptySeq, AppendIsConcat
<1>8. Append(both, last) \in Seq(Samples)
  BY <1>4, <1>5, AppendProperties
<1> QED BY <1>2, <1>3, <1>4, <1>6, <1>7, <1>8 DEF both, last

LEMMA TestedTyped ==
  ASSUME ArgTypes, world \in World, positionals # << >>
  PROVE  /\ Tested \in Seq({Tested[i] : i \in DOMAIN Tested})
         /\ Len(Tested) \in Nat /\ DOMAIN Tested = 1 .. Len(Tested)
<1>1. DOMAIN Named = 1 .. Len(Named) /\ Len(Named) \in Nat
  BY NamedTyped, LenProperties
<1>2. Tested = [i \in 1 .. Len(Named) |-> Tested[i]]
  BY <1>1 DEF Tested
<1>3. DOMAIN Tested = 1 .. Len(Named)
  BY <1>1 DEF Tested
<1>4. Tested \in Seq({Tested[i] : i \in DOMAIN Tested})
  BY <1>1, <1>2, <1>3
<1> QED BY <1>3, <1>4, LenProperties

-----------------------------------------------------------------------------
(* The ways a run ends.                                                    *)

Outcome ==
  IF Informs THEN 0
  ELSE IF Misused THEN 3
  ELSE IF ~world.compiles THEN 2
  ELSE IF \E i \in DOMAIN Tested : Tested[i].text \notin world.accepts THEN 1
  ELSE 0

Faithful(code) ==
  IF Informs \/ code \in {2, 3} THEN reports = << >>
  ELSE Len(reports) = Len(Tested) /\ \A i \in DOMAIN reports : reports[i] = Due(i)

LEMMA Ended ==
  ASSUME CInv, NEW code, NEW out, NEW err, Ends(code, out, err),
         code = Outcome, Faithful(code)
  PROVE  CInv'
<1>1. UNCHANGED <<parsing, world, wantJson, samples, reports>> /\ phase' = "done" /\ exit' = code
  BY DEF Ends
<1>2. Misused' = Misused /\ Informs' = Informs /\ Tested' = Tested /\ WantJson' = WantJson
      /\ ArgTypes' = ArgTypes /\ JsonComes' = JsonComes /\ (\A i : Due(i)' = Due(i))
  BY <1>1, Settled
<1>3. ExitExact'
  BY <1>1, <1>2 DEF ExitExact, Outcome
<1>4. ReportExact'
  <2>1. IF Informs' \/ exit' \in {2, 3} THEN reports' = << >>
        ELSE Len(reports') = Len(Tested') /\ \A i \in DOMAIN reports' : reports'[i] = Due(i)'
    BY <1>1, <1>2 DEF Faithful
  <2> QED BY <2>1 DEF ReportExact, Due
<1>5. RunInv'
  BY <1>1, <1>2, <1>3, <1>4
     DEF CInv, RunInv, Phases, AtArgs, AtFiles, StdinWhole, AtStdin, AtStrip, Collected, Reported
<1> QED BY <1>2, <1>5 DEF CInv

\* A refusal of the arguments or of an input.
LEMMA UsageEnds ==
  ASSUME CInv, UsageFail, Misused, ~Informs, phase # "done", phase # "check"
  PROVE  CInv'
<1>1. Outcome = 3 /\ reports = << >>
  BY DEF Outcome, CInv, RunInv, Reported
<1> QED BY <1>1, Ended DEF UsageFail, Faithful

LEMMA RefusalsKeep ==
  ASSUME CInv,
         \/ ArgsRefused \/ QuietAndJson \/ NoGrammar \/ StdinTwice
         \/ GrammarUnreadable \/ FileUnreadable \/ StdinUnreadable
  PROVE  CInv'
<1> USE DEF CInv, RunInv
<1>1. ASSUME ArgsRefused PROVE CInv'
  BY <1>1, UsageEnds DEF ArgsRefused, Misused, Informs, Errors
<1>2. ASSUME QuietAndJson PROVE CInv'
  BY <1>2, UsageEnds DEF QuietAndJson, Proceeds, Misused, Informs
<1>3. ASSUME NoGrammar PROVE CInv'
  BY <1>3, UsageEnds DEF NoGrammar, Loud, Proceeds, Misused, Informs
<1>4. ASSUME StdinTwice PROVE CInv'
  BY <1>4, UsageEnds DEF StdinTwice, Loud, Proceeds, Misused, Informs
<1>5. ASSUME GrammarUnreadable PROVE CInv'
  <2>1. From(positionals[1]) = Unreadable /\ ~Informs /\ phase = "args"
    BY <1>5 DEF GrammarUnreadable, GrammarAsked, GrammarIs, Loud, Proceeds, From, AtArgs, Informs
  <2> QED BY <1>5, <2>1, UsageEnds DEF GrammarUnreadable, Misused
<1>6. ASSUME FileUnreadable PROVE CInv'
  <2>1. Len(samples) \in Nat /\ Len(positionals) \in Nat /\ phase = "files" /\ ~Informs
        /\ Len(samples) + 1 < Len(positionals) /\ FileOf(NextFile) = Unreadable
    BY <1>6, LenProperties DEF FileUnreadable, FilesLeft, AtFiles, Fit, ArgTypes
  <2>2. Len(samples) + 2 \in 2 .. Len(positionals)
    BY <2>1
  <2>3. Misused
    BY <2>1, <2>2 DEF Misused, NextFile
  <2> QED BY <1>6, <2>1, <2>3, UsageEnds DEF FileUnreadable
<1>7. ASSUME StdinUnreadable PROVE CInv'
  <2>1. Misused /\ ~Informs
    BY <1>7 DEF StdinUnreadable, AtStdin, StdinWhole, Misused, Fit
  <2> QED BY <1>7, <2>1, UsageEnds DEF StdinUnreadable
<1> QED BY <1>1, <1>2, <1>3, <1>4, <1>5, <1>6, <1>7

LEMMA AnswersKeep ==
  ASSUME CInv, Help \/ Version \/ Refused \/ Report
  PROVE  CInv'
<1> USE DEF CInv, RunInv
<1>1. ASSUME Help \/ Version PROVE CInv'
  <2>1. Informs /\ phase = "args"
    BY <1>1 DEF Help, Version, Asked, Informs
  <2>2. Outcome = 0 /\ Faithful(0)
    BY <2>1 DEF Outcome, Faithful, Reported
  <2> QED BY <1>1, <2>2, Ended DEF Help, Version
<1>2. ASSUME Refused PROVE CInv'
  <2>1. Outcome = 2 /\ Faithful(2)
    BY <1>2 DEF Refused, Collected, Fit, Outcome, Faithful, Reported
  <2> QED BY <1>2, <2>1, Ended DEF Refused
<1>3. ASSUME Report PROVE CInv'
  <2> DEFINE code == IF \E i \in DOMAIN reports : ~reports[i].ok THEN 1 ELSE 0
  <2>1. /\ phase = "check" /\ Ends(code, Form, FALSE) /\ ~(Len(reports) < Len(samples))
        /\ Len(reports) <= Len(samples) /\ reports \in Seq({Due(i) : i \in Nat})
        /\ \A i \in DOMAIN reports : reports[i] = Due(i)
        /\ ~Misused /\ ~Informs /\ world.compiles /\ samples = Tested /\ positionals # << >>
    BY <1>3 DEF Report, SamplesLeft, Collected, Reported, Fit
  <2>2. Len(reports) \in Nat /\ Len(Tested) \in Nat /\ DOMAIN Tested = 1 .. Len(Tested)
        /\ DOMAIN reports = 1 .. Len(reports)
    BY <2>1, TestedTyped, LenProperties
  <2>3. Len(reports) = Len(Tested)
    <3>1. ~(Len(reports) < Len(Tested)) /\ Len(reports) <= Len(Tested)
      BY <2>1
    <3>2. Len(reports) \in Nat /\ Len(Tested) \in Nat
      BY <2>2
    <3> DEFINE r == Len(reports)
               t == Len(Tested)
    <3> HIDE DEF r, t
    <3>3. r \in Nat /\ t \in Nat /\ ~(r < t) /\ r <= t
      BY <3>1, <3>2 DEF r, t
    <3>4. r = t
      BY <3>3
    <3> QED BY <3>4 DEF r, t
  <2>4. \A i \in DOMAIN Tested : reports[i].ok <=> Tested[i].text \in world.accepts
    <3>1. \A i : Due(i).ok <=> Tested[i].text \in world.accepts
      BY DEF Due, Verdict
    <3> QED BY <2>1, <2>2, <2>3, <3>1
  <2>5. code = Outcome
    BY <2>1, <2>2, <2>3, <2>4 DEF Outcome
  <2>6. Faithful(code)
    BY <2>1, <2>3 DEF Faithful
  <2> QED BY <2>1, <2>5, <2>6, Ended
<1> QED BY <1>1, <1>2, <1>3

-----------------------------------------------------------------------------
(* The ways a run goes on.                                                 *)

LEMMA ReadGrammarKeeps == CInv /\ ReadGrammar => CInv'
<1> SUFFICES ASSUME CInv, ReadGrammar PROVE CInv'
  OBVIOUS
<1> USE DEF CInv, RunInv
<1>1. /\ phase = "args" /\ phase' = "files" /\ UNCHANGED <<parsing, world, wantJson>>
      /\ samples' = << >> /\ reports' = << >>
      /\ stdin' = IF positionals[1] = Dash THEN Empty ELSE world.stdin
  BY DEF ReadGrammar, GrammarAsked, Loud, Proceeds, Goes, AtArgs, Reported
<1>2. Fit
  BY DEF ReadGrammar, GrammarAsked, GrammarIs, Loud, Proceeds, AtArgs, Fit, Informs, From
<1>3. Fit' /\ ArgTypes' /\ JsonComes' /\ world' \in World /\ wantJson' = WantJson'
  BY <1>1, <1>2, Settled
<1>4. AtFiles'
  <2>1. Len(positionals) \in Nat \ {0}
    BY <1>2, LenProperties, EmptySeq DEF Fit, ArgTypes
  <2>2. << >> \in Seq(Samples) /\ Len(<< >>) = 0 /\ positionals' = positionals
    BY <1>1, EmptySeq DEF parsing
  <2> QED BY <1>1, <2>1, <2>2 DEF AtFiles, FilesRead
<1>5. StdinWhole'
  BY <1>1, <1>2 DEF StdinWhole, Fit, parsing
<1> QED BY <1>1, <1>3, <1>4, <1>5
        DEF Phases, AtArgs, AtStdin, AtStrip, Collected, Reported, ExitExact, ReportExact

LEMMA ReadFileKeeps == CInv /\ ReadFile => CInv'
<1> SUFFICES ASSUME CInv, ReadFile PROVE CInv'
  OBVIOUS
<1> USE DEF CInv, RunInv
<1>1. /\ phase = "files" /\ phase' = "files" /\ UNCHANGED <<parsing, world, wantJson>>
      /\ stdin' = stdin /\ reports' = reports
      /\ Len(samples) + 1 < Len(positionals) /\ FileOf(NextFile) # Unreadable
      /\ samples' = Append(samples, SampleFrom("file", FileOf(NextFile)))
  BY DEF ReadFile, FilesLeft, Goes
<1>2. Fit /\ samples \in Seq(Samples) /\ Len(samples) \in Nat /\ Len(positionals) \in Nat
      /\ FilesRead(Len(samples)) /\ \A i \in DOMAIN samples : samples[i] = FileSample(i)
  BY <1>1, LenProperties DEF AtFiles, ArgTypes
<1>3. Fit' /\ ArgTypes' /\ JsonComes' /\ world' \in World /\ wantJson' = WantJson'
  BY <1>1, <1>2, Settled
<1> DEFINE n == Len(samples)
<1>4. n + 1 \in 1 .. Len(positionals) - 1 /\ n + 1 <= Len(positionals) - 1
  BY <1>1, <1>2
<1>5. SampleFrom("file", FileOf(NextFile)) = FileSample(n + 1)
      /\ FileOf(positionals[(n + 1) + 1]) # Unreadable
  <2>1. (n + 1) + 1 = n + 2
    BY <1>2
  <2> QED BY <1>1, <2>1 DEF NextFile, FileSample
<1>6. FileSample(n + 1) \in Samples
  BY <1>4, FilesTyped
<1>7. /\ samples' \in Seq(Samples) /\ Len(samples') = n + 1 /\ DOMAIN samples' = 1 .. n + 1
      /\ \A i \in 1 .. n : samples'[i] = samples[i]
      /\ samples'[n + 1] = FileSample(n + 1)
  <2>1. samples' = Append(samples, FileSample(n + 1))
    BY <1>1, <1>5
  <2>2. Append(samples, FileSample(n + 1)) \in Seq(Samples)
    BY <1>2, <1>6, AppendProperties
  <2> QED BY <1>2, <1>6, <2>1, <2>2, AppendProperties, LenProperties
<1>8. FilesRead(n + 1)
  <2>1. \A i \in 1 .. n + 1 : i \in 1 .. n \/ i = n + 1
    BY <1>2
  <2> QED BY <1>2, <1>5, <2>1 DEF FilesRead
<1>9. \A i \in 1 .. n + 1 : samples'[i] = FileSample(i)
  <2>1. \A i \in 1 .. n + 1 : i \in DOMAIN samples \/ i = n + 1
    BY <1>2, LenProperties
  <2>2. \A i \in DOMAIN samples : i \in 1 .. n
    BY <1>2, LenProperties
  <2> QED BY <1>2, <1>7, <2>1, <2>2
<1>10. AtFiles'
  <2>1. positionals' = positionals
    BY <1>1 DEF parsing
  <2>2. \A i : FileSample(i)' = FileSample(i)
    BY <1>1, Settled
  <2>3. FilesRead(Len(samples))'
    <3>1. \A i \in 1 .. n + 1 : FileOf(positionals[i + 1])' # Unreadable
      BY <1>1, <1>8, <2>1 DEF FilesRead, FileOf
    <3> QED BY <1>7, <3>1 DEF FilesRead
  <2>4. \A i \in DOMAIN samples' : samples'[i] = FileSample(i)'
    BY <1>7, <1>9, <2>2
  <2> QED BY <1>4, <1>7, <2>1, <2>3, <2>4 DEF AtFiles, Samples
<1>11. StdinWhole'
  BY <1>1 DEF StdinWhole, parsing
<1> QED BY <1>1, <1>3, <1>10, <1>11
        DEF Phases, AtArgs, AtStdin, AtStrip, Collected, Reported, ExitExact, ReportExact

LEMMA AllFilesRead ==
  ASSUME CInv, phase = "files", ~FilesLeft
  PROVE  samples = FilesNamed /\ FilesRead(Len(positionals) - 1)
<1>1. /\ samples \in Seq(Samples) /\ Len(samples) <= Len(positionals) - 1
      /\ FilesRead(Len(samples)) /\ \A i \in DOMAIN samples : samples[i] = FileSample(i)
      /\ Fit /\ ArgTypes
  BY DEF CInv, RunInv, AtFiles, Phases
<1>2. Len(samples) \in Nat /\ Len(positionals) \in Nat /\ DOMAIN samples = 1 .. Len(samples)
  BY <1>1, LenProperties DEF ArgTypes
<1>3. Len(samples) = Len(positionals) - 1
  BY <1>1, <1>2 DEF FilesLeft
<1>4. samples = [i \in 1 .. Len(samples) |-> samples[i]]
  BY <1>1, LenProperties
<1> QED BY <1>1, <1>2, <1>3, <1>4 DEF FilesNamed

\* With nothing wrong so far, only a file or standard input could be.
LEMMA FitUsed ==
  ASSUME Fit, ArgTypes, FilesRead(Len(positionals) - 1),
         "stdin" \in flags => world.stdin # Unreadable
  PROVE  ~Misused
<1>1. Len(positionals) \in Nat
  BY LenProperties DEF ArgTypes
<1>2. ASSUME NEW i \in 2 .. Len(positionals) PROVE FileOf(positionals[i]) # Unreadable
  <2>1. i - 1 \in 1 .. Len(positionals) - 1 /\ (i - 1) + 1 = i
    BY <1>1
  <2> QED BY <2>1 DEF FilesRead
<1> QED BY <1>2 DEF Misused, Fit

LEMMA TakeTextsKeeps == CInv /\ TakeTexts => CInv'
<1> SUFFICES ASSUME CInv, TakeTexts PROVE CInv'
  OBVIOUS
<1> USE DEF CInv, RunInv
<1>1. /\ phase = "files" /\ ~FilesLeft /\ UNCHANGED <<parsing, world, wantJson>>
      /\ phase' = IF "stdin" \in flags THEN "stdin" ELSE "strip"
      /\ stdin' = stdin /\ reports' = reports
      /\ samples' = samples \o TextsNamed
  BY DEF TakeTexts, Goes, TextsNamed
<1>2. Fit /\ samples = FilesNamed /\ FilesRead(Len(positionals) - 1)
  BY <1>1, AllFilesRead
<1>3. /\ Fit' /\ ArgTypes' /\ JsonComes' /\ world' \in World /\ wantJson' = WantJson'
      /\ FilesNamed' = FilesNamed /\ TextsNamed' = TextsNamed
      /\ Named' = Named /\ Misused' = Misused
  BY <1>1, <1>2, Settled
<1>4. AtStdin'
  <2>1. positionals' = positionals /\ flags' = flags /\ world' = world
    BY <1>1 DEF parsing
  <2>2. FilesRead(Len(positionals) - 1)'
    BY <1>2, <2>1 DEF FilesRead, FileOf
  <2> QED BY <1>1, <1>2, <1>3, <2>1, <2>2 DEF AtStdin
<1>5. AtStrip'
  <2> SUFFICES ASSUME "stdin" \notin flags PROVE ~Misused /\ samples' = Named
    BY <1>1, <1>3 DEF AtStrip
  <2>1. ~Misused
    BY <1>2, FitUsed
  <2>2. Named = FilesNamed \o TextsNamed
    BY <1>2, NamedTyped DEF Fit
  <2> QED BY <1>1, <1>2, <2>1, <2>2
<1>6. StdinWhole'
  BY <1>1 DEF StdinWhole, parsing
<1> QED BY <1>1, <1>3, <1>4, <1>5, <1>6
        DEF Phases, AtArgs, AtFiles, Collected, Reported, ExitExact, ReportExact

LEMMA ReadStdinKeeps == CInv /\ ReadStdin => CInv'
<1> SUFFICES ASSUME CInv, ReadStdin PROVE CInv'
  OBVIOUS
<1> USE DEF CInv, RunInv
<1>1. /\ phase = "stdin" /\ phase' = "strip" /\ UNCHANGED <<parsing, world, wantJson>>
      /\ stdin # Unreadable /\ reports' = reports
      /\ samples' = Append(samples, SampleFrom("stdin", stdin))
  BY DEF ReadStdin, Goes
<1>2. /\ Fit /\ "stdin" \in flags /\ stdin = world.stdin
      /\ samples = FilesNamed \o TextsNamed /\ FilesRead(Len(positionals) - 1)
  BY <1>1 DEF AtStdin, StdinWhole
<1>3. /\ Fit' /\ ArgTypes' /\ JsonComes' /\ world' \in World /\ wantJson' = WantJson'
      /\ Named' = Named /\ Misused' = Misused
  BY <1>1, <1>2, Settled
<1>4. ~Misused
  BY <1>1, <1>2, FitUsed
<1>5. samples' = Named
  BY <1>1, <1>2, NamedTyped DEF Fit
<1> QED BY <1>1, <1>3, <1>4, <1>5
        DEF Phases, AtArgs, AtFiles, StdinWhole, AtStdin, AtStrip, Collected, Reported,
            ExitExact, ReportExact

LEMMA StripKeeps == CInv /\ Strip => CInv'
<1> SUFFICES ASSUME CInv, Strip PROVE CInv'
  OBVIOUS
<1> USE DEF CInv, RunInv
<1> DEFINE stripped == [i \in DOMAIN samples |-> [samples[i] EXCEPT !.text = StripOne(@)]]
<1>1. /\ phase = "strip" /\ phase' = "compile" /\ UNCHANGED <<parsing, world, wantJson>>
      /\ reports' = reports
      /\ samples' = IF "strip-final-newline" \in flags THEN stripped ELSE samples
  BY DEF Strip, Goes
<1>2. Fit /\ ~Misused /\ samples = Named
  BY <1>1 DEF AtStrip
<1>3. /\ Fit' /\ ArgTypes' /\ JsonComes' /\ world' \in World /\ wantJson' = WantJson'
      /\ Tested' = Tested /\ Misused' = Misused
  BY <1>1, <1>2, Settled
<1>4. samples \in Seq(Samples) /\ DOMAIN samples = 1 .. Len(samples)
  BY <1>2, NamedTyped, LenProperties DEF Fit
<1>5. samples' = Tested
  <2>1. CASE "strip-final-newline" \in flags
    <3>1. ASSUME NEW i \in DOMAIN samples
          PROVE  [samples[i] EXCEPT !.text = StripOne(@)]
                   = IF samples[i].text.newlines > 0
                     THEN [samples[i] EXCEPT !.text = Shorter(@)] ELSE samples[i]
      <4>1. samples[i] \in Samples
        BY <1>4
      <4>2. CASE samples[i].text.newlines > 0
        BY <4>2 DEF StripOne, EndsWithNewline, Shorter
      <4>3. CASE ~(samples[i].text.newlines > 0)
        BY <4>1, <4>3 DEF StripOne, EndsWithNewline, Samples
      <4> QED BY <4>2, <4>3
    <3>2. Tested = [i \in DOMAIN samples |->
                      IF samples[i].text.newlines > 0
                      THEN [samples[i] EXCEPT !.text = Shorter(@)] ELSE samples[i]]
      BY <1>2, <2>1 DEF Tested
    <3>3. stripped = Tested
      BY <3>1, <3>2
    <3> QED BY <1>1, <2>1, <3>3
  <2>2. CASE "strip-final-newline" \notin flags
    <3>1. Tested = [i \in DOMAIN samples |-> samples[i]]
      BY <1>2, <2>2 DEF Tested
    <3>2. samples = [i \in DOMAIN samples |-> samples[i]]
      BY <1>4, LenProperties
    <3> QED BY <1>1, <2>2, <3>1, <3>2
  <2> QED BY <2>1, <2>2
<1> QED BY <1>1, <1>2, <1>3, <1>5
        DEF Phases, AtArgs, AtFiles, StdinWhole, AtStdin, AtStrip, Collected, Reported,
            ExitExact, ReportExact

LEMMA CompileKeeps == CInv /\ Compile => CInv'
<1> SUFFICES ASSUME CInv, Compile PROVE CInv'
  OBVIOUS
<1> USE DEF CInv, RunInv
<1>1. /\ phase = "compile" /\ UNCHANGED <<parsing, world, wantJson, samples, reports>>
      /\ phase' = IF world.compiles THEN "check" ELSE "refused"
  BY DEF Compile, Goes
<1>2. Fit /\ ~Misused /\ samples = Tested /\ reports = << >>
  BY <1>1 DEF Collected, Reported
<1>3. /\ Fit' /\ ArgTypes' /\ JsonComes' /\ world' \in World /\ wantJson' = WantJson'
      /\ Tested' = Tested /\ Misused' = Misused
  BY <1>1, <1>2, Settled
<1>4. Reported'
  <2>1. Len(reports') <= Len(samples') /\ reports' = << >>
    BY <1>1, <1>2, TestedTyped, EmptySeq DEF Fit
  <2>2. << >> \in Seq({Due(i)' : i \in Nat}) /\ DOMAIN << >> = {}
    BY EmptySeq
  <2> QED BY <2>1, <2>2 DEF Reported
<1> QED BY <1>1, <1>2, <1>3, <1>4
        DEF Phases, AtArgs, AtFiles, StdinWhole, AtStdin, AtStrip, Collected,
            ExitExact, ReportExact

LEMMA VerdictKeeps == CInv /\ (Accept \/ Reject) => CInv'
<1> SUFFICES ASSUME CInv, Accept \/ Reject PROVE CInv'
  OBVIOUS
<1> USE DEF CInv, RunInv
<1> DEFINE n == Len(reports)
<1>1. /\ phase = "check" /\ phase' = "check" /\ UNCHANGED <<parsing, world, wantJson, samples>>
      /\ n < Len(samples)
  BY DEF Accept, Reject, SamplesLeft, Goes
<1>2. /\ Fit /\ ~Misused /\ world.compiles /\ samples = Tested
      /\ reports \in Seq({Due(i) : i \in Nat}) /\ \A i \in DOMAIN reports : reports[i] = Due(i)
  BY <1>1 DEF Collected, Reported
<1>3. /\ Fit' /\ ArgTypes' /\ JsonComes' /\ world' \in World /\ wantJson' = WantJson'
      /\ Tested' = Tested /\ Misused' = Misused /\ \A i : Due(i)' = Due(i)
  BY <1>1, <1>2, Settled
<1>4. n \in Nat /\ DOMAIN reports = 1 .. n /\ Len(samples) \in Nat
  BY <1>2, TestedTyped, LenProperties DEF Fit
<1>5. reports' = Append(reports, Due(n + 1))
  <2>1. Sample = Tested[n + 1]
    BY <1>2 DEF Sample
  <2>2. CASE Accept
    BY <2>1, <2>2 DEF Accept, Accepts, Due
  <2>3. CASE Reject
    <3> DEFINE text == Sample.text
               hint == /\ "strip-final-newline" \notin flags
                       /\ EndsWithNewline(text) /\ Accepts(StripOne(text))
               owed == /\ text \notin world.accepts /\ text.newlines > 0
                       /\ "strip-final-newline" \notin flags /\ Shorter(text) \in world.accepts
    <3>1. text \notin world.accepts /\ reports' = Append(reports, Verdict(Sample, FALSE, hint))
      BY <2>3 DEF Reject, Accepts
    <3>2. hint = owed
      BY <3>1 DEF EndsWithNewline, Accepts, StripOne, Shorter
    <3>3. Due(n + 1) = Verdict(Sample, text \in world.accepts, owed)
      BY <2>1 DEF Due
    <3>4. (text \in world.accepts) = FALSE
      BY <3>1
    <3> HIDE DEF hint, owed, text
    <3> QED BY <3>1, <3>2, <3>3, <3>4
  <2> QED BY <2>2, <2>3
<1>6. /\ reports' \in Seq({Due(i) : i \in Nat}) /\ Len(reports') = n + 1
      /\ DOMAIN reports' = 1 .. n + 1 /\ reports'[n + 1] = Due(n + 1)
      /\ \A i \in 1 .. n : reports'[i] = reports[i]
  <2>1. Due(n + 1) \in {Due(i) : i \in Nat}
    BY <1>4
  <2> HIDE DEF n
  <2>2. n = Len(reports)
    BY DEF n
  <2> QED BY <1>2, <1>4, <1>5, <2>1, <2>2, AppendProperties, LenProperties
<1>7. \A i \in DOMAIN reports' : reports'[i] = Due(i)
  <2>1. \A i \in 1 .. n + 1 : i \in 1 .. n \/ i = n + 1
    BY <1>4
  <2> QED BY <1>2, <1>4, <1>6, <2>1
<1>8. Reported'
  <2>1. Len(reports') <= Len(samples')
    BY <1>1, <1>4, <1>6
  <2>2. {Due(i)' : i \in Nat} = {Due(i) : i \in Nat} /\ \A i \in DOMAIN reports' : reports'[i] = Due(i)'
    BY <1>3, <1>7
  <2> QED BY <1>1, <1>6, <2>1, <2>2 DEF Reported
<1> QED BY <1>1, <1>2, <1>3, <1>8
        DEF Phases, AtArgs, AtFiles, StdinWhole, AtStdin, AtStrip, Collected,
            ExitExact, ReportExact

LEMMA ArguingKeeps == CInv /\ Arguing => CInv'
<1> SUFFICES ASSUME CInv, Arguing PROVE CInv'
  OBVIOUS
<1> USE DEF CInv, RunInv
<1>1. phase = "args" /\ ArgStep /\ UNCHANGED running
  BY DEF Arguing
<1>2. ArgTypes' /\ JsonComes'
  BY <1>1, ArgTypesKept, JsonComesKept
<1>3. argv' = argv /\ WantJson' = WantJson
  BY <1>1, ReadsOn DEF WantJson
<1> QED BY <1>1, <1>2, <1>3
        DEF running, Phases, AtArgs, AtFiles, StdinWhole, AtStdin, AtStrip, Collected, Reported,
            ExitExact, ReportExact

-----------------------------------------------------------------------------
(* What is proved of the run.                                              *)

LEMMA CInvariance == Spec => []CInv
<1>1. CInv /\ [Next]_vars => CInv'
  <2> SUFFICES ASSUME CInv, [Next]_vars PROVE CInv'
    OBVIOUS
  <2>1. CASE UNCHANGED vars
    <3>1. UNCHANGED <<parsing, world, wantJson, phase, stdin, samples, reports, exit>>
      BY <2>1 DEF vars, running
    <3>2. /\ Fit' = Fit /\ ArgTypes' = ArgTypes /\ JsonComes' = JsonComes
          /\ Misused' = Misused /\ Informs' = Informs /\ Named' = Named /\ Tested' = Tested
          /\ WantJson' = WantJson /\ FilesNamed' = FilesNamed /\ TextsNamed' = TextsNamed
          /\ (\A i : Due(i)' = Due(i)) /\ \A i : FileSample(i)' = FileSample(i)
      BY <3>1, Settled
    <3>3. /\ positionals' = positionals /\ flags' = flags
      BY <3>1 DEF parsing
    <3>4. AtArgs' /\ AtFiles' /\ StdinWhole' /\ AtStdin' /\ AtStrip' /\ Collected'
      BY <3>1, <3>2, <3>3 DEF CInv, RunInv, AtArgs, AtFiles, StdinWhole, AtStdin, AtStrip,
         Collected, FilesRead, FileOf
    <3>5. Reported'
      <4>1. {Due(i)' : i \in Nat} = {Due(i) : i \in Nat}
        BY <3>2
      <4> QED BY <3>1, <3>2, <4>1 DEF CInv, RunInv, Reported
    <3>6. ExitExact' /\ ReportExact'
      <4>1. ExitExact'
        BY <3>1, <3>2 DEF CInv, RunInv, ExitExact
      <4>2. phase = "done" =>
              IF Informs \/ exit \in {2, 3} THEN reports = << >>
              ELSE Len(reports) = Len(Tested) /\ \A i \in DOMAIN reports : reports[i] = Due(i)
        BY DEF CInv, RunInv, ReportExact, Due
      <4>3. phase' = "done" =>
              IF Informs' \/ exit' \in {2, 3} THEN reports' = << >>
              ELSE Len(reports') = Len(Tested') /\ \A i \in DOMAIN reports' : reports'[i] = Due(i)'
        BY <3>1, <3>2, <4>2
      <4>4. ReportExact'
        BY <4>3 DEF ReportExact, Due
      <4> QED BY <4>1, <4>4
    <3> QED BY <3>1, <3>2, <3>4, <3>5, <3>6 DEF CInv, RunInv
  <2>2. CASE Arguing BY <2>2, ArguingKeeps
  <2>3. CASE ArgsRefused \/ QuietAndJson \/ NoGrammar \/ StdinTwice
             \/ GrammarUnreadable \/ FileUnreadable \/ StdinUnreadable
    BY <2>3, RefusalsKeep
  <2>4. CASE Help \/ Version \/ Refused \/ Report BY <2>4, AnswersKeep
  <2>5. CASE ReadGrammar BY <2>5, ReadGrammarKeeps
  <2>6. CASE ReadFile BY <2>6, ReadFileKeeps
  <2>7. CASE TakeTexts BY <2>7, TakeTextsKeeps
  <2>8. CASE ReadStdin BY <2>8, ReadStdinKeeps
  <2>9. CASE Strip BY <2>9, StripKeeps
  <2>10. CASE Compile BY <2>10, CompileKeeps
  <2>11. CASE Accept \/ Reject BY <2>11, VerdictKeeps
  <2>12. CASE Done BY <2>1, <2>12 DEF Done
  <2> QED BY <2>1, <2>2, <2>3, <2>4, <2>5, <2>6, <2>7, <2>8, <2>9, <2>10, <2>11, <2>12 DEF Next
<1> QED BY <1>1, InitCInv, PTL DEF Spec

\* The exit code is the one the usage text names, whatever the arguments and
\* the world: an input that is wrong comes before the grammar, the grammar
\* before the samples.
THEOREM ExitsAsDocumented == Spec => []ExitExact
<1>1. CInv => ExitExact
  BY DEF CInv, RunInv
<1> QED BY <1>1, CInvariance, PTL

\* The report is of the samples named, in their order and as they were tested,
\* and gives each its verdict and hint.
THEOREM ReportsInFull == Spec => []ReportExact
<1>1. CInv => ReportExact
  BY DEF CInv, RunInv
<1> QED BY <1>1, CInvariance, PTL

\* Before anything is written there is nothing to keep; what is written last
\* is JSON, because the option was seen before the reading and because the
\* reading, if it ended well, read it.
LEMMA JsonStep == CInv /\ JsonKept /\ [Next]_vars => JsonKept'
<1> SUFFICES ASSUME CInv, JsonKept, [Next]_vars, phase' = "done", JsonAsked', ~Informs'
             PROVE  stdout' = "json" /\ ~stderr'
  BY DEF JsonKept
<1>1. CASE phase = "done" /\ UNCHANGED vars
  <2>1. UNCHANGED <<parsing, world, stdout, stderr>>
    BY <1>1 DEF vars, running
  <2>2. JsonAsked' = JsonAsked /\ Informs' = Informs
    BY <2>1, Settled
  <2> QED BY <1>1, <2>1, <2>2 DEF JsonKept
<1>2. ASSUME NEW code, NEW out, NEW err, Ends(code, out, err)
      PROVE  /\ wantJson /\ ~Informs /\ (parse = "parsed" => "json" \in flags)
             /\ stdout' = out /\ stderr' = err
  <2>1. UNCHANGED <<parsing, world>> /\ stdout' = out /\ stderr' = err
    BY <1>2 DEF Ends
  <2>2. JsonAsked /\ ~Informs
    <3>1. JsonAsked' = JsonAsked /\ Informs' = Informs
      BY <2>1, Settled
    <3> QED BY <3>1
  <2>3. JsonAhead(argv)
    BY <2>2, JsonAskedAhead DEF CInv, ArgTypes
  <2>4. wantJson /\ (parse = "parsed" => "json" \in flags)
    BY <2>3, JsonAheadWanted DEF CInv, RunInv, JsonComes, Errors
  <2> QED BY <2>1, <2>2, <2>4
<1>3. CASE UsageFail
  BY <1>2, <1>3 DEF UsageFail
<1>4. CASE Help \/ Version
  <2>1. Informs
    BY <1>4 DEF Help, Version, Asked, Informs
  <2> QED BY <1>2, <1>4, <2>1 DEF Help, Version
<1>5. CASE Refused \/ Report
  <2>1. parse = "parsed"
    BY <1>5 DEF Refused, Report, SamplesLeft, CInv, RunInv, Fit
  <2>2. Form = "json"
    BY <1>2, <1>5, <2>1 DEF Refused, Report, Form
  <2> QED BY <1>2, <1>5, <2>2 DEF Refused, Report
<1>6. CASE phase # "done" /\ phase' = phase
  BY <1>6
<1>7. ASSUME NEW next, Goes(next), next # "done" PROVE FALSE
  BY <1>7 DEF Goes
<1> QED
  <2>1. CASE Arguing BY <1>6, <2>1 DEF Arguing, running
  <2>2. CASE ArgsRefused \/ QuietAndJson \/ NoGrammar \/ StdinTwice
             \/ GrammarUnreadable \/ FileUnreadable \/ StdinUnreadable
    BY <1>3, <2>2 DEF ArgsRefused, QuietAndJson, NoGrammar, StdinTwice, GrammarUnreadable,
       FileUnreadable, StdinUnreadable
  <2>3. CASE ReadGrammar \/ ReadFile \/ TakeTexts \/ ReadStdin \/ Strip \/ Compile \/ Accept \/ Reject
    BY <1>7, <2>3 DEF ReadGrammar, ReadFile, TakeTexts, ReadStdin, Strip, Compile, Accept, Reject
  <2>4. CASE Done BY <1>1, <2>4 DEF Done
  <2>5. CASE UNCHANGED vars
    BY <1>1, <1>6, <2>5 DEF vars, running
  <2> QED BY <1>4, <1>5, <2>1, <2>2, <2>3, <2>4, <2>5 DEF Next

\* Whoever writes `--json` where it is an option gets one document and no
\* prose, however the run ends.
THEOREM JsonAlways == Spec => []JsonKept
<1>1. Init => JsonKept
  BY DEF Init, JsonKept
<1> QED BY <1>1, JsonStep, CInvariance, PTL DEF Spec


-----------------------------------------------------------------------------
(* How the vector is written out: w[n] parts come of its first n           *)
(* arguments.                                                              *)

LastSplit == FirstIn(argv, HasSeparator)
Block(n) == IF n <= LastSplit THEN Splits(argv[n]) ELSE <<argv[n]>>

Laid(a, s, block, w) ==
  /\ w \in [0 .. Len(a) -> Nat] /\ w[0] = 0 /\ w[Len(a)] = Len(s)
  /\ \A n \in 1 .. Len(a) :
       /\ w[n] = w[n - 1] + Len(block[n])
       /\ \A j \in 1 .. Len(block[n]) : s[w[n - 1] + j] = block[n][j]

LEMMA FlatLaid ==
  ASSUME NEW T, NEW ss \in Seq(Seq(T))
  PROVE  /\ FlattenSeq(ss) \in Seq(T)
         /\ \E w : Laid(ss, FlattenSeq(ss), ss, w)
<1> DEFINE N == Len(ss)
           s == FlattenSeq(ss)
<1>1. N \in Nat /\ DOMAIN ss = 1 .. N /\ \A n \in 1 .. N : ss[n] \in Seq(T)
  BY LenProperties
<1>2. CASE ss = << >>
  <2>1. s = << >> /\ N = 0
    BY <1>2 DEF FlattenSeq
  <2> DEFINE w == [n \in 0 .. 0 |-> 0]
  <2>2. Laid(ss, s, ss, w)
    BY <2>1, <1>2 DEF Laid
  <2> QED BY <2>1, <2>2
<1>3. CASE ss # << >>
  <2>1. N > 0
    BY <1>1, <1>3, EmptySeq
  <2>2. PICK f : /\ s = f[N] /\ f[1] = ss[1]
                 /\ \A i \in 2 .. N : f[i] = f[i - 1] \o ss[i]
    BY <1>3, Flattened
  <2> HIDE DEF s
  <2> DEFINE J == {n \in Nat : n + 1 <= N => f[n + 1] \in Seq(T)}
  <2>3. \A n \in Nat : n \in J
    <3>1. 0 \in J
      BY <1>1, <2>1, <2>2
    <3>2. ASSUME NEW n \in Nat, n \in J PROVE n + 1 \in J
      <4> SUFFICES ASSUME n + 2 <= N PROVE f[n + 2] \in Seq(T)
        OBVIOUS
      <4>1. f[n + 1] \in Seq(T) /\ ss[n + 2] \in Seq(T) /\ f[n + 2] = f[n + 1] \o ss[n + 2]
        <5>1. n + 2 \in 1 .. N /\ n + 2 \in 2 .. N /\ (n + 2) - 1 = n + 1 /\ n + 1 <= N
          BY <1>1
        <5> QED BY <1>1, <2>2, <3>2, <5>1
      <4> QED BY <4>1, ConcatProperties
    <3> HIDE DEF J
    <3> QED BY <3>1, <3>2, SetInduction
  <2>4. \A n \in 1 .. N : f[n] \in Seq(T)
    <3> TAKE n \in 1 .. N
    <3>1. n - 1 \in Nat /\ (n - 1) + 1 = n /\ n <= N
      BY <1>1
    <3> QED BY <2>3, <3>1
  <2> DEFINE w == [n \in 0 .. N |-> IF n = 0 THEN 0 ELSE Len(f[n])]
  <2>5. w \in [0 .. N -> Nat] /\ w[0] = 0 /\ w[N] = Len(s)
    BY <1>1, <2>1, <2>2, <2>4, LenProperties
  <2>6. ASSUME NEW n \in 1 .. N
        PROVE  /\ w[n] = w[n - 1] + Len(ss[n])
               /\ \A j \in 1 .. Len(ss[n]) : f[n][w[n - 1] + j] = ss[n][j]
    <3>1. CASE n = 1
      <4>1. w[0] = 0 /\ w[1] = Len(f[1]) /\ Len(ss[1]) \in Nat
        BY <1>1, <2>1, LenProperties
      <4> HIDE DEF w
      <4> QED BY <2>2, <3>1, <4>1
    <3>2. CASE n # 1
      <4>1. n \in 2 .. N /\ n - 1 \in 1 .. N /\ n - 1 # 0 /\ n - 1 \in 0 .. N
        BY <3>2, <1>1
      <4>2. f[n] = f[n - 1] \o ss[n] /\ f[n - 1] \in Seq(T) /\ ss[n] \in Seq(T)
        BY <1>1, <2>2, <2>4, <4>1
      <4>3. w[n] = Len(f[n]) /\ w[n - 1] = Len(f[n - 1])
        BY <4>1
      <4> HIDE DEF w
      <4>4. Len(f[n]) = Len(f[n - 1]) + Len(ss[n])
            /\ \A j \in DOMAIN ss[n] : f[n][Len(f[n - 1]) + j] = ss[n][j]
        <5> DEFINE a == f[n - 1]
                   b == ss[n]
        <5>1. a \in Seq(T) /\ b \in Seq(T) /\ f[n] = a \o b
          BY <4>2
        <5> HIDE DEF a, b
        <5>2. Len(a \o b) = Len(a) + Len(b) /\ \A j \in DOMAIN b : (a \o b)[Len(a) + j] = b[j]
          BY <5>1, Joins, SMTT(20)
        <5>3. Len(f[n]) = Len(a) + Len(b) /\ \A j \in DOMAIN b : f[n][Len(a) + j] = b[j]
          BY <5>1, <5>2
        <5> QED BY <5>3 DEF a, b
      <4> QED BY <4>2, <4>3, <4>4, LenProperties
    <3> QED BY <3>1, <3>2
  <2>7. ASSUME NEW n \in 1 .. N, NEW i \in 1 .. Len(f[n])
        PROVE  s[i] = f[n][i]
    <3> DEFINE K == {k \in Nat : n + k <= N => i \in 1 .. Len(f[n + k]) /\ f[n + k][i] = f[n][i]}
    <3>1. 0 \in K
      OBVIOUS
    <3>2. ASSUME NEW k \in Nat, k \in K PROVE k + 1 \in K
      <4> SUFFICES ASSUME n + (k + 1) <= N
                   PROVE  i \in 1 .. Len(f[n + (k + 1)]) /\ f[n + (k + 1)][i] = f[n][i]
        OBVIOUS
      <4>1. /\ n + k \in 1 .. N /\ n + (k + 1) \in 2 .. N /\ (n + (k + 1)) - 1 = n + k
            /\ n + (k + 1) \in 1 .. N
        BY <1>1
      <4>2. f[n + (k + 1)] = f[n + k] \o ss[n + (k + 1)] /\ f[n + k] \in Seq(T)
            /\ ss[n + (k + 1)] \in Seq(T)
        BY <1>1, <2>2, <2>4, <4>1
      <4>3. i \in 1 .. Len(f[n + k]) /\ f[n + k][i] = f[n][i]
        BY <3>2, <4>1
      <4> DEFINE a == f[n + k]
                 b == ss[n + (k + 1)]
      <4>4. DOMAIN a = 1 .. Len(a) /\ DOMAIN (a \o b) = 1 .. Len(a \o b)
            /\ \A j \in DOMAIN a : j \in DOMAIN (a \o b) /\ (a \o b)[j] = a[j]
        <5>1. a \in Seq(T) /\ b \in Seq(T)
          BY <4>2
        <5> HIDE DEF a, b
        <5> QED BY <5>1, Joins
      <4>5. f[n + (k + 1)] = a \o b
        BY <4>2
      <4> HIDE DEF b
      <4> QED BY <4>3, <4>4, <4>5
    <3>3. \A k \in Nat : k \in K
      <4> HIDE DEF K
      <4> QED BY <3>1, <3>2, SetInduction
    <3>4. N - n \in Nat /\ n + (N - n) = N /\ N <= N
      BY <1>1
    <3> DEFINE k == N - n
    <3>5. k \in K /\ n + k = N
      BY <3>3, <3>4
    <3> HIDE DEF k
    <3>6. f[n + k][i] = f[n][i]
      BY <3>4, <3>5
    <3>7. f[N][i] = f[n][i]
      BY <3>5, <3>6
    <3> QED BY <2>2, <3>7
  <2>8. ASSUME NEW n \in 1 .. N, NEW j \in 1 .. Len(ss[n])
        PROVE  s[w[n - 1] + j] = ss[n][j]
    <3>1. w[n] = Len(f[n]) /\ w[n - 1] \in Nat /\ Len(ss[n]) \in Nat
      <4>1. n \in 0 .. N /\ n # 0 /\ n - 1 \in 0 .. N
        BY <1>1
      <4>2. w[n] = Len(f[n])
        BY <4>1
      <4>3. w[n - 1] \in Nat
        <5> HIDE DEF w
        <5> QED BY <2>5, <4>1
      <4> QED BY <1>1, <4>2, <4>3, LenProperties
    <3> HIDE DEF w
    <3>2. w[n - 1] + j \in 1 .. Len(f[n])
      BY <2>6, <3>1
    <3> QED BY <2>6, <2>7, <3>2
  <2> HIDE DEF w
  <2>9. Laid(ss, s, ss, w)
    BY <2>5, <2>6, <2>8 DEF Laid
  <2>10. s \in Seq(T)
    BY <1>1, <2>1, <2>2, <2>4
  <2> QED BY <2>9, <2>10 DEF s
<1> QED BY <1>2, <1>3

Blocks == [n \in DOMAIN argv |-> Block(n)]
Widths(w) == Laid(argv, WrittenOut, Blocks, w)

\* A place of the vector as written out belongs to one argument.
LEMMA Located ==
  ASSUME NEW a, NEW s, NEW block, NEW w, Laid(a, s, block, w), Len(a) \in Nat,
         \A n \in 1 .. Len(a) : Len(block[n]) \in Nat
  PROVE  \A n \in 0 .. Len(a) :
           /\ \A k \in 0 .. n : w[k] <= w[n]
           /\ \A i \in 1 .. w[n] : \E m \in 1 .. n : \E j \in 1 .. Len(block[m]) :
                i = w[m - 1] + j /\ s[i] = block[m][j]
<1> DEFINE Within(n) ==
             /\ \A k \in 0 .. n : w[k] <= w[n]
             /\ \A i \in 1 .. w[n] : \E m \in 1 .. n : \E j \in 1 .. Len(block[m]) :
                  i = w[m - 1] + j /\ s[i] = block[m][j]
           J == {n \in Nat : n <= Len(a) => Within(n)}
<1>1. w \in [0 .. Len(a) -> Nat] /\ w[0] = 0
  BY DEF Laid
<1>2. 0 \in J
  <2>1. Within(0)
    BY <1>1
  <2> HIDE DEF Within
  <2> QED BY <2>1
<1>3. ASSUME NEW n \in Nat, n \in J PROVE n + 1 \in J
  <2> SUFFICES ASSUME n + 1 <= Len(a) PROVE Within(n + 1)
    <3> HIDE DEF Within
    <3> QED OBVIOUS
  <2>1. Within(n)
    <3> HIDE DEF Within
    <3> QED BY <1>3
  <2>2. /\ w[n + 1] = w[n] + Len(block[n + 1]) /\ w[n] \in Nat /\ w[n + 1] \in Nat
        /\ Len(block[n + 1]) \in Nat
        /\ \A j \in 1 .. Len(block[n + 1]) : s[w[n] + j] = block[n + 1][j]
    <3>1. n + 1 \in 1 .. Len(a) /\ (n + 1) - 1 = n /\ n \in 0 .. Len(a) /\ n + 1 \in 0 .. Len(a)
      OBVIOUS
    <3> QED BY <1>1, <3>1 DEF Laid
  <2>3. ASSUME NEW k \in 0 .. n + 1 PROVE w[k] <= w[n + 1]
    <3>1. CASE k = n + 1 BY <2>2, <3>1
    <3>2. CASE k # n + 1
      <4>1. k \in 0 .. n /\ k \in 0 .. Len(a)
        BY <3>2
      <4>2. w[k] <= w[n] /\ w[k] \in Nat
        BY <1>1, <2>1, <4>1
      <4> QED BY <2>2, <4>2
    <3> QED BY <3>1, <3>2
  <2>4. ASSUME NEW i \in 1 .. w[n + 1]
        PROVE  \E m \in 1 .. n + 1 : \E j \in 1 .. Len(block[m]) : i = w[m - 1] + j /\ s[i] = block[m][j]
    <3>1. CASE i <= w[n]
      <4>1. i \in 1 .. w[n]
        BY <2>2, <3>1
      <4>0. PICK m \in 1 .. n : \E j \in 1 .. Len(block[m]) : i = w[m - 1] + j /\ s[i] = block[m][j]
        BY <2>1, <4>1
      <4>2. PICK j \in 1 .. Len(block[m]) : i = w[m - 1] + j /\ s[i] = block[m][j]
        BY <4>0
      <4>3. m \in 1 .. n + 1
        OBVIOUS
      <4> QED BY <4>2, <4>3
    <3>2. CASE i > w[n]
      <4> DEFINE j == i - w[n]
      <4>1. j \in 1 .. Len(block[n + 1]) /\ i = w[n] + j
        BY <2>2, <3>2
      <4>2. n + 1 \in 1 .. n + 1 /\ (n + 1) - 1 = n
        OBVIOUS
      <4>3. s[i] = block[n + 1][j]
        BY <2>2, <4>1
      <4> HIDE DEF j
      <4>4. \E g \in 1 .. Len(block[n + 1]) : i = w[(n + 1) - 1] + g /\ s[i] = block[n + 1][g]
        BY <4>1, <4>2, <4>3
      <4> QED BY <4>2, <4>4
    <3>3. i <= w[n] \/ i > w[n]
      BY <2>2
    <3> QED BY <3>1, <3>2, <3>3
  <2> QED BY <2>3, <2>4
<1>4. \A n \in Nat : n \in J
  <2> HIDE DEF J
  <2> QED BY <1>2, <1>3, SetInduction
<1>5. ASSUME NEW n \in 0 .. Len(a) PROVE Within(n)
  <2>1. n \in Nat /\ n <= Len(a)
    OBVIOUS
  <2> HIDE DEF Within
  <2> QED BY <1>4, <2>1
<1> QED BY <1>5

\* Where the first separator is written out, the last argument that is split
\* has been read, and nothing up to it is still a group.
Written(w) ==
  LET s == WrittenOut IN
    /\ w \in [0 .. Len(argv) -> Nat] /\ w[0] = 0 /\ w[Len(argv)] = Len(s)
    /\ \A n \in 0 .. Len(argv) :
         /\ w[n] <= Len(s)
         /\ End(s) <= w[n] <=> LastSplit <= n
         /\ n > 0 =>
              /\ w[n] = w[n - 1] + Len(Block(n))
              /\ \A j \in 1 .. Len(Block(n)) : s[w[n - 1] + j] = Block(n)[j]
    /\ \A i \in 1 .. Len(s) : i <= End(s) => ~Group(s[i])

LEMMA SeparatorLast ==
  ASSUME NEW s \in Seq(Arguments), End(s) <= Len(s)
  PROVE  s[End(s)] = Separator
<1> Len(s) \in Nat
  BY LenProperties
<1> DEFINE I == {i \in 1 .. Len(s) : s[i] = Separator}
           least == IF I # {} THEN Min(I) ELSE 0
           first == IF least = 0 THEN Len(s) + 1 ELSE least
<1>1. End(s) = first
  BY DEF End, FirstIn, SelectInSeq
<1>2. first <= Len(s) => first \in I
  <2>1. I \in SUBSET (1 .. Len(s)) OBVIOUS
  <2> HIDE DEF I
  <2> QED BY <2>1, FirstPlace
<1> HIDE DEF first, least
<1> QED BY <1>1, <1>2

LEMMA VectorWritten ==
  ASSUME argv \in Seq(Arguments)
  PROVE  WrittenOut \in Seq(Arguments) /\ \E w : Written(w)
<1> DEFINE N == Len(argv)
           s == WrittenOut
           last == LastSplit
<1>1. N \in Nat /\ DOMAIN argv = 1 .. N /\ \A i \in 1 .. N : argv[i] \in Arguments
  BY LenProperties
<1>2. ASSUME NEW n \in 1 .. N PROVE Block(n) \in Seq(Arguments)
  BY <1>1, SplitsParts DEF Block
<1>3. Blocks \in Seq(Seq(Arguments)) /\ Len(Blocks) = N /\ FlattenSeq(Blocks) = s
      /\ \A n \in 1 .. N : Blocks[n] = Block(n)
  <2>1. FlattenSeq(Blocks) = s
    BY DEF Blocks, Block, WrittenOut, LastSplit
  <2>2. Blocks = [n \in 1 .. N |-> Block(n)]
    BY <1>1 DEF Blocks
  <2> QED BY <1>1, <1>2, <2>1, <2>2
<1>4. s \in Seq(Arguments)
  BY <1>3, FlatLaid
<1>5. PICK w : Laid(Blocks, s, Blocks, w)
  BY <1>3, FlatLaid
<1>6. /\ last \in 1 .. N + 1 /\ (last <= N => HasSeparator(argv[last]))
      /\ \A i \in 1 .. N : i < last => ~HasSeparator(argv[i])
  BY FirstSeparator DEF LastSplit
<1>7. /\ Len(s) \in Nat /\ DOMAIN s = 1 .. Len(s)
      /\ End(s) \in 1 .. Len(s) + 1 /\ \A i \in 1 .. Len(s) : i < End(s) => s[i] # Separator
      /\ End(s) <= Len(s) => s[End(s)] = Separator
  BY <1>4, FirstSeparator, SeparatorLast, LenProperties
<1>8. /\ w \in [0 .. N -> Nat] /\ w[0] = 0 /\ w[N] = Len(s)
      /\ \A n \in 1 .. N :
           /\ Len(Block(n)) \in Nat
           /\ w[n] = w[n - 1] + Len(Block(n))
           /\ \A j \in 1 .. Len(Block(n)) : s[w[n - 1] + j] = Block(n)[j]
  <2> DEFINE b == Blocks
  <2>1. Laid(b, s, b, w) /\ Len(b) = N /\ \A n \in 1 .. N : b[n] = Block(n)
    BY <1>3, <1>5
  <2>2. \A n \in 1 .. N : Len(Block(n)) \in Nat
    BY <1>2, LenProperties
  <2> HIDE DEF b, s
  <2>3. \A n \in 1 .. N :
          /\ w[n] = w[n - 1] + Len(b[n])
          /\ \A j \in 1 .. Len(b[n]) : s[w[n - 1] + j] = b[n][j]
    BY <2>1 DEF Laid
  <2>4. w \in [0 .. N -> Nat] /\ w[0] = 0 /\ w[N] = Len(s)
    BY <2>1 DEF Laid
  <2> HIDE DEF N
  <2> QED BY <2>1, <2>2, <2>3, <2>4
<1>9. ASSUME NEW n \in 0 .. N
      PROVE  /\ \A k \in 0 .. n : w[k] <= w[n]
             /\ \A i \in 1 .. w[n] : \E m \in 1 .. n : \E j \in 1 .. Len(Block(m)) :
                  i = w[m - 1] + j /\ s[i] = Block(m)[j]
  <2> DEFINE b == Blocks
  <2>1. Laid(b, s, b, w) /\ Len(b) = N /\ \A k \in 1 .. N : Len(b[k]) \in Nat /\ b[k] = Block(k)
    BY <1>3, <1>5, <1>8
  <2> HIDE DEF b, s
  <2>2. /\ \A k \in 0 .. n : w[k] <= w[n]
        /\ \A i \in 1 .. w[n] : \E m \in 1 .. n : \E j \in 1 .. Len(b[m]) :
             i = w[m - 1] + j /\ s[i] = b[m][j]
    BY <1>1, <2>1, Located
  <2>3. ASSUME NEW i \in 1 .. w[n]
        PROVE  \E m \in 1 .. n : \E j \in 1 .. Len(Block(m)) : i = w[m - 1] + j /\ s[i] = Block(m)[j]
    <3>0. PICK m \in 1 .. n : \E j \in 1 .. Len(b[m]) : i = w[m - 1] + j /\ s[i] = b[m][j]
      BY <2>2
    <3>1. PICK j \in 1 .. Len(b[m]) : i = w[m - 1] + j /\ s[i] = b[m][j]
      BY <3>0
    <3>2. b[m] = Block(m)
      BY <1>1, <2>1
    <3> QED BY <3>1, <3>2
  <2> QED BY <2>2, <2>3
<1> HIDE DEF s, last
<1>10. ASSUME NEW n \in 0 .. N PROVE w[n] <= Len(s) /\ w[n] \in Nat
  <2>1. N \in 0 .. N /\ n \in 0 .. N
    BY <1>1
  <2> QED BY <1>8, <1>9, <2>1
<1>11. ASSUME NEW n \in 0 .. N, End(s) <= w[n] PROVE last <= n
  <2>1. End(s) \in 1 .. w[n] /\ End(s) <= Len(s)
    BY <1>7, <1>10, <1>11
  <2>0. PICK m \in 1 .. n : \E j \in 1 .. Len(Block(m)) : s[End(s)] = Block(m)[j]
    BY <1>9, <2>1
  <2>2. PICK j \in 1 .. Len(Block(m)) : s[End(s)] = Block(m)[j]
    BY <2>0
  <2>3. Block(m)[j] = Separator
    BY <1>7, <2>1, <2>2
  <2>4. m \in 1 .. N /\ m <= n
    BY <1>1
  <2>5. ASSUME m < last PROVE FALSE
    <3>1. Block(m) = Splits(argv[m])
      BY <1>6, <2>4, <2>5 DEF Block, last
    <3>2. DOMAIN Block(m) = 1 .. Len(Block(m))
      BY <1>2, <2>4, LenProperties
    <3>3. HasSeparator(argv[m])
      BY <2>3, <3>1, <3>2 DEF HasSeparator
    <3> QED BY <1>6, <2>4, <2>5, <3>3
  <2> QED BY <1>6, <2>4, <2>5
<1>12. ASSUME NEW n \in 0 .. N, last <= n PROVE End(s) <= w[n]
  <2>1. last \in 1 .. N /\ last \in 0 .. n /\ last - 1 \in 0 .. N
    BY <1>1, <1>6, <1>12
  <2>2. Block(last) = Splits(argv[last])
    BY <2>1 DEF Block, last
  <2>3. DOMAIN Block(last) = 1 .. Len(Block(last))
    BY <1>2, <2>1, LenProperties
  <2>4. PICK j \in 1 .. Len(Block(last)) : Block(last)[j] = Separator
    BY <1>6, <2>1, <2>2, <2>3 DEF HasSeparator
  <2> DEFINE i == w[last - 1] + j
  <2>5. s[i] = Separator /\ w[last] = w[last - 1] + Len(Block(last)) /\ Len(Block(last)) \in Nat
    BY <1>8, <2>1, <2>4
  <2>6. w[last] <= w[n] /\ w[last] \in Nat /\ w[last - 1] \in Nat /\ w[n] \in Nat /\ w[last] <= Len(s)
    BY <1>9, <1>10, <2>1
  <2>7. i \in 1 .. Len(s) /\ i <= w[n]
    <3>1. Len(s) \in Nat
      BY <1>7
    <3>2. i \in Nat /\ 1 <= i /\ i <= w[last]
      BY <2>5, <2>6
    <3> HIDE DEF i
    <3> QED BY <2>6, <3>1, <3>2
  <2> HIDE DEF i
  <2>8. ~(i < End(s))
    BY <1>7, <2>5, <2>7
  <2> QED BY <1>7, <2>6, <2>7, <2>8
<1>13. ASSUME NEW i \in 1 .. Len(s), i <= End(s) PROVE ~Group(s[i])
  <2>1. N \in 0 .. N /\ i \in 1 .. w[N]
    BY <1>1, <1>8
  <2>0. PICK m \in 1 .. N : \E j \in 1 .. Len(Block(m)) : i = w[m - 1] + j /\ s[i] = Block(m)[j]
    BY <1>9, <2>1
  <2>2. PICK j \in 1 .. Len(Block(m)) : i = w[m - 1] + j /\ s[i] = Block(m)[j]
    BY <2>0
  <2>3. argv[m] \in Arguments /\ m - 1 \in 0 .. N
    BY <1>1
  <2>4. CASE m <= last
    <3>1. Block(m) = Splits(argv[m]) /\ DOMAIN Block(m) = 1 .. Len(Block(m))
      BY <1>2, <2>4, LenProperties DEF Block, last
    <3>2. CASE Group(argv[m])
      <4>1. Splits(argv[m]) = Expansion(argv[m])
        BY <3>2 DEF Splits, Group
      <4>2. s[i] = Separator \/ ~Group(s[i])
        <5> HIDE DEF s
        <5> QED BY <2>2, <2>3, <3>1, <3>2, <4>1, ExpansionParts
      <4> QED BY <4>2 DEF Separator, Group
    <3>3. CASE ~Group(argv[m])
      <4>1. Splits(argv[m]) = <<argv[m]>>
        BY <3>3 DEF Splits, Group
      <4>2. s[i] = argv[m]
        BY <2>2, <3>1, <4>1
      <4> QED BY <3>3, <4>2
    <3> QED BY <3>2, <3>3
  <2>5. CASE m > last
    <3>1. last <= m - 1
      BY <1>6, <2>5
    <3>2. End(s) <= w[m - 1] /\ w[m - 1] \in Nat
      BY <1>10, <1>12, <2>3, <3>1
    <3> QED BY <1>7, <1>13, <2>2, <3>2
  <2> QED BY <1>6, <2>4, <2>5
<1>14. Written(w)
  <2>1. ASSUME NEW n \in 0 .. N
        PROVE  /\ w[n] <= Len(s)
               /\ End(s) <= w[n] <=> last <= n
               /\ n > 0 =>
                    /\ w[n] = w[n - 1] + Len(Block(n))
                    /\ \A j \in 1 .. Len(Block(n)) : s[w[n - 1] + j] = Block(n)[j]
    <3>1. n > 0 => n \in 1 .. N
      OBVIOUS
    <3>2. End(s) <= w[n] <=> last <= n
      BY <1>11, <1>12
    <3>3. w[n] <= Len(s)
      BY <1>10
    <3> QED BY <1>8, <3>1, <3>2, <3>3
  <2> QED BY <1>8, <1>13, <2>1 DEF Written, s, last
<1> QED BY <1>4, <1>14 DEF s

-----------------------------------------------------------------------------
(* The queue against the vector as written out: of the first n arguments   *)
(* all parts but the first d are at its front, and the rest is as given.   *)

Follows(q, w, n, d) ==
  LET open == w[n] - d IN
    /\ n \in 0 .. Len(argv) /\ d \in 0 .. w[n]
    /\ Len(q) = open + (Len(argv) - n)
    /\ \A j \in 1 .. open : q[j] = WrittenOut[d + j]
    /\ \A j \in 1 .. Len(argv) - n : q[open + j] = argv[n + j]

LEMMA WrittenNumbers ==
  ASSUME argv \in Seq(Arguments)
  PROVE  /\ Len(argv) \in Nat /\ LastSplit \in Nat /\ Len(WrittenOut) \in Nat
         /\ End(WrittenOut) \in 1 .. Len(WrittenOut) + 1
<1> DEFINE s == WrittenOut
<1>1. s \in Seq(Arguments)
  BY VectorWritten
<1> HIDE DEF s
<1>2. Len(argv) \in Nat /\ Len(s) \in Nat
  BY <1>1, LenProperties
<1>3. End(s) \in 1 .. Len(s) + 1
  BY <1>1, FirstSeparator
<1>4. LastSplit \in 1 .. Len(argv) + 1
  BY FirstSeparator DEF LastSplit
<1> QED BY <1>2, <1>3, <1>4 DEF s

\* An argument that is not to be split is the next part.
LEMMA FrontTaken ==
  ASSUME argv \in Seq(Arguments), NEW w, Written(w), NEW n, NEW d, NEW q \in Seq(Arguments),
         Follows(q, w, n, d), q # << >>, d < End(WrittenOut) => ~Group(q[1])
  PROVE  /\ d + 1 \in 1 .. Len(WrittenOut) /\ d \in Nat /\ WrittenOut[d + 1] = q[1]
         /\ \E m : Follows(Tail(q), w, m, d + 1)
<1> DEFINE s == WrittenOut
           N == Len(argv)
           open == w[n] - d
           t == Tail(q)
<1>1. /\ N \in Nat /\ Len(s) \in Nat /\ Len(q) \in Nat \ {0} /\ t \in Seq(Arguments)
      /\ Len(t) = Len(q) - 1 /\ \A i \in 1 .. Len(q) - 1 : t[i] = q[i + 1]
  BY VectorWritten, LenProperties, HeadTailProperties, EmptySeq
<1>2. /\ n \in 0 .. N /\ d \in 0 .. w[n] /\ Len(q) = open + (N - n)
      /\ \A j \in 1 .. open : q[j] = s[d + j]
      /\ \A j \in 1 .. N - n : q[open + j] = argv[n + j]
  BY DEF Follows
<1>3. w[n] \in Nat /\ w[n] <= Len(s) /\ (End(s) <= w[n] <=> LastSplit <= n)
  BY <1>2 DEF Written
<1> HIDE DEF s, t
<1>4. CASE d < w[n]
  <2>1. 1 \in 1 .. open /\ d + 1 \in 1 .. Len(s) /\ d \in Nat
    BY <1>1, <1>2, <1>3, <1>4
  <2>2. s[d + 1] = q[1]
    BY <1>2, <2>1
  <2> DEFINE left == w[n] - (d + 1)
  <2>3. /\ d + 1 \in 0 .. w[n] /\ Len(t) = left + (N - n) /\ left \in Nat /\ open = left + 1
        /\ open \in Nat /\ Len(q) = (left + 1) + (N - n) /\ N - n \in Nat
    <3>1. /\ d \in Nat /\ n \in Nat /\ n <= N /\ N \in Nat /\ w[n] \in Nat
          /\ Len(t) = Len(q) - 1 /\ Len(q) \in Nat
          /\ Len(q) = (w[n] - d) + (N - n)
      BY <1>1, <1>2, <1>3
    <3> HIDE DEF N
    <3>2. left \in Nat /\ open = left + 1 /\ open \in Nat /\ d + 1 \in 0 .. w[n]
      <4>1. d \in Nat /\ w[n] \in Nat /\ d < w[n]
        BY <1>4, <3>1
      <4>2. \A x, y \in Nat : x < y =>
              /\ y - (x + 1) \in Nat /\ y - x = (y - (x + 1)) + 1
              /\ y - x \in Nat /\ x + 1 \in 0 .. y
        OBVIOUS
      <4> QED BY <4>1, <4>2
    <3> HIDE DEF left, open
    <3>3. Len(q) = open + (N - n)
      BY <1>2
    <3> QED BY <3>1, <3>2, <3>3
  <2>4. ASSUME NEW j \in 1 .. left PROVE t[j] = s[(d + 1) + j]
    <3>1. j + 1 \in 1 .. open /\ d + (j + 1) = (d + 1) + j /\ j \in 1 .. Len(q) - 1
      BY <1>1, <1>2, <2>1, <2>3, SMTT(20)
    <3>2. q[j + 1] = s[d + (j + 1)] /\ t[j] = q[j + 1]
      BY <1>1, <1>2, <3>1
    <3> QED BY <3>1, <3>2
  <2>5. ASSUME NEW j \in 1 .. N - n PROVE t[left + j] = argv[n + j]
    <3>1. left + j \in 1 .. Len(q) - 1 /\ (left + j) + 1 = open + j
      <4> HIDE DEF left, open, N
      <4> QED BY <2>3
    <3>2. t[left + j] = q[(left + j) + 1] /\ q[open + j] = argv[n + j]
      BY <1>1, <1>2, <3>1
    <3> QED BY <3>1, <3>2
  <2>6. Follows(t, w, n, d + 1)
    BY <1>2, <2>3, <2>4, <2>5 DEF Follows, s
  <2> QED BY <2>1, <2>2, <2>6 DEF s, t
<1>5. CASE d = w[n]
  <2>1. n + 1 \in 1 .. N /\ open = 0 /\ 1 \in 1 .. N - n /\ n \in Nat
    BY <1>1, <1>2, <1>3, <1>5
  <2>2. q[1] = argv[n + 1]
    BY <1>2, <2>1, SMTT(20)
  <2>3. Block(n + 1) = <<q[1]>>
    <3>1. CASE n + 1 <= LastSplit
      <4>1. ~(LastSplit <= n)
        <5>1. LastSplit \in Nat
          BY WrittenNumbers
        <5> QED BY <2>1, <3>1, <5>1
      <4>2. d < End(s)
        <5>1. End(s) \in Nat
          BY WrittenNumbers DEF s
        <5> QED BY <1>3, <1>5, <4>1, <5>1
      <4>3. ~Group(q[1])
        BY <4>2 DEF s
      <4> QED BY <2>2, <3>1, <4>3 DEF Block, Splits
    <3>2. CASE ~(n + 1 <= LastSplit)
      BY <2>2, <3>2 DEF Block
    <3> QED BY <3>1, <3>2
  <2>4. w[n + 1] = w[n] + 1 /\ s[w[n] + 1] = q[1] /\ w[n + 1] <= Len(s)
    <3>1. n + 1 \in 0 .. N /\ n + 1 > 0 /\ (n + 1) - 1 = n
      BY <2>1
    <3>2. /\ w[n + 1] = w[n] + Len(Block(n + 1)) /\ w[n + 1] <= Len(s)
          /\ \A j \in 1 .. Len(Block(n + 1)) : s[w[n] + j] = Block(n + 1)[j]
      BY <3>1 DEF Written, s
    <3>3. Len(<<q[1]>>) = 1 /\ <<q[1]>>[1] = q[1] /\ 1 \in 1 .. 1
      OBVIOUS
    <3> QED BY <2>3, <3>2, <3>3
  <2>5. d + 1 \in 1 .. Len(s) /\ d \in Nat /\ s[d + 1] = q[1]
    BY <1>1, <1>3, <1>5, <2>4
  <2> DEFINE left == w[n + 1] - (d + 1)
  <2>6. left = 0 /\ d + 1 \in 0 .. w[n + 1] /\ n + 1 \in 0 .. N /\ Len(t) = left + (N - (n + 1))
    <3>1. /\ d \in Nat /\ d = w[n] /\ n \in Nat /\ n + 1 <= N /\ N \in Nat /\ w[n + 1] = d + 1
          /\ Len(t) = Len(q) - 1 /\ Len(q) = (w[n] - d) + (N - n)
      BY <1>1, <1>2, <1>3, <1>5, <2>1, <2>4
    <3> HIDE DEF N
    <3>2. left = 0
      BY <3>1
    <3>3. Len(t) = N - (n + 1)
      BY <3>1, SMTT(20)
    <3> QED BY <3>1, <3>2, <3>3, SMTT(20)
  <2>7. ASSUME NEW j \in 1 .. N - (n + 1) PROVE t[left + j] = argv[(n + 1) + j]
    <3>1. j + 1 \in 1 .. N - n /\ (n + 1) + j = n + (j + 1) /\ j \in 1 .. Len(q) - 1
          /\ open + (j + 1) = j + 1 /\ left + j = j
      BY <1>1, <1>2, <2>1, <2>6, SMTT(20)
    <3>2. t[j] = q[j + 1] /\ q[open + (j + 1)] = argv[n + (j + 1)]
      BY <1>1, <1>2, <3>1
    <3> QED BY <3>1, <3>2
  <2>8. Follows(t, w, n + 1, d + 1)
    BY <2>6, <2>7 DEF Follows, s
  <2> QED BY <2>5, <2>8 DEF s, t
<1> QED BY <1>2, <1>3, <1>4, <1>5

\* Splitting a group leaves the queue where it was.
LEMMA GroupOpened ==
  ASSUME argv \in Seq(Arguments), NEW w, Written(w), NEW n, NEW d, NEW q \in Seq(Arguments),
         Follows(q, w, n, d), q # << >>, d < End(WrittenOut), Group(q[1])
  PROVE  /\ \E m : Follows(Expansion(q[1]) \o Tail(q), w, m, d)
         /\ d + 1 \in 1 .. Len(WrittenOut) /\ WrittenOut[d + 1] \in {Expansion(q[1])[i] : i \in DOMAIN Expansion(q[1])}
<1> DEFINE s == WrittenOut
           N == Len(argv)
           open == w[n] - d
           t == Tail(q)
           e == Expansion(q[1])
           r == e \o t
<1>1. /\ N \in Nat /\ Len(s) \in Nat /\ Len(q) \in Nat \ {0} /\ t \in Seq(Arguments)
      /\ Len(t) = Len(q) - 1 /\ \A i \in 1 .. Len(q) - 1 : t[i] = q[i + 1]
      /\ q[1] \in Arguments
  BY VectorWritten, LenProperties, HeadTailProperties, EmptySeq
<1>2. /\ n \in 0 .. N /\ d \in 0 .. w[n] /\ Len(q) = open + (N - n)
      /\ \A j \in 1 .. open : q[j] = s[d + j]
      /\ \A j \in 1 .. N - n : q[open + j] = argv[n + j]
  BY DEF Follows
<1>3. w[n] \in Nat /\ w[n] <= Len(s) /\ (End(s) <= w[n] <=> LastSplit <= n)
  BY <1>2 DEF Written
<1>4. e \in Seq(Arguments)
  BY <1>1, ExpansionParts
<1>5. Len(e) \in Nat \ {0} /\ DOMAIN e = 1 .. Len(e)
  <2>1. 1 \in DOMAIN e
    BY <1>1, ExpansionParts
  <2> HIDE DEF e
  <2> QED BY <1>4, <2>1, LenProperties
<1>6. End(s) \in Nat /\ LastSplit \in Nat
  BY WrittenNumbers
<1> HIDE DEF s, t, e
<1>7. d = w[n]
  <2> SUFFICES ASSUME d < w[n] PROVE FALSE
    BY <1>2, <1>3
  <2>1. 1 \in 1 .. open /\ d + 1 \in 1 .. Len(s) /\ d + 1 <= End(s)
    BY <1>1, <1>2, <1>3, <1>6, SMTT(20) DEF s
  <2>2. s[d + 1] = q[1]
    BY <1>2, <2>1
  <2> QED BY <2>1, <2>2 DEF Written, s
<1>8. n + 1 \in 1 .. N /\ open = 0 /\ 1 \in 1 .. N - n /\ n \in Nat
  BY <1>1, <1>2, <1>3, <1>7
<1>9. q[1] = argv[n + 1]
  BY <1>2, <1>8, SMTT(20)
<1>10. Block(n + 1) = e
  <2>1. ~(LastSplit <= n)
    BY <1>3, <1>6, <1>7 DEF s
  <2>2. n + 1 <= LastSplit
    BY <1>6, <1>8, <2>1
  <2> QED BY <1>9, <2>2 DEF Block, Splits, Group, e
<1>11. /\ w[n + 1] = w[n] + Len(e) /\ w[n + 1] <= Len(s)
       /\ \A j \in 1 .. Len(e) : s[w[n] + j] = e[j]
  <2>1. n + 1 \in 0 .. N /\ n + 1 > 0 /\ (n + 1) - 1 = n
    BY <1>8
  <2>2. \A m \in 0 .. N : m > 0 =>
          /\ w[m] = w[m - 1] + Len(Block(m))
          /\ \A j \in 1 .. Len(Block(m)) : s[w[m - 1] + j] = Block(m)[j]
    BY DEF Written, s
  <2>3. w[n + 1] <= Len(s)
    BY <2>1 DEF Written, s
  <2> QED BY <1>10, <2>1, <2>2, <2>3
<1>12. d + 1 \in 1 .. Len(s) /\ s[d + 1] = e[1] /\ 1 \in DOMAIN e
  BY <1>1, <1>3, <1>5, <1>7, <1>11
<1> DEFINE left == w[n + 1] - d
<1>13. /\ Len(r) = Len(e) + Len(t)
       /\ \A j \in DOMAIN e : r[j] = e[j]
       /\ \A j \in DOMAIN t : r[Len(e) + j] = t[j]
       /\ DOMAIN t = 1 .. Len(t)
  <2> DEFINE x == e \o t
  <2>1. /\ Len(x) = Len(e) + Len(t) /\ DOMAIN t = 1 .. Len(t)
        /\ \A j \in DOMAIN e : x[j] = e[j]
        /\ \A j \in DOMAIN t : x[Len(e) + j] = t[j]
    <3>1. t \in Seq(Arguments)
      BY <1>1
    <3> QED BY <1>4, <3>1, Joins, SMTT(20)
  <2> HIDE DEF x
  <2> QED BY <2>1 DEF x
<1> HIDE DEF r
<1>14. left = Len(e) /\ d \in 0 .. w[n + 1] /\ n + 1 \in 0 .. N /\ Len(r) = left + (N - (n + 1))
  BY <1>1, <1>2, <1>3, <1>5, <1>7, <1>8, <1>11, <1>13, SMTT(20)
<1>15. ASSUME NEW j \in 1 .. left PROVE r[j] = s[d + j]
  BY <1>5, <1>7, <1>11, <1>13, <1>14
<1>16. ASSUME NEW j \in 1 .. N - (n + 1) PROVE r[left + j] = argv[(n + 1) + j]
  <2>1. /\ j + 1 \in 1 .. N - n /\ (n + 1) + j = n + (j + 1) /\ j \in 1 .. Len(q) - 1
        /\ open + (j + 1) = j + 1
    BY <1>1, <1>2, <1>8
  <2>2. t[j] = q[j + 1] /\ q[open + (j + 1)] = argv[n + (j + 1)] /\ r[Len(e) + j] = t[j]
    BY <1>1, <1>2, <1>13, <2>1
  <2> QED BY <1>14, <2>1, <2>2
<1>17. Follows(r, w, n + 1, d)
  BY <1>14, <1>15, <1>16 DEF Follows, s
<1> QED BY <1>12, <1>17 DEF s, t, e, r

LEMMA QueueEmptied ==
  ASSUME argv \in Seq(Arguments), NEW w, Written(w), NEW n, NEW d, Follows(<< >>, w, n, d)
  PROVE  d = Len(WrittenOut)
<1>1. Len(argv) \in Nat /\ n \in 0 .. Len(argv) /\ d \in 0 .. w[n]
      /\ 0 = (w[n] - d) + (Len(argv) - n)
  BY LenProperties DEF Follows
<1>2. w[n] \in Nat /\ w[Len(argv)] = Len(WrittenOut)
  BY <1>1 DEF Written
<1>3. n = Len(argv) /\ d = w[n]
  BY <1>1, <1>2
<1> QED BY <1>2, <1>3

-----------------------------------------------------------------------------
(* What has been read of the first d parts.                                *)

UpTo(I, d) == {i \in I : i <= d}
ValuesOf(s) == [i \in Given(s) |-> TextAt(s, i)]

ReadTo(s, d, set, given, standing) ==
  /\ \A i \in 1 .. d : i < End(s) => FaultOf(s, i) = "none"
  /\ set = {OptionOf(s[i]) : i \in UpTo(Set(s), d)}
  /\ InOrder(given, UpTo(Given(s), d), ValuesOf(s))
  /\ InOrder(standing, UpTo(Standing(s), d), s)

\* No option before the place waits for its value.
Served(s, d) == d \in 1 .. End(s) - 1 => ~WantsNext(s[d])

At(w, n, d) ==
  /\ Written(w) /\ Follows(pending, w, n, d)
  /\ optionsDone <=> End(WrittenOut) <= d
  /\ ReadTo(WrittenOut, d, flags, texts, positionals)
  /\ Served(WrittenOut, d)

Reads == (parse = "running" => \E w, n, d : At(w, n, d)) /\ ParseExact

LEMMA UpToNext ==
  ASSUME NEW I \in SUBSET Nat, NEW d \in Nat
  PROVE  UpTo(I, d + 1) = IF d + 1 \in I THEN UpTo(I, d) \cup {d + 1} ELSE UpTo(I, d)
<1>1. ASSUME NEW i \in I PROVE i <= d + 1 <=> (i <= d \/ i = d + 1)
  OBVIOUS
<1> QED BY <1>1 DEF UpTo

LEMMA InOrderGrows ==
  ASSUME NEW I \in SUBSET (Nat \ {0}), NEW d \in Nat, d + 1 \in I, NEW T, NEW q \in Seq(T),
         NEW value, value[d + 1] \in T, InOrder(q, UpTo(I, d), value)
  PROVE  InOrder(Append(q, value[d + 1]), UpTo(I, d + 1), value)
<1> DEFINE A == UpTo(I, d)
           B == UpTo(I, d + 1)
           r == Append(q, value[d + 1])
<1>1. /\ Len(q) \in Nat /\ Len(r) = Len(q) + 1 /\ r[Len(q) + 1] = value[d + 1]
      /\ \A k \in 1 .. Len(q) : r[k] = q[k]
  BY AppendProperties, LenProperties
<1>2. B = A \cup {d + 1} /\ d + 1 \notin A
  BY UpToNext DEF UpTo
<1>3. IsFiniteSet(A)
  <2>1. \A i \in A : i \in Nat /\ i <= d
    BY DEF UpTo
  <2>2. A \subseteq 0 .. d /\ 0 \in Int /\ d \in Int
    BY <2>1
  <2> HIDE DEF A
  <2>3. IsFiniteSet(0 .. d)
    BY <2>2, FS_Interval
  <2> QED BY <2>2, <2>3, FS_Subset
<1>4. IsFiniteSet(B) /\ Cardinality(B) = Cardinality(A) + 1 /\ Cardinality(A) \in Nat
  <2> HIDE DEF A, B
  <2> QED BY <1>2, <1>3, FS_AddElement, FS_CardinalityType
<1>5. /\ Len(q) = Cardinality(A)
      /\ \A i \in A : q[Cardinality({j \in A : j <= i})] = value[i]
  BY DEF InOrder
<1> HIDE DEF r
<1>6. ASSUME NEW i \in A PROVE r[Cardinality({j \in B : j <= i})] = value[i]
  <2> DEFINE below == {j \in A : j <= i}
  <2>1. {j \in B : j <= i} = below
    <3>1. i <= d /\ i \in Nat
      BY DEF UpTo
    <3>2. ~(d + 1 <= i)
      BY <3>1
    <3> HIDE DEF A, B
    <3> QED BY <1>2, <3>2
  <2>2. below \subseteq A /\ i \in below
    <3>1. i \in Nat
      BY DEF UpTo
    <3> QED BY <3>1
  <2> HIDE DEF below
  <2>3. IsFiniteSet(below) /\ Cardinality(below) \in Nat /\ Cardinality(below) <= Cardinality(A)
    BY <1>3, <2>2, FS_Subset, FS_CardinalityType
  <2>4. Cardinality(below) # 0
    BY <2>2, <2>3, FS_EmptySet
  <2>5. Cardinality(below) \in 1 .. Len(q)
    BY <1>1, <1>5, <2>3, <2>4
  <2>6. q[Cardinality(below)] = value[i]
    BY <1>5 DEF below
  <2> QED BY <1>1, <2>1, <2>5, <2>6
<1>7. r[Cardinality({j \in B : j <= d + 1})] = value[d + 1]
  <2>1. {j \in B : j <= d + 1} = B
    BY DEF UpTo
  <2> QED BY <1>1, <1>4, <1>5, <2>1
<1>8. \A i \in B : r[Cardinality({j \in B : j <= i})] = value[i]
  <2> HIDE DEF A, B
  <2> QED BY <1>2, <1>6, <1>7
<1>9. Len(r) = Cardinality(B)
  BY <1>1, <1>4, <1>5
<1> QED BY <1>8, <1>9 DEF InOrder, r

\* One part further.
LEMMA ReadOne ==
  ASSUME NEW s \in Seq(Arguments), NEW d \in Nat, d + 1 \in 1 .. Len(s),
         NEW set, NEW given \in Seq(Values), NEW standing \in Seq(Arguments),
         NEW set1, NEW given1, NEW standing1,
         ReadTo(s, d, set, given, standing),
         d + 1 < End(s) => FaultOf(s, d + 1) = "none",
         set1 = IF d + 1 \in Set(s) THEN set \cup {OptionOf(s[d + 1])} ELSE set,
         d + 1 \in Given(s) => TextAt(s, d + 1) \in Values,
         given1 = IF d + 1 \in Given(s) THEN Append(given, TextAt(s, d + 1)) ELSE given,
         standing1 = IF d + 1 \in Standing(s) THEN Append(standing, s[d + 1]) ELSE standing
  PROVE  ReadTo(s, d + 1, set1, given1, standing1)
<1>1. Len(s) \in Nat /\ DOMAIN s = 1 .. Len(s) /\ s[d + 1] \in Arguments
  BY LenProperties
<1>2. /\ Set(s) \in SUBSET (Nat \ {0}) /\ Given(s) \in SUBSET (Nat \ {0})
      /\ Standing(s) \in SUBSET (Nat \ {0})
  BY <1>1 DEF Set, Given, Standing, Options
<1>3. ASSUME NEW i \in 1 .. d + 1, i < End(s) PROVE FaultOf(s, i) = "none"
  <2>1. i \in 1 .. d \/ i = d + 1
    OBVIOUS
  <2> QED BY <1>3, <2>1 DEF ReadTo
<1>4. set1 = {OptionOf(s[i]) : i \in UpTo(Set(s), d + 1)}
  <2>1. set = {OptionOf(s[i]) : i \in UpTo(Set(s), d)}
    BY DEF ReadTo
  <2>2. UpTo(Set(s), d + 1) = IF d + 1 \in Set(s) THEN UpTo(Set(s), d) \cup {d + 1} ELSE UpTo(Set(s), d)
    <3>1. Set(s) \in SUBSET Nat
      BY <1>2
    <3> QED BY <3>1, UpToNext
  <2> QED BY <2>1, <2>2
<1>5. InOrder(given1, UpTo(Given(s), d + 1), ValuesOf(s))
  <2>1. InOrder(given, UpTo(Given(s), d), ValuesOf(s))
    BY DEF ReadTo
  <2>2. CASE d + 1 \in Given(s)
    <3>1. ValuesOf(s)[d + 1] = TextAt(s, d + 1)
      BY <2>2 DEF ValuesOf
    <3>2. given1 = Append(given, ValuesOf(s)[d + 1]) /\ ValuesOf(s)[d + 1] \in Values
      BY <2>2, <3>1
    <3> QED BY <1>2, <2>1, <2>2, <3>2, InOrderGrows
  <2>3. CASE d + 1 \notin Given(s)
    <3>1. UpTo(Given(s), d + 1) = UpTo(Given(s), d) /\ given1 = given
      BY <1>2, <2>3, UpToNext
    <3> QED BY <2>1, <3>1
  <2> QED BY <2>2, <2>3
<1>6. InOrder(standing1, UpTo(Standing(s), d + 1), s)
  <2>1. InOrder(standing, UpTo(Standing(s), d), s)
    BY DEF ReadTo
  <2>2. CASE d + 1 \in Standing(s)
    <3>1. standing1 = Append(standing, s[d + 1])
      BY <2>2
    <3> QED BY <1>1, <1>2, <2>1, <2>2, <3>1, InOrderGrows
  <2>3. CASE d + 1 \notin Standing(s)
    <3>1. UpTo(Standing(s), d + 1) = UpTo(Standing(s), d) /\ standing1 = standing
      BY <1>2, <2>3, UpToNext
    <3> QED BY <2>1, <3>1
  <2> QED BY <2>2, <2>3
<1> QED BY <1>3, <1>4, <1>5, <1>6 DEF ReadTo

\* What the place of a part says of it.
LEMMA Places ==
  ASSUME NEW s \in Seq(Arguments), NEW i \in 1 .. Len(s)
  PROVE  /\ i = End(s) => s[i] = Separator
         /\ i < End(s) => s[i] # Separator
         /\ End(s) \in Nat
         /\ i \in Set(s) <=> i < End(s) /\ IsOption(s[i]) /\ OptionOf(s[i]) \in Booleans
         /\ i \in Given(s) <=> i < End(s) /\ IsOption(s[i]) /\ OptionOf(s[i]) = "text"
         /\ i \in Standing(s) <=>
              i > End(s) \/ (i < End(s) /\ s[i].kind \in {"word", "dash"} /\ ~IsValue(s, i))
<1>1. Len(s) \in Nat /\ DOMAIN s = 1 .. Len(s)
  BY LenProperties
<1>2. End(s) \in 1 .. Len(s) + 1
      /\ \A j \in 1 .. Len(s) : j < End(s) => s[j] # Separator
  BY FirstSeparator
<1>3. i = End(s) => s[i] = Separator
  BY SeparatorLast
<1> QED BY <1>1, <1>2, <1>3 DEF Set, Given, Standing, Options

\* The queue's front as the next part, before the separator or after it.
LEMMA FrontAt ==
  ASSUME ArgTypes, NEW w, NEW n, NEW d, At(w, n, d), pending # << >>, optionsDone \/ ~Group(arg)
  PROVE  LET s == WrittenOut IN
         /\ s \in Seq(Arguments) /\ d \in Nat /\ d + 1 \in 1 .. Len(s) /\ End(s) \in Nat
         /\ arg = s[d + 1] /\ arg = pending[1] /\ arg \in Arguments
         /\ optionsDone <=> d + 1 > End(s)
         /\ ~optionsDone /\ arg # Separator <=> d + 1 < End(s)
         /\ ~optionsDone /\ arg = Separator <=> d + 1 = End(s)
         /\ \E m : Follows(Tail(pending), w, m, d + 1)
<1> DEFINE s == WrittenOut
<1>1. /\ argv \in Seq(Arguments) /\ pending \in Seq(Arguments) /\ Written(w)
      /\ Follows(pending, w, n, d) /\ (optionsDone <=> End(s) <= d)
  BY DEF ArgTypes, At
<1>2. arg = pending[1] /\ arg \in Arguments
  BY QueueTyped
<1>3. s \in Seq(Arguments) /\ End(s) \in 1 .. Len(s) + 1 /\ Len(s) \in Nat
  BY <1>1, VectorWritten, WrittenNumbers
<1>4. n \in 0 .. Len(argv) /\ d \in 0 .. w[n] /\ w[n] \in Nat
  <2>1. n \in 0 .. Len(argv) /\ d \in 0 .. w[n]
    BY <1>1 DEF Follows
  <2> QED BY <1>1, <2>1 DEF Written
<1>5. d < End(s) => ~Group(pending[1])
  BY <1>1, <1>2, <1>3, <1>4
<1>6. /\ d + 1 \in 1 .. Len(s) /\ d \in Nat /\ s[d + 1] = pending[1]
      /\ \E m : Follows(Tail(pending), w, m, d + 1)
  BY <1>1, <1>5, FrontTaken
<1> HIDE DEF s
<1>7. /\ d + 1 = End(s) => s[d + 1] = Separator
      /\ d + 1 < End(s) => s[d + 1] # Separator
  BY <1>3, <1>6, Places
<1>8. /\ optionsDone <=> d + 1 > End(s)
      /\ ~optionsDone /\ arg # Separator <=> d + 1 < End(s)
      /\ ~optionsDone /\ arg = Separator <=> d + 1 = End(s)
  BY <1>1, <1>2, <1>3, <1>6, <1>7
<1> QED BY <1>2, <1>3, <1>6, <1>8 DEF s

\* The vector, and what was made of it, does not change.
LEMMA VectorStays ==
  ASSUME argv' = argv
  PROVE  /\ WrittenOut' = WrittenOut
         /\ \A w : Written(w)' = Written(w)
         /\ \A q, w, n, d : Follows(q, w, n, d)' = Follows(q, w, n, d)
<1>1. WrittenOut' = WrittenOut
  BY DEF WrittenOut
<1>2. LastSplit' = LastSplit /\ \A n : Block(n)' = Block(n)
  BY DEF LastSplit, Block
<1>3. \A w : Written(w)' = Written(w)
  BY <1>1, <1>2 DEF Written
<1>4. \A q, w, n, d : Follows(q, w, n, d)' = Follows(q, w, n, d)
  BY <1>1 DEF Follows
<1> QED BY <1>1, <1>3, <1>4

\* The loop goes on from the next part.
LEMMA GoesOn ==
  ASSUME argv' = argv, parse' = "running", NEW w, NEW m, NEW d,
         Written(w), Follows(pending', w, m, d),
         optionsDone' <=> End(WrittenOut) <= d,
         ReadTo(WrittenOut, d, flags', texts', positionals'),
         Served(WrittenOut, d)
  PROVE  Reads'
<1>1. At(w, m, d)'
  BY VectorStays DEF At
<1> QED BY <1>1 DEF Reads, ParseExact

\* The first fault is what the reading ends with.
LEMMA Faulted ==
  ASSUME argv' = argv, NEW d \in Nat, NEW s, s = WrittenOut, s \in Seq(Arguments),
         d + 1 \in 1 .. Len(s), d + 1 < End(s), FaultOf(s, d + 1) # "none",
         \A i \in 1 .. d : i < End(s) => FaultOf(s, i) = "none",
         parse' = FaultOf(s, d + 1), parse' # "running"
  PROVE  Reads'
<1>1. DOMAIN s = 1 .. Len(s) /\ Len(s) \in Nat
  BY LenProperties
<1> DEFINE F == Faults(s)
<1>2. d + 1 \in F /\ F \in SUBSET Nat
  BY <1>1 DEF Faults
<1>3. Min(F) \in F /\ \A n \in F : Min(F) <= n
  <2> HIDE DEF F
  <2> QED BY <1>2, Least
<1>4. \A i \in F : d + 1 <= i
  <2> SUFFICES ASSUME NEW i \in F, i < d + 1 PROVE FALSE
    BY <1>2
  <2>1. i \in 1 .. d /\ i < End(s) /\ FaultOf(s, i) # "none"
    BY <1>1 DEF Faults
  <2> QED BY <2>1
<1>5. Min(F) = d + 1
  <2>1. Min(F) \in Nat
    BY <1>2, <1>3
  <2> HIDE DEF F
  <2> QED BY <1>2, <1>3, <1>4, <2>1
<1>6. WrittenOut' = s
  BY VectorStays
<1> QED BY <1>2, <1>5, <1>6 DEF Reads, ParseExact

LEMMA PositionalReads ==
  ASSUME ArgTypes, NEW w, NEW n, NEW d, At(w, n, d), parse = "running",
         AfterSeparator \/ AtSeparator \/ Positional
  PROVE  Reads'
<1> DEFINE s == WrittenOut
<1>1. /\ pending # << >> /\ (optionsDone \/ ~Group(arg))
      /\ pending' = Tail(pending) /\ UNCHANGED <<argv, flags, texts, parse>>
  BY DEF AfterSeparator, AtSeparator, Positional, Turn, Group, Separator
<1>2. /\ s \in Seq(Arguments) /\ d \in Nat /\ d + 1 \in 1 .. Len(s) /\ End(s) \in Nat
      /\ arg = s[d + 1] /\ arg \in Arguments
      /\ optionsDone <=> d + 1 > End(s)
      /\ ~optionsDone /\ arg # Separator <=> d + 1 < End(s)
      /\ ~optionsDone /\ arg = Separator <=> d + 1 = End(s)
  BY <1>1, FrontAt
<1>3. PICK m : Follows(pending', w, m, d + 1)
  BY <1>1, FrontAt
<1>4. ReadTo(s, d, flags, texts, positionals) /\ Served(s, d) /\ Written(w)
  BY DEF At
<1> HIDE DEF s
<1>5. optionsDone' <=> End(s) <= d + 1
  BY <1>2 DEF AfterSeparator, AtSeparator, Positional, Turn, Separator
<1>6. d + 1 < End(s) => ~IsOption(s[d + 1])
  BY <1>2 DEF AfterSeparator, AtSeparator, Positional, Turn, Separator, IsOption
<1>7. d + 1 \in Standing(s) <=> positionals' # positionals
  <2>1. IsValue(s, d + 1) => d \in 1 .. End(s) - 1 /\ WantsNext(s[d])
    BY <1>2 DEF IsValue
  <2>2. ~IsValue(s, d + 1)
    BY <1>4, <2>1 DEF Served
  <2>3. d + 1 \in Standing(s) <=> d + 1 > End(s) \/ (d + 1 < End(s) /\ s[d + 1].kind \in {"word", "dash"})
    BY <1>2, <2>2, Places
  <2>4. positionals \in Seq(Arguments) /\ Append(positionals, arg) # positionals
    BY <1>2, AppendProperties, LenProperties DEF ArgTypes
  <2> QED BY <1>2, <2>3, <2>4 DEF AfterSeparator, AtSeparator, Positional, Turn, Separator
<1>8. positionals' = IF d + 1 \in Standing(s) THEN Append(positionals, s[d + 1]) ELSE positionals
  BY <1>2, <1>7 DEF AfterSeparator, AtSeparator, Positional
<1>9. d + 1 \notin Set(s) /\ d + 1 \notin Given(s)
  BY <1>2, <1>6, Places
<1>10. d + 1 < End(s) => ~WantsNext(s[d + 1]) /\ FaultOf(s, d + 1) = "none"
  BY <1>6 DEF WantsNext, FaultOf
<1>11. ReadTo(s, d + 1, flags', texts', positionals')
  <2>1. texts \in Seq(Values) /\ positionals \in Seq(Arguments)
    BY DEF ArgTypes
  <2> QED BY <1>1, <1>2, <1>4, <1>8, <1>9, <1>10, <2>1, ReadOne
<1>12. Served(s, d + 1)
  <2>1. d + 1 \in 1 .. End(s) - 1 => d + 1 < End(s)
    BY <1>2
  <2> QED BY <1>10, <2>1 DEF Served
<1> QED BY <1>1, <1>3, <1>4, <1>5, <1>11, <1>12, GoesOn DEF s

LEMMA ExpandReads ==
  ASSUME ArgTypes, NEW w, NEW n, NEW d, At(w, n, d), parse = "running", Expand
  PROVE  Reads'
<1>1. /\ pending # << >> /\ ~optionsDone /\ Group(arg)
      /\ pending' = Expansion(arg) \o Tail(pending)
      /\ UNCHANGED <<argv, optionsDone, flags, texts, positionals, parse>>
  BY DEF Expand, Turn
<1>2. /\ argv \in Seq(Arguments) /\ pending \in Seq(Arguments) /\ Written(w)
      /\ Follows(pending, w, n, d) /\ (optionsDone <=> End(WrittenOut) <= d)
      /\ ReadTo(WrittenOut, d, flags, texts, positionals) /\ Served(WrittenOut, d)
  BY DEF ArgTypes, At
<1>3. arg = pending[1]
  BY <1>1, QueueTyped
<1>4. d < End(WrittenOut)
  <2>1. n \in 0 .. Len(argv) /\ d \in 0 .. w[n]
    BY <1>2 DEF Follows
  <2>2. w[n] \in Nat
    BY <1>2, <2>1 DEF Written
  <2>3. End(WrittenOut) \in Nat
    BY <1>2, WrittenNumbers
  <2> QED BY <1>1, <1>2, <2>1, <2>2, <2>3
<1>5. \E m : Follows(pending', w, m, d)
  BY <1>1, <1>2, <1>3, <1>4, GroupOpened
<1> QED BY <1>1, <1>2, <1>5, GoesOn

\* An option that is one part of the vector.
LEMMA OptionFront ==
  ASSUME ArgTypes, NEW w, NEW n, NEW d, At(w, n, d), NEW names, Option(names)
  PROVE  LET s == WrittenOut IN
         /\ s \in Seq(Arguments) /\ d \in Nat /\ d + 1 \in 1 .. Len(s) /\ End(s) \in Nat
         /\ arg = s[d + 1] /\ arg \in Arguments /\ d + 1 < End(s)
         /\ IsOption(s[d + 1]) /\ OptionOf(s[d + 1]) \in names
         /\ d + 1 \notin Standing(s)
         /\ (d + 1 \in Set(s) <=> OptionOf(s[d + 1]) \in Booleans)
         /\ (d + 1 \in Given(s) <=> OptionOf(s[d + 1]) = "text")
         /\ ~optionsDone
         /\ \E m : Follows(Tail(pending), w, m, d + 1)
<1> DEFINE s == WrittenOut
<1>1. /\ pending # << >> /\ ~optionsDone /\ IsOption(arg) /\ OptionOf(arg) \in names
      /\ ~Group(arg) /\ arg # Separator
  BY DEF Option, Turn, IsOption, Group, Separator
<1>2. /\ s \in Seq(Arguments) /\ d \in Nat /\ d + 1 \in 1 .. Len(s) /\ End(s) \in Nat
      /\ arg = s[d + 1] /\ arg \in Arguments
      /\ ~optionsDone /\ arg # Separator <=> d + 1 < End(s)
      /\ \E m : Follows(Tail(pending), w, m, d + 1)
  BY <1>1, FrontAt
<1> HIDE DEF s
<1>3. d + 1 < End(s) /\ s[d + 1].kind \notin {"word", "dash"}
  BY <1>1, <1>2 DEF IsOption
<1>4. /\ d + 1 \notin Standing(s)
      /\ (d + 1 \in Set(s) <=> OptionOf(s[d + 1]) \in Booleans)
      /\ (d + 1 \in Given(s) <=> OptionOf(s[d + 1]) = "text")
  <2>1. ~(d + 1 > End(s))
    BY <1>2, <1>3
  <2> QED BY <1>1, <1>2, <1>3, <2>1, Places
<1> QED BY <1>1, <1>2, <1>3, <1>4 DEF s

LEMMA OptionReads ==
  ASSUME ArgTypes, NEW w, NEW n, NEW d, At(w, n, d), parse = "running", Flag \/ TextInline
  PROVE  Reads'
<1> DEFINE s == WrittenOut
           names == IF Flag THEN Booleans ELSE {"text"}
<1>1. /\ Option(names) /\ pending' = Tail(pending)
      /\ UNCHANGED <<argv, optionsDone, positionals, parse>>
  BY DEF Flag, TextInline
<1>2. /\ s \in Seq(Arguments) /\ d \in Nat /\ d + 1 \in 1 .. Len(s) /\ End(s) \in Nat
      /\ arg = s[d + 1] /\ arg \in Arguments /\ d + 1 < End(s)
      /\ IsOption(s[d + 1]) /\ OptionOf(s[d + 1]) \in names
      /\ d + 1 \notin Standing(s)
      /\ (d + 1 \in Set(s) <=> OptionOf(s[d + 1]) \in Booleans)
      /\ (d + 1 \in Given(s) <=> OptionOf(s[d + 1]) = "text")
      /\ ~optionsDone
      /\ \E m : Follows(Tail(pending), w, m, d + 1)
  BY <1>1, OptionFront
<1>3. ReadTo(s, d, flags, texts, positionals) /\ Written(w)
  BY DEF At
<1> HIDE DEF s
<1>4. ~WantsNext(s[d + 1]) /\ FaultOf(s, d + 1) = "none"
  <2>1. CASE Flag
    <3>1. OptionOf(s[d + 1]) \in Booleans /\ InlineOf(s[d + 1]) = None
      BY <1>2, <2>1 DEF Flag
    <3>2. OptionOf(s[d + 1]) # "text" /\ OptionOf(s[d + 1]) # "unknown"
      BY <3>1 DEF Booleans
    <3> QED BY <3>1, <3>2 DEF WantsNext, FaultOf
  <2>2. CASE ~Flag
    <3>1. InlineOf(s[d + 1]) # None /\ OptionOf(s[d + 1]) = "text"
      BY <1>2, <2>2 DEF TextInline
    <3> QED BY <3>1 DEF WantsNext, FaultOf, Booleans
  <2> QED BY <2>1, <2>2
<1>5. /\ flags' = IF d + 1 \in Set(s) THEN flags \cup {OptionOf(s[d + 1])} ELSE flags
      /\ texts' = IF d + 1 \in Given(s) THEN Append(texts, TextAt(s, d + 1)) ELSE texts
      /\ d + 1 \in Given(s) => TextAt(s, d + 1) \in Values
  <2>1. CASE Flag
    BY <1>2, <2>1 DEF Flag, Booleans
  <2>2. CASE ~Flag
    <3>1. OptionOf(s[d + 1]) = "text" /\ InlineOf(s[d + 1]) # None
      BY <1>2, <2>2 DEF TextInline
    <3>2. TextAt(s, d + 1) = InlineOf(s[d + 1])
      BY <1>4 DEF TextAt
    <3>3. TextAt(s, d + 1) \in Values
      BY <1>2, <3>1, <3>2, InlineTyped
    <3> QED BY <1>2, <2>2, <3>1, <3>2, <3>3 DEF TextInline, Booleans
  <2> QED BY <2>1, <2>2
<1>6. ReadTo(s, d + 1, flags', texts', positionals')
  <2>1. texts \in Seq(Values) /\ positionals \in Seq(Arguments)
    BY DEF ArgTypes
  <2> QED BY <1>1, <1>2, <1>3, <1>4, <1>5, <2>1, ReadOne
<1>7. Served(s, d + 1) /\ (optionsDone' <=> End(s) <= d + 1)
  BY <1>1, <1>2, <1>4 DEF Served
<1>8. PICK m : Follows(pending', w, m, d + 1)
  BY <1>1, <1>2
<1> QED BY <1>1, <1>3, <1>6, <1>7, <1>8, GoesOn DEF s

LEMMA TextNextReads ==
  ASSUME ArgTypes, NEW w, NEW n, NEW d, At(w, n, d), parse = "running", TextNext
  PROVE  Reads'
<1> DEFINE s == WrittenOut
           t == Tail(pending)
<1>1. /\ Option({"text"}) /\ InlineOf(arg) = None /\ Len(pending) > 1 /\ pending[2].kind = "word"
      /\ texts' = Append(texts, pending[2].word) /\ pending' = Tail(t) /\ pending # << >>
      /\ UNCHANGED <<argv, optionsDone, flags, positionals, parse>>
  BY DEF TextNext, BareText, Option, Turn
<1>2. /\ s \in Seq(Arguments) /\ d \in Nat /\ d + 1 \in 1 .. Len(s) /\ End(s) \in Nat
      /\ arg = s[d + 1] /\ d + 1 < End(s)
      /\ IsOption(s[d + 1]) /\ OptionOf(s[d + 1]) = "text"
      /\ d + 1 \notin Standing(s) /\ d + 1 \notin Set(s) /\ d + 1 \in Given(s)
      /\ ~optionsDone
      /\ \E m : Follows(t, w, m, d + 1)
  <2>1. "text" \notin Booleans
    BY DEF Booleans
  <2> QED BY <1>1, <2>1, OptionFront
<1>3. PICK m : Follows(t, w, m, d + 1)
  BY <1>2
<1>4. /\ ReadTo(s, d, flags, texts, positionals) /\ Written(w) /\ argv \in Seq(Arguments)
      /\ texts \in Seq(Values) /\ positionals \in Seq(Arguments) /\ pending \in Seq(Arguments)
  BY DEF At, ArgTypes
<1>5. t \in Seq(Arguments) /\ t # << >> /\ t[1] = pending[2] /\ t[1] \in Arguments
  <2>1. t \in Seq(Arguments) /\ Len(t) = Len(pending) - 1 /\ Len(pending) \in Nat
        /\ \A i \in 1 .. Len(pending) - 1 : t[i] = pending[i + 1]
    BY <1>1, QueueTyped
  <2> HIDE DEF t
  <2>2. 1 \in 1 .. Len(pending) - 1 /\ Len(t) # 0
    BY <1>1, <2>1
  <2>3. t[1] = pending[2] /\ t # << >>
    BY <2>1, <2>2, EmptySeq
  <2> QED BY <2>1, <2>2, <2>3, LenProperties
<1>6. ~Group(t[1]) /\ t[1] # Separator /\ ~IsOption(t[1]) /\ t[1].word \in Values
  BY <1>1, <1>5 DEF Group, Separator, IsOption, Arguments, Values
<1>7. /\ (d + 1) + 1 \in 1 .. Len(s) /\ s[(d + 1) + 1] = t[1]
      /\ \E k : Follows(Tail(t), w, k, (d + 1) + 1)
  <2> HIDE DEF t
  <2> QED BY <1>3, <1>4, <1>5, <1>6, FrontTaken
<1> DEFINE e == d + 1
           f == e + 1
<1> HIDE DEF s, t
<1>8. /\ e \in Nat /\ f < End(s) /\ f \notin Set(s) /\ f \notin Given(s) /\ f \notin Standing(s)
  <2>1. e \in Nat /\ f \in 1 .. Len(s) /\ s[f] = t[1] /\ f - 1 = e /\ f > 1
    BY <1>2, <1>7
  <2>2. f < End(s)
    <3>1. f # End(s)
      BY <1>2, <1>6, <2>1, Places
    <3> QED BY <1>2, <3>1
  <2>3. IsValue(s, f)
    <3>1. WantsNext(s[e])
      BY <1>1, <1>2 DEF WantsNext
    <3> QED BY <2>1, <2>2, <3>1 DEF IsValue
  <2> HIDE DEF e, f
  <2>4. f \notin Set(s) /\ f \notin Given(s) /\ f \notin Standing(s)
    <3>1. ~(f > End(s))
      BY <1>2, <2>1, <2>2
    <3> QED BY <1>2, <1>6, <2>1, <2>2, <2>3, <3>1, Places
  <2> QED BY <2>1, <2>2, <2>4
<1>9. WantsNext(s[e]) /\ TextAt(s, e) = pending[2].word /\ FaultOf(s, e) = "none"
  <2>1. WantsNext(s[e])
    BY <1>1, <1>2 DEF WantsNext
  <2>2. TextAt(s, e) = s[f].word
    BY <2>1 DEF TextAt
  <2>3. e < Len(s) /\ e # Len(s)
    <3>1. Len(s) \in Nat
      BY <1>2, LenProperties
    <3> QED BY <1>2, <1>7, <3>1
  <2>4. s[e + 1].kind = "word"
    BY <1>1, <1>5, <1>7
  <2>5. FaultOf(s, e) = "none"
    BY <1>1, <1>2, <2>3, <2>4 DEF FaultOf, Booleans
  <2> QED BY <1>5, <1>7, <2>1, <2>2, <2>5
<1>10. texts' \in Seq(Values)
  BY <1>1, <1>4, <1>5, <1>6, AppendProperties
<1>11. ReadTo(s, e, flags, texts', positionals)
  <2>1. TextAt(s, e) \in Values
    BY <1>5, <1>6, <1>9
  <2> QED BY <1>1, <1>2, <1>4, <1>9, <2>1, ReadOne
<1>12. ReadTo(s, f, flags, texts', positionals)
  <2>1. FaultOf(s, f) = "none"
    BY <1>6, <1>7 DEF FaultOf, WantsNext
  <2>2. e \in Nat /\ e + 1 \in 1 .. Len(s) /\ FaultOf(s, e + 1) = "none"
        /\ e + 1 \notin Set(s) /\ e + 1 \notin Given(s) /\ e + 1 \notin Standing(s)
    BY <1>7, <1>8, <2>1
  <2>3. s \in Seq(Arguments) /\ texts' \in Seq(Values) /\ positionals \in Seq(Arguments)
    BY <1>2, <1>4, <1>10
  <2> HIDE DEF e
  <2>4. ReadTo(s, e + 1, flags, texts', positionals)
    BY <1>11, <2>2, <2>3, ReadOne
  <2> QED BY <2>4 DEF f
<1>13. Served(s, f) /\ (optionsDone' <=> End(s) <= f)
  BY <1>1, <1>2, <1>6, <1>7, <1>8 DEF Served, WantsNext
<1>14. PICK k : Follows(pending', w, k, f)
  BY <1>1, <1>7
<1> HIDE DEF f
<1> QED BY <1>1, <1>4, <1>12, <1>13, <1>14, GoesOn DEF s

LEMMA ErrorReads ==
  ASSUME ArgTypes, NEW w, NEW n, NEW d, At(w, n, d), parse = "running",
         Unknown \/ FlagWithValue \/ TextMissing \/ TextAmbiguous
  PROVE  Reads'
<1> DEFINE s == WrittenOut
           t == Tail(pending)
           names == IF Unknown THEN {"unknown"} ELSE IF FlagWithValue THEN Booleans ELSE {"text"}
<1>1. /\ Option(names) /\ argv' = argv /\ pending # << >>
  BY DEF Unknown, FlagWithValue, TextMissing, TextAmbiguous, BareText, Refuse, Option, Turn
<1>2. /\ s \in Seq(Arguments) /\ d \in Nat /\ d + 1 \in 1 .. Len(s) /\ End(s) \in Nat
      /\ arg = s[d + 1] /\ d + 1 < End(s)
      /\ IsOption(s[d + 1]) /\ OptionOf(s[d + 1]) \in names
      /\ \E m : Follows(t, w, m, d + 1)
  <2> HIDE DEF names
  <2> QED BY <1>1, OptionFront
<1>3. PICK m : Follows(t, w, m, d + 1)
  BY <1>2
<1>4. /\ \A i \in 1 .. d : i < End(s) => FaultOf(s, i) = "none"
      /\ Written(w) /\ argv \in Seq(Arguments) /\ pending \in Seq(Arguments)
  BY DEF At, ArgTypes, ReadTo
<1>5. t \in Seq(Arguments) /\ Len(t) = Len(pending) - 1 /\ Len(pending) \in Nat
      /\ \A i \in 1 .. Len(pending) - 1 : t[i] = pending[i + 1]
  BY <1>1, QueueTyped
<1>6. Len(s) \in Nat
  BY <1>2, LenProperties
<1> SUFFICES parse' = FaultOf(s, d + 1) /\ parse' \notin {"none", "running"}
  BY <1>1, <1>2, <1>4, Faulted
<1>10. /\ Unknown => OptionOf(s[d + 1]) = "unknown"
       /\ FlagWithValue /\ ~Unknown => OptionOf(s[d + 1]) \in Booleans
       /\ ~FlagWithValue /\ ~Unknown => OptionOf(s[d + 1]) = "text"
  BY <1>2
<1> HIDE DEF s, t, names
<1>7. CASE Unknown
  <2>1. OptionOf(s[d + 1]) = "unknown" /\ IsOption(s[d + 1]) /\ parse' = "unknown"
    BY <1>2, <1>7, <1>10 DEF Unknown, Refuse
  <2>2. OptionOf(s[d + 1]) \notin Booleans /\ ~WantsNext(s[d + 1])
    BY <2>1 DEF Booleans, WantsNext
  <2> QED BY <2>1, <2>2 DEF FaultOf
<1>8. CASE FlagWithValue /\ ~Unknown
  <2>1. OptionOf(s[d + 1]) \in Booleans /\ InlineOf(s[d + 1]) # None /\ parse' = "valued"
    BY <1>2, <1>8, <1>10 DEF FlagWithValue, Refuse
  <2>2. OptionOf(s[d + 1]) # "unknown" /\ OptionOf(s[d + 1]) # "text"
    BY <2>1 DEF Booleans
  <2> QED BY <1>2, <2>1, <2>2 DEF FaultOf, WantsNext
<1>9. ASSUME ~Unknown, ~FlagWithValue
      PROVE  parse' = FaultOf(s, d + 1) /\ parse' \notin {"none", "running"}
  <2>1. OptionOf(s[d + 1]) = "text" /\ "text" \notin Booleans /\ InlineOf(s[d + 1]) = None
        /\ WantsNext(s[d + 1])
    BY <1>2, <1>9, <1>10 DEF TextMissing, TextAmbiguous, BareText, WantsNext, Booleans
  <2>2. CASE TextMissing
    <3>1. Len(pending) = 1 /\ parse' = "missing"
      BY <2>2 DEF TextMissing, Refuse
    <3>2. t = << >>
      BY <1>5, <3>1, EmptySeq
    <3>3. d + 1 = Len(s)
      BY <1>3, <1>4, <3>2, QueueEmptied DEF s
    <3> QED BY <1>6, <2>1, <3>1, <3>3 DEF FaultOf
  <2>3. CASE TextAmbiguous
    <3>1. Len(pending) > 1 /\ pending[2].kind # "word" /\ parse' = "ambiguous"
      BY <2>3 DEF TextAmbiguous, Refuse
    <3>2. t # << >> /\ t[1] = pending[2] /\ t[1] \in Arguments
      <4>1. 1 \in 1 .. Len(pending) - 1 /\ Len(t) # 0
        BY <1>5, <3>1
      <4> QED BY <1>5, <4>1, EmptySeq, LenProperties
    <3>3. (d + 1) + 1 \in 1 .. Len(s) /\ s[(d + 1) + 1].kind # "word"
      <4>1. CASE d + 1 < End(s) /\ Group(t[1])
        <5>1. /\ (d + 1) + 1 \in 1 .. Len(s)
              /\ s[(d + 1) + 1] \in {Expansion(t[1])[i] : i \in DOMAIN Expansion(t[1])}
          BY <1>3, <1>4, <1>5, <3>2, <4>1, GroupOpened DEF s
        <5>2. PICK i \in DOMAIN Expansion(t[1]) : s[(d + 1) + 1] = Expansion(t[1])[i]
          BY <5>1
        <5>3. Expansion(t[1])[i] = Separator \/ Expansion(t[1])[i].kind = "short"
          BY <3>2, <4>1, ExpansionParts
        <5> QED BY <5>1, <5>2, <5>3 DEF Separator
      <4>2. CASE ~(d + 1 < End(s) /\ Group(t[1]))
        <5>1. (d + 1) + 1 \in 1 .. Len(s) /\ s[(d + 1) + 1] = t[1]
          BY <1>3, <1>4, <1>5, <3>2, <4>2, FrontTaken DEF s
        <5> QED BY <3>1, <3>2, <5>1
      <4> QED BY <4>1, <4>2
    <3>4. d + 1 < Len(s) /\ d + 1 # Len(s)
      BY <1>2, <1>6, <3>3
    <3> QED BY <2>1, <3>1, <3>3, <3>4 DEF FaultOf
  <2> QED BY <1>9, <2>2, <2>3
<1> QED BY <1>7, <1>8, <1>9

LEMMA ParsedReads ==
  ASSUME ArgTypes, NEW w, NEW n, NEW d, At(w, n, d), parse = "running", Parsed
  PROVE  Reads'
<1> DEFINE s == WrittenOut
<1>1. /\ pending = << >> /\ parse' = "parsed"
      /\ UNCHANGED <<argv, pending, optionsDone, flags, texts, positionals>>
  BY DEF Parsed
<1>2. /\ argv \in Seq(Arguments) /\ Written(w) /\ Follows(<< >>, w, n, d)
      /\ ReadTo(s, d, flags, texts, positionals)
  BY <1>1 DEF ArgTypes, At
<1>3. d = Len(s) /\ s \in Seq(Arguments)
  BY <1>2, QueueEmptied, VectorWritten
<1>4. WrittenOut' = s
  BY <1>1, VectorStays
<1> HIDE DEF s
<1>5. DOMAIN s = 1 .. d /\ d \in Nat
  BY <1>3, LenProperties
<1>6. Faults(s) = {}
  BY <1>2, <1>5 DEF ReadTo, Faults
<1>7. UpTo(Set(s), d) = Set(s) /\ UpTo(Given(s), d) = Given(s) /\ UpTo(Standing(s), d) = Standing(s)
  BY <1>5 DEF UpTo, Set, Given, Standing, Options
<1>8. /\ flags = {OptionOf(s[i]) : i \in Set(s)}
      /\ InOrder(texts, Given(s), [i \in Given(s) |-> TextAt(s, i)])
      /\ InOrder(positionals, Standing(s), s)
  BY <1>2, <1>7 DEF ReadTo, ValuesOf
<1>9. ParseExact'
  BY <1>1, <1>4, <1>6, <1>8 DEF ParseExact
<1> QED BY <1>1, <1>9 DEF Reads

LEMMA ReadsInit == ArgTypes /\ ArgInit => Reads
<1> SUFFICES ASSUME ArgTypes, ArgInit PROVE Reads
  OBVIOUS
<1> DEFINE s == WrittenOut
<1>1. argv \in Seq(Arguments) /\ pending = argv /\ ~optionsDone /\ flags = {} /\ texts = << >>
      /\ positionals = << >> /\ parse = "running"
  BY DEF ArgTypes, ArgInit
<1>2. PICK w : Written(w)
  BY <1>1, VectorWritten
<1>3. Len(argv) \in Nat /\ End(s) \in 1 .. Len(s) + 1 /\ Len(s) \in Nat /\ s \in Seq(Arguments)
  BY <1>1, WrittenNumbers, VectorWritten
<1> HIDE DEF s
<1>4. w[0] = 0
  BY <1>2 DEF Written
<1>5. Follows(pending, w, 0, 0)
  BY <1>1, <1>3, <1>4 DEF Follows
<1>6. UpTo(Set(s), 0) = {} /\ UpTo(Given(s), 0) = {} /\ UpTo(Standing(s), 0) = {}
  <2>1. DOMAIN s = 1 .. Len(s)
    BY <1>3, LenProperties
  <2> QED BY <1>3, <2>1 DEF UpTo, Set, Given, Standing, Options
<1>7. Cardinality({}) = 0
  BY FS_EmptySet
<1>8. ReadTo(s, 0, flags, texts, positionals)
  <2>1. \A value : InOrder(<< >>, {}, value)
    BY <1>7 DEF InOrder
  <2>2. 1 .. 0 = {}
    OBVIOUS
  <2> QED BY <1>1, <1>6, <2>1, <2>2 DEF ReadTo
<1>9. At(w, 0, 0)
  BY <1>1, <1>2, <1>3, <1>5, <1>8 DEF At, Served, s
<1> QED BY <1>1, <1>9 DEF Reads, ParseExact

LEMMA ReadsKept == ArgTypes /\ Reads /\ ArgStep => Reads'
<1> SUFFICES ASSUME ArgTypes, Reads, ArgStep PROVE Reads'
  OBVIOUS
<1>1. parse = "running"
  BY ReadsOn
<1>2. PICK w, n, d : At(w, n, d)
  BY <1>1 DEF Reads
<1> QED BY <1>1, <1>2, PositionalReads, ExpandReads, OptionReads, TextNextReads, ErrorReads,
           ParsedReads DEF ArgStep

\* For any arguments, reading them off the queue, with groups split on the way
\* and pushed back, comes to what the vector means when it is written out.
THEOREM ReadsAsWritten == Spec => []ParseExact
<1>1. Init => Reads
  <2> SUFFICES ASSUME Init PROVE Reads
    OBVIOUS
  <2>1. ArgTypes /\ ArgInit
    BY InitCInv DEF CInv, Init
  <2> QED BY <2>1, ReadsInit
<1>2. CInv /\ Reads /\ [Next]_vars => Reads'
  <2> SUFFICES ASSUME CInv, Reads, [Next]_vars PROVE Reads'
    OBVIOUS
  <2>1. ArgTypes
    BY DEF CInv
  <2>2. CASE Arguing
    BY <2>1, <2>2, ReadsKept DEF Arguing
  <2>3. CASE UNCHANGED parsing
    <3>1. /\ argv' = argv /\ pending' = pending /\ optionsDone' = optionsDone /\ flags' = flags
          /\ texts' = texts /\ positionals' = positionals /\ parse' = parse
      BY <2>3 DEF parsing
    <3>2. \A w, n, d : At(w, n, d)' = At(w, n, d)
      BY <3>1, VectorStays DEF At
    <3>3. ParseExact' = ParseExact
      BY <3>1, VectorStays DEF ParseExact
    <3> QED BY <3>1, <3>2, <3>3 DEF Reads
  <2>4. Arguing \/ UNCHANGED parsing
    <3>1. \A code, out, err : Ends(code, out, err) => UNCHANGED parsing
      BY DEF Ends
    <3>2. \A next : Goes(next) => UNCHANGED parsing
      BY DEF Goes
    <3>3. UsageFail => UNCHANGED parsing
      BY <3>1 DEF UsageFail
    <3>4. ArgsRefused \/ Help \/ Version \/ QuietAndJson \/ NoGrammar \/ StdinTwice
          \/ GrammarUnreadable \/ FileUnreadable \/ StdinUnreadable \/ Refused \/ Report
            => UNCHANGED parsing
      BY <3>1, <3>3 DEF ArgsRefused, Help, Version, QuietAndJson, NoGrammar, StdinTwice,
         GrammarUnreadable, FileUnreadable, StdinUnreadable, Refused, Report
    <3>5. ReadGrammar \/ ReadFile \/ TakeTexts \/ ReadStdin \/ Strip \/ Compile \/ Accept \/ Reject
            => UNCHANGED parsing
      BY <3>2 DEF ReadGrammar, ReadFile, TakeTexts, ReadStdin, Strip, Compile, Accept, Reject
    <3>6. UNCHANGED vars => UNCHANGED parsing
      BY DEF vars
    <3> QED BY <3>4, <3>5, <3>6 DEF Next, Done
  <2> QED BY <2>2, <2>3, <2>4
<1>3. Reads => ParseExact
  BY DEF Reads
<1> QED BY <1>1, <1>2, <1>3, CInvariance, PTL DEF Spec
=============================================================================
