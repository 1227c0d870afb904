------------------------------ MODULE ArgParse ------------------------------
(***************************************************************************)
(* parse_args of the Rust command line (rs/src/cli.rs), which reads the    *)
(* arguments of gbnf-check as node's parseArgs does. It keeps a queue,     *)
(* because a group of short options is split and its parts are pushed      *)
(* back to the front. One step is one turn of its loop.                    *)
(*                                                                         *)
(* An argument is the separator `--`, a lone `-`, a word, a long option    *)
(* with or without `=value`, or a `-` with the letters after it. What an   *)
(* error says is left out, but not which error it is.                      *)
(***************************************************************************)
EXTENDS Naturals, FiniteSets, SequencesExt

CONSTANTS
  Words,    \* arguments and values that do not begin with a dash
  Argvs,    \* the argument vectors a caller may pass
  None      \* no `=value`

Booleans == {"stdin", "json", "ast", "strip-final-newline", "quiet", "help", "version"}
Long == Booleans \cup {"text"}
Letters == {"t", "q", "h", "v"}
Chars == Letters \cup {"-", "x"}    \* "x" is any other character

Separator == [kind |-> "separator"]
Dash == [kind |-> "dash"]
Word(w) == [kind |-> "word", word |-> w]
LongOption(name, inline) == [kind |-> "long", name |-> name, inline |-> inline]
Short(letters) == [kind |-> "short", letters |-> letters]

\* "unknown" is any other name.
Arguments ==
  [kind : {"separator", "dash"}] \cup [kind : {"word"}, word : Words]
    \cup [kind : {"long"}, name : Long \cup {"unknown"}, inline : Words \cup {None}]
    \cup [kind : {"short"}, letters : Seq(Chars)]
Values == Words \cup [letters : Seq(Chars)]

\* The letters after a dash do not begin with one.
WellFormed(s) ==
  /\ s \in Seq(Arguments)
  /\ \A i \in DOMAIN s :
       s[i].kind = "short" => s[i].letters # << >> /\ s[i].letters[1] # "-"

ASSUME ArgvsAssumption == (\A s \in Argvs : WellFormed(s)) /\ None \notin Words

VARIABLES
  argv,
  pending,      \* the queue
  optionsDone,
  flags,        \* the boolean options that are set
  texts,        \* the values of --text
  positionals,
  parse         \* "running", "parsed" or the error

parsing == <<argv, pending, optionsDone, flags, texts, positionals, parse>>

\* It is not known, has a value it does not take, lacks one, or has one that
\* begins with a dash.
Errors == {"unknown", "valued", "missing", "ambiguous"}

ArgInit ==
  /\ argv \in Argvs
  /\ pending = argv
  /\ optionsDone = FALSE
  /\ flags = {}
  /\ texts = << >>
  /\ positionals = << >>
  /\ parse = "running"

-----------------------------------------------------------------------------
(* What an argument is.                                                    *)

\* The value is the rest of the argument.
Attached(a) == a.kind = "short" /\ Len(a.letters) > 1 /\ a.letters[1] = "t"
Group(a) == a.kind = "short" /\ Len(a.letters) > 1 /\ a.letters[1] # "t"
IsOption(a) == a.kind = "long" \/ (a.kind = "short" /\ ~Group(a))

ByShort == [t |-> "text", q |-> "quiet", h |-> "help", v |-> "version"]
OptionOf(a) ==
  IF a.kind = "long" THEN a.name
  ELSE IF a.letters[1] \in Letters THEN ByShort[a.letters[1]]
  ELSE "unknown"
InlineOf(a) ==
  IF a.kind = "long" THEN a.inline
  ELSE IF Attached(a) THEN [letters |-> Tail(a.letters)] ELSE None

\* A group ends at the first letter that takes a value: the rest is its value.
\* A dash in a group becomes the separator.
Expansion(a) ==
  LET letters == a.letters
      cut == SelectInSeq(letters, LAMBDA c : c = "t")
      Part(i) == IF i = cut THEN Short(SubSeq(letters, i, Len(letters)))
                 ELSE IF letters[i] = "-" THEN Separator
                 ELSE Short(<<letters[i]>>)
  IN [i \in 1 .. IF cut = 0 THEN Len(letters) ELSE cut |-> Part(i)]

-----------------------------------------------------------------------------
(* One turn of the loop, on the argument at the front of the queue.        *)

Turn == parse = "running" /\ pending # << >> /\ ~optionsDone
arg == Head(pending)

AfterSeparator ==
  /\ parse = "running" /\ pending # << >> /\ optionsDone
  /\ positionals' = Append(positionals, arg)
  /\ pending' = Tail(pending)
  /\ UNCHANGED <<argv, optionsDone, flags, texts, parse>>

AtSeparator ==
  /\ Turn /\ arg = Separator
  /\ optionsDone' = TRUE
  /\ pending' = Tail(pending)
  /\ UNCHANGED <<argv, flags, texts, positionals, parse>>

Positional ==
  /\ Turn /\ arg.kind \in {"word", "dash"}
  /\ positionals' = Append(positionals, arg)
  /\ pending' = Tail(pending)
  /\ UNCHANGED <<argv, optionsDone, flags, texts, parse>>

\* Not in the code: the parts are pushed to the front one after the other.
MExpandBackward ==
  /\ Turn /\ Group(arg)
  /\ pending' = Reverse(Expansion(arg)) \o Tail(pending)
  /\ UNCHANGED <<argv, optionsDone, flags, texts, positionals, parse>>

Expand ==
  /\ Turn /\ Group(arg)
  /\ pending' = Expansion(arg) \o Tail(pending)
  /\ UNCHANGED <<argv, optionsDone, flags, texts, positionals, parse>>

(* take, and the refusals before and in it.                                *)

Option(names) == Turn /\ IsOption(arg) /\ OptionOf(arg) \in names
Refuse(error) ==
  /\ parse' = error
  /\ UNCHANGED <<argv, pending, optionsDone, flags, texts, positionals>>

Unknown == Option({"unknown"}) /\ Refuse("unknown")

Flag ==
  /\ Option(Booleans) /\ InlineOf(arg) = None
  /\ flags' = flags \cup {OptionOf(arg)}
  /\ pending' = Tail(pending)
  /\ UNCHANGED <<argv, optionsDone, texts, positionals, parse>>

FlagWithValue == Option(Booleans) /\ InlineOf(arg) # None /\ Refuse("valued")

TextInline ==
  /\ Option({"text"}) /\ InlineOf(arg) # None
  /\ texts' = Append(texts, InlineOf(arg))
  /\ pending' = Tail(pending)
  /\ UNCHANGED <<argv, optionsDone, flags, positionals, parse>>

BareText == Option({"text"}) /\ InlineOf(arg) = None

TextMissing == BareText /\ Len(pending) = 1 /\ Refuse("missing")

\* It begins with a dash.
TextAmbiguous ==
  BareText /\ Len(pending) > 1 /\ pending[2].kind # "word" /\ Refuse("ambiguous")

TextNext ==
  /\ BareText /\ Len(pending) > 1 /\ pending[2].kind = "word"
  /\ texts' = Append(texts, pending[2].word)
  /\ pending' = Tail(Tail(pending))
  /\ UNCHANGED <<argv, optionsDone, flags, positionals, parse>>

Parsed ==
  /\ parse = "running" /\ pending = << >>
  /\ parse' = "parsed"
  /\ UNCHANGED <<argv, pending, optionsDone, flags, texts, positionals>>

ArgStep ==
  \/ AfterSeparator \/ AtSeparator \/ Positional \/ Expand
  \/ Unknown \/ Flag \/ FlagWithValue
  \/ TextInline \/ TextMissing \/ TextAmbiguous \/ TextNext \/ Parsed
Returned == parse # "running" /\ UNCHANGED parsing

ArgNext == ArgStep \/ Returned
ArgSpec == ArgInit /\ [][ArgNext]_parsing

-----------------------------------------------------------------------------
(* What the arguments mean, read without a queue: the vector with its      *)
(* groups written out up to the separator, where each argument's part      *)
(* follows from itself and from the one before it.                         *)

Splits(a) == IF a.kind = "short" /\ Group(a) THEN Expansion(a) ELSE <<a>>
HasSeparator(a) == \E i \in DOMAIN Splits(a) : Splits(a)[i] = Separator
FirstIn(s, Test(_)) == LET i == SelectInSeq(s, Test) IN IF i = 0 THEN Len(s) + 1 ELSE i

WrittenOut ==
  LET last == FirstIn(argv, HasSeparator) IN
    FlattenSeq([i \in DOMAIN argv |-> IF i <= last THEN Splits(argv[i]) ELSE <<argv[i]>>])
End(s) == FirstIn(s, LAMBDA a : a = Separator)

WantsNext(a) == IsOption(a) /\ OptionOf(a) = "text" /\ InlineOf(a) = None
IsValue(s, i) == i > 1 /\ i < End(s) /\ WantsNext(s[i - 1])
FaultOf(s, i) ==
  CASE IsOption(s[i]) /\ OptionOf(s[i]) = "unknown" -> "unknown"
    [] IsOption(s[i]) /\ OptionOf(s[i]) \in Booleans /\ InlineOf(s[i]) # None -> "valued"
    [] WantsNext(s[i]) /\ i = Len(s) -> "missing"
    [] WantsNext(s[i]) /\ i < Len(s) /\ s[i + 1].kind # "word" -> "ambiguous"
    [] OTHER -> "none"

Faults(s) == {i \in DOMAIN s : i < End(s) /\ FaultOf(s, i) # "none"}
Options(s) == {i \in DOMAIN s : i < End(s) /\ IsOption(s[i])}
Given(s) == {i \in Options(s) : OptionOf(s[i]) = "text"}
Set(s) == {i \in Options(s) : OptionOf(s[i]) \in Booleans}
Standing(s) ==
  {i \in DOMAIN s :
     i > End(s) \/ (i < End(s) /\ s[i].kind \in {"word", "dash"} /\ ~IsValue(s, i))}
TextAt(s, i) == IF WantsNext(s[i]) THEN s[i + 1].word ELSE InlineOf(s[i])

\* q holds what stands at each place in I, in the order of the places.
InOrder(q, I, value) ==
  /\ Len(q) = Cardinality(I)
  /\ \A i \in I : q[Cardinality({j \in I : j <= i})] = value[i]

\* The first fault ends the reading; without one, every argument before the
\* separator is a flag, a text, the value of the --text before it or a
\* positional, every one after it is a positional, and the order is kept.
ParseExact ==
  parse # "running" =>
    LET s == WrittenOut IN
      IF Faults(s) # {} THEN parse = FaultOf(s, Min(Faults(s)))
      ELSE /\ parse = "parsed"
           /\ flags = {OptionOf(s[i]) : i \in Set(s)}
           /\ InOrder(texts, Given(s), [i \in Given(s) |-> TextAt(s, i)])
           /\ InOrder(positionals, Standing(s), s)
=============================================================================
