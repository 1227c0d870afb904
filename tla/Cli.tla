-------------------------------- MODULE Cli --------------------------------
(***************************************************************************)
(* One run of gbnf-check (ts/src/cli.ts main, rs/src/cli.rs run): the      *)
(* arguments, the grammar, the samples, the verdicts, the report and the   *)
(* exit code. The two commands differ in who reads the arguments: node, or *)
(* ArgParse.                                                               *)
(*                                                                         *)
(* A text is a body and the number of newlines after it. External: what    *)
(* files and standard input hold, and the engine, of which only matters    *)
(* whether the grammar compiles and which texts it accepts.                *)
(***************************************************************************)
EXTENDS ArgParse

CONSTANTS
  Texts,        \* Words are among them
  Unreadable,
  Worlds        \* what a run may find

World ==
  [files : [Words -> Texts \cup {Unreadable}],
   stdin : Texts \cup {Unreadable},
   compiles : BOOLEAN,
   accepts : SUBSET Texts]
Bodies == {"empty", "short", "other"}

ASSUME WorldsAssumption ==
  /\ Words \subseteq Texts /\ Texts \subseteq [body : Bodies, newlines : Nat]
  /\ Unreadable \notin Texts
  /\ Worlds \subseteq World

VARIABLES
  world,
  wantJson,
  phase,
  stdin,        \* what is left to read of standard input
  samples,
  reports,
  exit,         \* the exit code; 4 as long as there is none
  stdout,       \* what was written to it
  stderr        \* whether anything was

running == <<world, wantJson, phase, stdin, samples, reports, exit, stdout, stderr>>
vars == <<parsing, running>>

Empty == [body |-> "empty", newlines |-> 0]
\* A value attached to its option stands for any text that is no word.
TextOf(v) == IF v \in Words THEN v ELSE [body |-> "other", newlines |-> 0]

\* Looked for before the options are read, up to a `--`.
WantJson ==
  \E i \in DOMAIN argv :
    argv[i] = LongOption("json", None) /\ \A j \in 1 .. i - 1 : argv[j] # Separator

Init ==
  /\ ArgInit
  /\ world \in Worlds
  /\ wantJson = WantJson
  /\ phase = "args"
  /\ stdin = world.stdin
  /\ samples = << >> /\ reports = << >>
  /\ exit = 4 /\ stdout = "nothing" /\ stderr = FALSE

Ends(code, out, err) ==
  /\ phase' = "done" /\ exit' = code /\ stdout' = out /\ stderr' = err
  /\ UNCHANGED <<parsing, world, wantJson, samples, reports>>

\* Not in the code: an input failure is prose on stderr whoever asked.
MUsageFailProse == Ends(3, "nothing", TRUE)

UsageFail == Ends(3, IF wantJson THEN "json" ELSE "nothing", ~wantJson)

Goes(next) ==
  /\ phase' = next
  /\ UNCHANGED <<parsing, world, wantJson, exit, stdout, stderr>>

-----------------------------------------------------------------------------
(* The arguments, and what they ask for together.                          *)

Arguing == phase = "args" /\ ArgStep /\ UNCHANGED running
ArgsRefused == phase = "args" /\ parse \in Errors /\ UsageFail /\ UNCHANGED stdin

Asked(option) == phase = "args" /\ parse = "parsed" /\ option \in flags
Help == Asked("help") /\ Ends(0, "help", FALSE) /\ UNCHANGED stdin
Version ==
  Asked("version") /\ "help" \notin flags /\ Ends(0, "version", FALSE) /\ UNCHANGED stdin

Proceeds == phase = "args" /\ parse = "parsed" /\ flags \cap {"help", "version"} = {}
QuietAndJson == Proceeds /\ {"quiet", "json"} \subseteq flags /\ UsageFail /\ UNCHANGED stdin

Loud == Proceeds /\ ~({"quiet", "json"} \subseteq flags)
NoGrammar == Loud /\ positionals = << >> /\ UsageFail /\ UNCHANGED stdin
StdinTwice ==
  /\ Loud /\ positionals # << >> /\ positionals[1] = Dash /\ "stdin" \in flags
  /\ UsageFail /\ UNCHANGED stdin

(* The grammar and the samples. A file that is not a word is not there.    *)

FileOf(a) == IF a.kind = "word" THEN world.files[a.word] ELSE Unreadable

\* Not in the code: the grammar and a sample may both come from stdin.
MGrammarAskedAnyway == Loud /\ positionals # << >>

GrammarAsked ==
  Loud /\ positionals # << >> /\ ~(positionals[1] = Dash /\ "stdin" \in flags)
GrammarIs(text) == text = IF positionals[1] = Dash THEN stdin ELSE FileOf(positionals[1])

GrammarUnreadable ==
  GrammarAsked /\ GrammarIs(Unreadable) /\ UsageFail /\ UNCHANGED stdin
ReadGrammar ==
  /\ GrammarAsked /\ ~GrammarIs(Unreadable)
  /\ stdin' = IF positionals[1] = Dash THEN Empty ELSE stdin
  /\ Goes("files") /\ UNCHANGED <<samples, reports>>

SampleFrom(source, text) == [from |-> source, text |-> text]
NextFile == positionals[Len(samples) + 2]
FilesLeft == phase = "files" /\ Len(samples) + 1 < Len(positionals)

FileUnreadable ==
  FilesLeft /\ FileOf(NextFile) = Unreadable /\ UsageFail /\ UNCHANGED stdin

ReadFile ==
  /\ FilesLeft /\ FileOf(NextFile) # Unreadable
  /\ samples' = Append(samples, SampleFrom("file", FileOf(NextFile)))
  /\ Goes("files") /\ UNCHANGED <<stdin, reports>>

TakeTexts ==
  /\ phase = "files" /\ ~FilesLeft
  /\ samples' = samples \o [i \in DOMAIN texts |-> SampleFrom("text", TextOf(texts[i]))]
  /\ Goes(IF "stdin" \in flags THEN "stdin" ELSE "strip") /\ UNCHANGED <<stdin, reports>>

StdinUnreadable == phase = "stdin" /\ stdin = Unreadable /\ UsageFail /\ UNCHANGED stdin
ReadStdin ==
  /\ phase = "stdin" /\ stdin # Unreadable
  /\ samples' = Append(samples, SampleFrom("stdin", stdin))
  /\ stdin' = Empty
  /\ Goes("strip") /\ UNCHANGED reports

EndsWithNewline(text) == text.newlines > 0

\* Not in the code: all of the final newlines go.
MStripAll(text) == [text EXCEPT !.newlines = 0]

StripOne(text) == IF EndsWithNewline(text) THEN [text EXCEPT !.newlines = @ - 1] ELSE text

Strip ==
  /\ phase = "strip"
  /\ samples' = IF "strip-final-newline" \in flags
                THEN [i \in DOMAIN samples |-> [samples[i] EXCEPT !.text = StripOne(@)]]
                ELSE samples
  /\ Goes("compile") /\ UNCHANGED <<stdin, reports>>

-----------------------------------------------------------------------------
(* The verdicts and the report.                                            *)

Compile ==
  /\ phase = "compile"
  /\ Goes(IF world.compiles THEN "check" ELSE "refused")
  /\ UNCHANGED <<stdin, samples, reports>>

Accepts(text) == text \in world.accepts
Verdict(s, ok, hint) == [from |-> s.from, text |-> s.text, ok |-> ok, hint |-> hint]
SamplesLeft == phase = "check" /\ Len(reports) < Len(samples)
Sample == samples[Len(reports) + 1]

Accept ==
  /\ SamplesLeft /\ Accepts(Sample.text)
  /\ reports' = Append(reports, Verdict(Sample, TRUE, FALSE))
  /\ Goes("check") /\ UNCHANGED <<stdin, samples>>

\* Not in the code: the hint is for every rejection without the option.
MRejectHints ==
  /\ SamplesLeft /\ ~Accepts(Sample.text)
  /\ reports' = Append(reports, Verdict(Sample, FALSE,
       "strip-final-newline" \notin flags /\ EndsWithNewline(Sample.text)))
  /\ Goes("check") /\ UNCHANGED <<stdin, samples>>

\* The hint is given when the sample parses without its last newline.
Reject ==
  /\ SamplesLeft /\ ~Accepts(Sample.text)
  /\ reports' = Append(reports, Verdict(Sample, FALSE,
       /\ "strip-final-newline" \notin flags
       /\ EndsWithNewline(Sample.text)
       /\ Accepts(StripOne(Sample.text))))
  /\ Goes("check") /\ UNCHANGED <<stdin, samples>>

\* What the report is written as.
Form == IF "json" \in flags THEN "json" ELSE IF "quiet" \in flags THEN "nothing" ELSE "prose"

Refused == phase = "refused" /\ Ends(2, Form, FALSE) /\ UNCHANGED stdin

Report ==
  /\ phase = "check" /\ ~SamplesLeft
  /\ Ends(IF \E i \in DOMAIN reports : ~reports[i].ok THEN 1 ELSE 0, Form, FALSE)
  /\ UNCHANGED stdin

Done == phase = "done" /\ UNCHANGED vars

Next ==
  \/ Arguing \/ ArgsRefused \/ Help \/ Version
  \/ QuietAndJson \/ NoGrammar \/ StdinTwice
  \/ GrammarUnreadable \/ ReadGrammar \/ FileUnreadable \/ ReadFile \/ TakeTexts
  \/ StdinUnreadable \/ ReadStdin \/ Strip
  \/ Compile \/ Accept \/ Reject \/ Refused \/ Report \/ Done

Spec == Init /\ [][Next]_vars

-----------------------------------------------------------------------------
(* What the run promises, from the world and the arguments as read.        *)

Informs == parse = "parsed" /\ flags \cap {"help", "version"} # {}
From(a) == IF a = Dash THEN world.stdin ELSE FileOf(a)

Misused ==
  \/ parse # "parsed"
  \/ {"quiet", "json"} \subseteq flags
  \/ positionals = << >>
  \/ positionals[1] = Dash /\ "stdin" \in flags
  \/ From(positionals[1]) = Unreadable
  \/ \E i \in 2 .. Len(positionals) : FileOf(positionals[i]) = Unreadable
  \/ "stdin" \in flags /\ world.stdin = Unreadable

\* The samples the caller named: files, then texts, then standard input.
Named ==
  [i \in 1 .. Len(positionals) - 1 |-> SampleFrom("file", FileOf(positionals[i + 1]))]
    \o [i \in DOMAIN texts |-> SampleFrom("text", TextOf(texts[i]))]
    \o (IF "stdin" \in flags THEN <<SampleFrom("stdin", world.stdin)>> ELSE << >>)
Shorter(text) == [text EXCEPT !.newlines = @ - 1]
Tested ==
  [i \in DOMAIN Named |->
     IF "strip-final-newline" \in flags /\ Named[i].text.newlines > 0
       THEN [Named[i] EXCEPT !.text = Shorter(@)] ELSE Named[i]]

\* The exit codes of the usage text. Anything wrong with the arguments or the
\* inputs, the last sample's included, comes before what the grammar is.
ExitExact ==
  phase = "done" =>
    exit = IF Informs THEN 0
           ELSE IF Misused THEN 3
           ELSE IF ~world.compiles THEN 2
           ELSE IF \E i \in DOMAIN Tested : Tested[i].text \notin world.accepts THEN 1
           ELSE 0

\* A report speaks of every sample named, in order, as it was tested, and of
\* none unless the grammar compiles; a hint says that dropping one newline,
\* which was not asked for, makes the sample pass.
ReportExact ==
  phase = "done" =>
    IF Informs \/ exit \in {2, 3} THEN reports = << >>
    ELSE /\ Len(reports) = Len(Tested)
         /\ \A i \in DOMAIN reports :
              LET text == Tested[i].text
                  ok == text \in world.accepts
              IN reports[i] = Verdict(Tested[i], ok,
                   /\ ~ok /\ text.newlines > 0 /\ "strip-final-newline" \notin flags
                   /\ Shorter(text) \in world.accepts)

\* `--json` among the options, before anything that ends them.
JsonAsked ==
  LET s == WrittenOut IN
    \E i \in DOMAIN s : i < End(s) /\ s[i] = LongOption("json", None)

\* Whoever asks for JSON gets one document and no prose, however the run
\* ends, unless it is help or the version that was asked for.
JsonKept == phase = "done" /\ JsonAsked /\ ~Informs => stdout = "json" /\ ~stderr
=============================================================================
