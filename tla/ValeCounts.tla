----------------------------- MODULE ValeCounts -----------------------------
(***************************************************************************)
(* ts/scripts/vale-counts.cjs: the counts .vale.ini and the style guide    *)
(* record in prose, checked against a run of Vale, or rewritten by it.     *)
(*                                                                         *)
(* Text is a sequence of symbols: a digit, or a word the patterns look     *)
(* for, so that a count that gains a digit moves what follows on its line. *)
(* A claim may wrap: a block of comment lines is matched as joined prose,  *)
(* each symbol with the line and column it came from.                      *)
(*                                                                         *)
(* What Vale reports (`docs.hits`, by rule) is an input; a rule that is    *)
(* off reports nothing unless the scratch configuration turns it on.  A    *)
(* run may throw where Vale or a page is missing, and may be killed        *)
(* between any two steps; at most MaxRuns runs follow one another.         *)
(***************************************************************************)
EXTENDS Naturals, Sequences, SequencesExt, FiniteSetsExt

CONSTANTS Documents,   \* the files and measures of the instance
          MaxRuns,     \* how many runs
          None         \* no rule, no line, no vocabulary, no guide

VARIABLES docs,        \* the files as they were, what Vale reports of them
          ini, guide,  \* .vale.ini and docs/STYLE-GUIDE.md on disk
          scratch,     \* .vale-counts.ini is there
          step, write, byRule, wrong,
          runs, settled \* runs begun; a run with --write has ended well
valeVars == <<docs, ini, guide, scratch, step, write, byRule, wrong, runs, settled>>

Digit == <<"0", "1", "2", "3", "4", "5", "6", "7", "8", "9">>
IsDigit(s) == s \in ToSet(Digit)
Digits(n) == (IF n < 10 THEN <<>> ELSE <<Digit[(n \div 10) + 1]>>) \o <<Digit[(n % 10) + 1]>>

\* Not in the code: 11, 12 and 13 take the suffix of their last digit.
MordinalLast(n) ==
  CASE n % 10 = 1 -> "st" [] n % 10 = 2 -> "nd" [] n % 10 = 3 -> "rd" [] OTHER -> "th"
ordinal(n) == IF n % 100 \in 11..13 THEN "th"
              ELSE CASE n % 10 = 1 -> "st" [] n % 10 = 2 -> "nd" [] n % 10 = 3 -> "rd" [] OTHER -> "th"
OrdinalEnds == {"st", "nd", "rd", "th"}
noun(n) == IF n = 1 THEN "file" ELSE "files"

-----------------------------------------------------------------------------
(* Lines, blocks, claims *)

\* join: the "#" goes, a blank takes the place of each line end.
Placed(line, index) == [c \in 1..(Len(line.syms) - 1) |-> [s |-> line.syms[c + 1], line |-> index, col |-> c + 1]]
join(text, line, index) ==
  text \o (IF text = <<>> THEN <<>> ELSE <<[s |-> "_", line |-> None, col |-> 0]>>) \o Placed(line, index)

\* blocks: the comment lines right above a rule belong to it; above anything
\* else they belong to no rule.
BlockLine(s, line) ==
  LET found(rule, level) == Append(s.found, [rule |-> rule, level |-> level, text |-> s.text, at |-> s.n + 1])
  IN  CASE line.t = "comment" -> [s EXCEPT !.n = @ + 1, !.text = join(s.text, line, s.n + 1)]
        [] line.t = "rule" -> [n |-> s.n + 1, text |-> <<>>, found |-> found(line.rule, line.level)]
        [] OTHER -> [n |-> s.n + 1, text |-> <<>>,
                     found |-> IF s.text = <<>> THEN s.found ELSE found(None, "")]
blocks(lines) ==
  LET s == FoldLeft(BlockLine, [n |-> 0, text |-> <<>>, found |-> <<>>], lines)
  IN  ToSet(s.found) \cup (IF s.text = <<>> THEN {}
                           ELSE {[rule |-> None, level |-> "", text |-> s.text, at |-> s.n + 1]})

\* The number that begins at i: where it ends, what it says.
Sym(text, i) == IF i \in 1..Len(text) THEN text[i].s ELSE ""
Begins(text, i) == IsDigit(Sym(text, i)) /\ ~IsDigit(Sym(text, i - 1))
End(text, i) == CHOOSE e \in i..Len(text) : ~IsDigit(Sym(text, e + 1)) /\ \A j \in i..e : IsDigit(Sym(text, j))
Tells(text, i, n) == [j \in 1..(End(text, i) - i + 1) |-> text[i + j - 1].s] = Digits(n)
Numbers(text) == {i \in 1..Len(text) : Begins(text, i)}

\* HITS, SPAN, TERMS, NEXT: the numbers that begin such a claim
Hits(text) == {i \in Numbers(text) : Sym(text, End(text, i) + 1) = "_"
                                     /\ Sym(text, End(text, i) + 2) \in {"hit", "hits"}}
Span(text) == {i \in Numbers(text) :
                 /\ Sym(text, End(text, i) + 1) = "alerts across"
                 /\ Begins(text, End(text, i) + 2)
                 /\ Sym(text, End(text, End(text, i) + 2) + 1) = "_"
                 /\ Sym(text, End(text, End(text, i) + 2) + 2) \in {"file", "files"}}
Terms(text) == {i \in Numbers(text) : Sym(text, End(text, i) + 1) = "domain terms"}
NextTerm(text) == {i \in Numbers(text) : Sym(text, i - 1) = "a" /\ Sym(text, End(text, i) + 1) \in OrdinalEnds}

\* An edit puts `to` in the place of the symbols i..e.
Edit(text, i, e, to) == [line |-> text[i].line, col |-> text[i].col, n |-> e - i + 1, to |-> to]
NumberEdit(text, i, n) == Edit(text, i, End(text, i), Digits(n))

HitEdits(text, n) == {NumberEdit(text, i, n) : i \in {j \in Hits(text) : ~Tells(text, j, n)}}
SpanEdits(text) ==
  UNION {LET f == End(text, i) + 2  w == End(text, f) + 2
         IN  IF Tells(text, i, docs.total) /\ Tells(text, f, docs.files) /\ Sym(text, w) = noun(docs.files)
             THEN {}
             ELSE {NumberEdit(text, i, docs.total), NumberEdit(text, f, docs.files),
                   Edit(text, w, w, <<noun(docs.files)>>)} : i \in Span(text)}
TermEdits(text) ==
  IF docs.terms = None THEN {}
  ELSE {NumberEdit(text, i, docs.terms) : i \in {j \in Terms(text) : ~Tells(text, j, docs.terms)}}
\* Only in the block that states the size.
NextEdits(text) ==
  IF docs.terms = None \/ Terms(text) = {} THEN {}
  ELSE UNION {IF Tells(text, i, docs.terms + 1) /\ Sym(text, End(text, i) + 1) = ordinal(docs.terms + 1) THEN {}
              ELSE {NumberEdit(text, i, docs.terms + 1),
                    Edit(text, End(text, i) + 1, End(text, i) + 1, <<ordinal(docs.terms + 1)>>)} :
                i \in NextTerm(text)}

Reported(rule) == IF rule \in DOMAIN byRule THEN byRule[rule] ELSE 0
BlockEdits(b) == (IF b.rule = None THEN {} ELSE HitEdits(b.text, Reported(b.rule)))
                 \cup SpanEdits(b.text) \cup TermEdits(b.text) \cup NextEdits(b.text)
Uncounted(b) == b.rule # None /\ b.level \in {"warning", "suggestion", "NO"} /\ Hits(b.text) = {}
CountLine(n) == [t |-> "comment", syms |-> <<"#">> \o Digits(n) \o <<"_", IF n = 1 THEN "hit" ELSE "hits">>]

-----------------------------------------------------------------------------
(* The rewrite *)

\* Not in the code: the edits of a line are made from its start.
MRightFirst(n) == [i \in 1..n |-> i]
RightFirst(n) == [i \in 1..n |-> n + 1 - i]

Applied(syms, e) == SubSeq(syms, 1, e.col - 1) \o e.to \o SubSeq(syms, e.col + e.n, Len(syms))
Rewritten(syms, edits) ==
  FoldLeft(LAMBDA s, c : FoldSet(LAMBDA e, t : Applied(t, e), s, {e \in edits : e.col = c}),
           syms, RightFirst(Len(syms)))
edit(lines, edits) ==
  [i \in 1..Len(lines) |-> IF \E e \in edits : e.line = i
                           THEN [lines[i] EXCEPT !.syms = Rewritten(@, {e \in edits : e.line = i})]
                           ELSE lines[i]]

\* The missing counts go in last, the lowest first, so that no line moves
\* before its own is in.
Inserted(lines, bs) ==
  FoldLeft(LAMBDA ls, i : FoldSet(LAMBDA b, t : InsertAt(t, i, CountLine(Reported(b.rule))),
                                  ls, {b \in bs : b.at = i}),
           lines, RightFirst(Len(lines)))

Remade(lines) ==
  LET bs == blocks(lines)
  IN  Inserted(edit(lines, UNION {BlockEdits(b) : b \in bs}), {b \in bs : Uncounted(b)})

\* The guide is one text; only the total and the vocabulary are looked for.
\* A guide that is not there makes no claim and is not written.
GuideEdits(g) ==
  IF g = None THEN {}
  ELSE LET text == Placed([syms |-> <<"#">> \o g], 1) IN SpanEdits(text) \cup TermEdits(text)
GuideRemade(g) ==
  IF g = None THEN None ELSE Tail(edit(<<[syms |-> <<"#">> \o g]>>, GuideEdits(g))[1].syms)

Wrong ==
  {"version" : v \in IF docs.version THEN {} ELSE {1}}
  \cup {"guide" : e \in GuideEdits(guide)}
  \cup UNION {{"uncounted" : v \in IF Uncounted(b) THEN {1} ELSE {}} \cup {"count" : e \in BlockEdits(b)} :
                b \in blocks(ini)}

-----------------------------------------------------------------------------
(* The program *)

Off == {ini[i].rule : i \in {j \in 1..Len(ini) : ini[j].t = "rule" /\ ini[j].level = "NO"}}

ValeInit ==
  /\ docs \in Documents /\ ini = docs.ini /\ guide = docs.guide
  /\ scratch = FALSE /\ step = "idle" /\ write = FALSE /\ byRule = docs.hits /\ wrong = {}
  /\ runs = 0 /\ settled = FALSE

StartCounts ==
  /\ step \in {"idle", "exit", "threw", "killed"} /\ runs < MaxRuns
  /\ write' \in BOOLEAN /\ step' = "measure" /\ runs' = runs + 1 /\ wrong' = {}
  /\ UNCHANGED <<docs, ini, guide, scratch, byRule, settled>>

\* gatedDocs throws when a declared page is gone, vale when it cannot run.
MeasureLive ==
  /\ step = "measure" /\ UNCHANGED <<docs, ini, guide, write, wrong, runs, settled>>
  /\ \/ step' = "threw" /\ UNCHANGED <<scratch, byRule>>
     \/ /\ byRule' = [r \in DOMAIN docs.hits |-> IF r \in Off THEN 0 ELSE docs.hits[r]]
        /\ step' = IF Off = {} THEN "compare" ELSE "scratch"
        /\ scratch' = (scratch \/ Off # {})

\* `finally`: the scratch goes whether Vale ran or not.
Sweep(threw) == scratch' = FALSE

\* The second run, with the rules that are off turned on.
MeasureOff ==
  /\ step = "scratch" /\ UNCHANGED <<docs, ini, guide, write, wrong, runs, settled>>
  /\ \/ step' = "threw" /\ Sweep(TRUE) /\ UNCHANGED byRule
     \/ /\ step' = "compare" /\ Sweep(FALSE)
        /\ byRule' = [r \in DOMAIN byRule |-> IF r \in Off THEN docs.hits[r] ELSE byRule[r]]

CompareCounts ==
  /\ step = "compare" /\ UNCHANGED <<docs, ini, guide, scratch, write, byRule, runs, settled>>
  /\ wrong' = Wrong /\ step' = IF write THEN "ini" ELSE "exit"

WriteIni ==
  /\ step = "ini" /\ ini' = Remade(ini) /\ step' = "guide"
  /\ UNCHANGED <<docs, guide, scratch, write, byRule, wrong, runs, settled>>

WriteGuide ==
  /\ step = "guide" /\ guide' = GuideRemade(guide) /\ step' = "exit" /\ settled' = TRUE
  /\ UNCHANGED <<docs, ini, scratch, write, byRule, wrong, runs>>

Kill ==
  /\ step \in {"measure", "scratch", "compare", "ini", "guide"} /\ step' = "killed"
  /\ UNCHANGED <<docs, ini, guide, scratch, write, byRule, wrong, runs, settled>>

ValeNext == StartCounts \/ MeasureLive \/ MeasureOff \/ CompareCounts \/ WriteIni \/ WriteGuide \/ Kill

-----------------------------------------------------------------------------
(* Properties *)

\* The check passes exactly when what the files record is true: every count,
\* every total, the size of the vocabulary, and a count on each demoted rule.
CheckExact ==
  step = "exit" /\ ~settled /\ ini = docs.ini /\ guide = docs.guide =>
    (wrong = {}) = (docs.version /\ docs.ini = docs.trueIni /\ docs.guide = docs.trueGuide)

\* Once a run with --write has ended, whatever runs were cut short before and
\* whatever runs follow, the files are the ones written, with the measured
\* numbers in the place of the recorded ones and nothing else changed.
WrittenExact == settled => ini = docs.trueIni /\ guide = docs.trueGuide
=============================================================================
