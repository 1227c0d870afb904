------------------------------- MODULE MCTools -------------------------------
(***************************************************************************)
(* The three programs that keep the repository's own records: each         *)
(* behaviour runs one of them, on files chosen here.                       *)
(***************************************************************************)
EXTENDS MCPortDeps, ValeCounts, EmbedTranslate

VARIABLE tool
toolsVars == <<depsAll, valeVars, embedVars, tool>>

-----------------------------------------------------------------------------
(* vale-counts: two rules with the comment above each in several shapes,
   and a header with three claims on one line.  `r` records what the files
   say; Files with the measured numbers is what they should say. *)

Comment(syms) == [t |-> "comment", syms |-> <<"#">> \o syms]
RuleLines(rule, level, shape, n, counted) ==
  (CASE shape = "line"    -> <<Comment(Digits(n) \o <<"_", "hits">>)>>
     [] shape = "wrapped" -> <<Comment(<<"txt", "_">> \o Digits(n)), Comment(<<"hits">>)>>
     [] shape = "twice"   -> <<Comment(Digits(n) \o <<"_", "hits", "_">> \o Digits(n) \o <<"_", "hits">>)>>
     [] shape = "text"    -> <<Comment(<<"a">> \o Digits(2) \o <<"nd", "_", "txt">>)>>
     [] OTHER             -> <<>>)
  \o (IF counted /\ shape \in {"text", "none"} THEN <<CountLine(n)>> ELSE <<>>)
  \o <<[t |-> "rule", rule |-> rule, level |-> level]>>
Header1(total, files, terms, next) ==
  Digits(total) \o <<"alerts across">> \o Digits(files) \o <<"_", noun(files), "_">>
  \o Digits(terms) \o <<"domain terms", "a">> \o Digits(next) \o <<"th">>
IniOf(r, counted) ==
  <<Comment(Header1(r.total, r.files, r.terms, r.next)), [t |-> "setting"]>>
  \o RuleLines("r1", r.level, r.shape, r.r1, counted) \o <<[t |-> "blank"], Comment(Digits(7) \o <<"_", "hits">>), [t |-> "blank"]>>
  \o RuleLines("r2", "warning", r.shape2, r.r2, counted)
GuideOf(r) ==
  <<"txt", "_">> \o Digits(r.total) \o <<"alerts across">> \o Digits(r.files) \o <<"_", noun(r.files), "_">>
  \o Digits(r.terms) \o <<"domain terms">>
Recordings ==
  [total : {9, 10}, files : {1, 12}, terms : {9, 10}, next : {10, 11}, r1 : {9, 10}, r2 : {1},
   level : {"NO", "suggestion"}, shape : {"line", "wrapped", "twice", "text", "none"}, shape2 : {"line", "none"}]
BothFiles ==
  {LET truth == [r EXCEPT !.total = 10, !.files = 12, !.r1 = 10,
                          !.terms = IF t = None THEN @ ELSE 10, !.next = IF t = None THEN @ ELSE 11]
   IN [ini |-> IniOf(r, FALSE), guide |-> GuideOf(r), hits |-> [k \in {"r1", "r2"} |-> IF k = "r1" THEN 10 ELSE 1],
       total |-> 10, files |-> 12, terms |-> t, version |-> v,
       trueIni |-> IniOf(truth, TRUE), trueGuide |-> GuideOf(truth)] :
     r \in Recordings, <<t, v>> \in {<<10, TRUE>>, <<10, FALSE>>, <<None, TRUE>>}}
MCDocuments == BothFiles \cup
  {[d EXCEPT !.guide = None, !.trueGuide = None] :
     d \in {e \in BothFiles : \A i \in DOMAIN e.ini : e.ini[i].t = "rule" => e.ini[i].level # "NO"}}

-----------------------------------------------------------------------------
(* embed-translate *)

Texts == {<<>>} \cup UNION {[1..n -> {Backslash, Backtick, "$", "{", CR, LF, "x"}] : n \in 1..3}
NoFiles == [f \in {} |-> <<>>]
Published == [manifest |-> <<"x">>, parts |-> NoFiles]
Tree(manifest, spec, named, files) ==
  [manifest |-> manifest, object |-> TRUE, spec |-> spec, named |-> named, files |-> files,
   published |-> Published,
   stale |-> [c \in {"go", "rs"} \X {"manifest.json", "a.alc"} |-> <<"$">>]]
SpecOf(l, e, r) == [k \in ToSet(Kinds) |-> CASE k = "lift" -> l [] k = "embed" -> e [] OTHER -> r]
AllNamed == [k \in ToSet(Kinds) |-> TRUE]
TwoFiles(a, b) == [f \in {"a.alc", "b.alc"} |-> IF f = "a.alc" THEN a ELSE b]
MCAlc == {"a.alc", "b.alc", "other/a.alc"}
MCBase(name) == IF name = "other/a.alc" THEN "a.alc" ELSE name

\* Every source, in one tree that nobody edits; and trees edited into each
\* other, with a source that is empty, missing, or of another's base name.
Sourced == {Tree(<<"x">>, SpecOf("a.alc", NoPart, "json"), AllNamed, TwoFiles(t, <<>>)) : t \in Texts}
Shaped ==
  {Tree(m, SpecOf(l, "b.alc", r), [AllNamed EXCEPT !["embed"] = n], TwoFiles(a, <<"{">>)) :
     m \in {NoPart, <<"x", "$">>}, l \in {NoPart, "a.alc"}, r \in {NoPart, "json"}, n \in BOOLEAN,
     a \in {<<>>, <<"x">>}}
  \cup {Tree(<<"x">>, SpecOf("a.alc", NoPart, "other/a.alc"), AllNamed,
             [f \in fs |-> IF f = "a.alc" THEN <<"x">> ELSE t]) :
          fs \in {{"a.alc"}, {"a.alc", "other/a.alc"}}, t \in {<<>>, <<"{">>}}
  \cup {[Tree(<<"x">>, SpecOf("a.alc", NoPart, NoPart), AllNamed, TwoFiles(<<>>, <<>>)) EXCEPT !.object = FALSE]}
MCTrees == Sourced \cup Shaped
MCEdits(t) == IF t \in Shaped THEN Shaped ELSE {}

-----------------------------------------------------------------------------
(* One of the three *)

DepsIdle == /\ repo = NoneThere /\ args = <<>> /\ phase = "args" /\ ports = [p \in PORTS |-> NoPort]
            /\ problems = {} /\ report = NoReport /\ code = Missing /\ TomlInit(<<>>)
ValeIdle == /\ docs = CHOOSE d \in MCDocuments : TRUE
            /\ ini = docs.ini /\ guide = docs.guide /\ scratch = FALSE /\ step = "idle" /\ write = FALSE
            /\ byRule = docs.hits /\ wrong = {} /\ runs = 0 /\ settled = FALSE
EmbedIdle == /\ tree = Tree(NoPart, SpecOf(NoPart, NoPart, NoPart), AllNamed, NoFiles)
             /\ translateTs = Published /\ copies = tree.stale /\ todo = <<>> /\ embedStep = "idle" /\ embeds = 0

ToolsInit ==
  \/ tool = "port-deps" /\ DepsInit /\ ValeIdle /\ EmbedIdle
  \/ tool = "vale-counts" /\ DepsIdle /\ ValeInit /\ EmbedIdle
  \/ tool = "embed-translate" /\ DepsIdle /\ ValeIdle /\ EmbedInit
ToolsNext ==
  /\ UNCHANGED tool
  /\ \/ tool = "port-deps" /\ DepsNext /\ UNCHANGED <<valeVars, embedVars>>
     \/ tool = "vale-counts" /\ ValeNext /\ UNCHANGED <<depsAll, embedVars>>
     \/ tool = "embed-translate" /\ EmbedNext /\ UNCHANGED <<depsAll, valeVars>>
ToolsSpec == ToolsInit /\ [][ToolsNext]_toolsVars
=============================================================================
