--------------------------- MODULE EmbedTranslate ---------------------------
(***************************************************************************)
(* ts/embed-translate.js: the repository's manifest and alchemy sources,   *)
(* written as ts/src/translate.ts and copied to go/translate and           *)
(* rs/translate.  The three places are read by three languages, and no     *)
(* run writes them in one step: a run may be killed between two writes,    *)
(* and the sources may be edited between two runs.                         *)
(*                                                                         *)
(* A text is a sequence of symbols; those a template literal reads         *)
(* specially stand for themselves.                                         *)
(***************************************************************************)
EXTENDS Naturals, Sequences, SequencesExt

CONSTANTS Trees,       \* the manifests and sources of the instance
          Edits(_),    \* what a tree may be edited to
          Alc,         \* the names that end in .alc
          Base(_),     \* path.basename
          NoPart,      \* a part or a file that is not there
          MaxEmbeds

VARIABLES tree,        \* what stands above ts/
          translateTs, \* ts/src/translate.ts: the literals it holds
          copies,      \* [runtime, file] -> text, under go/ and rs/
          todo, embedStep, embeds
embedVars == <<tree, translateTs, copies, todo, embedStep, embeds>>

Kinds == <<"lift", "embed", "render">>

-----------------------------------------------------------------------------
(* tsString, and what the compiler reads in the literal *)

Backslash == "backslash"
Backtick == "backtick"
CR == "carriage return"
LF == "line feed"

\* Not in the code: a backslash is left as it is.
MEscapedBare(c, next) == CASE c = Backtick -> <<Backslash, Backtick>>
                           [] c = "$" /\ next = "{" -> <<Backslash, "$">>
                           [] OTHER -> <<c>>
Escaped(c, next) == CASE c = Backslash -> <<Backslash, Backslash>>
                      [] c = Backtick -> <<Backslash, Backtick>>
                      [] c = "$" /\ next = "{" -> <<Backslash, "$">>
                      [] OTHER -> <<c>>
tsString(text) ==
  FlattenSeq([i \in 1..Len(text) |-> Escaped(text[i], IF i < Len(text) THEN text[i + 1] ELSE "")])

\* The ends of lines, as a template literal has them.
LineFeeds(s) ==
  FlattenSeq([i \in 1..Len(s) |-> IF s[i] = CR THEN <<LF>>
                                  ELSE IF s[i] = LF /\ i > 1 /\ s[i - 1] = CR THEN <<>>
                                  ELSE <<s[i]>>])

\* A template literal: a backslash gives the symbol after it, or joins a line to
\* the next, and neither a backtick nor the opening of a substitution stands
\* without one.
Literal(s) ==
  FoldLeft(LAMBDA r, c :
             IF r.escape THEN [r EXCEPT !.text = IF c = LF THEN @ ELSE Append(@, c),
                                        !.escape = FALSE, !.last = ""]
             ELSE IF c = Backslash THEN [r EXCEPT !.escape = TRUE]
             ELSE [r EXCEPT !.text = Append(@, c), !.last = c,
                            !.ok = @ /\ c # Backtick /\ ~(r.last = "$" /\ c = "{")],
           [text |-> <<>>, escape |-> FALSE, last |-> "", ok |-> TRUE], LineFeeds(s))

-----------------------------------------------------------------------------
(* The program *)

\* part: a file of the repository, embedded; or a render alchemy carries,
\* named only.
Named(kind) == tree.spec[kind]
IsFile(kind) == Named(kind) \in Alc
Source(kind) == tree.files[Named(kind)]
Parts == {k \in ToSet(Kinds) : Named(k) # NoPart}
\* A file that is not there throws, as what is no name does.
Refused ==
  \/ ~tree.object
  \/ \E k \in Parts : ~tree.named[k] \/ (IsFile(k) /\ Named(k) \notin DOMAIN tree.files)

Generated ==
  [manifest |-> tsString(tree.manifest),
   parts |-> [k \in Parts |-> IF IsFile(k) THEN tsString(Source(k)) ELSE NoPart]]

\* Not in the code: a source is copied whatever it holds.
MCopied(kind) == IsFile(kind)
\* An empty source is copied nowhere.
Copied(kind) == IsFile(kind) /\ Source(kind) # <<>>

\* After translate.ts, the copies, one file at a time.
CopyWrites(runtime) ==
  <<[runtime |-> runtime, file |-> "manifest.json", text |-> tree.manifest]>>
  \o [i \in 1..Len(SelectSeq(Kinds, Copied)) |->
       LET k == SelectSeq(Kinds, Copied)[i]
       IN [runtime |-> runtime, file |-> Base(Named(k)), text |-> Source(k)]]
\* Not in the code: only one port's copies are written.
MWritesGo == CopyWrites("go")
Writes == CopyWrites("go") \o CopyWrites("rs")

EmbedInit ==
  /\ \E t \in Trees : tree = t /\ translateTs = t.published /\ copies = t.stale
  /\ todo = <<>> /\ embedStep = "idle" /\ embeds = 0

EditSources ==
  /\ embedStep # "copying" /\ embeds < MaxEmbeds
  /\ tree' \in Edits(tree) /\ embedStep' = "idle"
  /\ UNCHANGED <<translateTs, copies, todo, embeds>>

\* An unpacked package has no manifest, and keeps what it was published with.
StartEmbed ==
  /\ embedStep # "copying" /\ embeds < MaxEmbeds
  /\ embeds' = embeds + 1 /\ UNCHANGED <<tree, copies>>
  /\ \/ /\ tree.manifest = NoPart /\ embedStep' = "kept" /\ UNCHANGED <<translateTs, todo>>
     \/ /\ tree.manifest # NoPart /\ Refused /\ embedStep' = "threw" /\ UNCHANGED <<translateTs, todo>>
     \/ /\ tree.manifest # NoPart /\ ~Refused
        /\ translateTs' = Generated /\ todo' = Writes /\ embedStep' = "copying"

CopyFile ==
  /\ embedStep = "copying" /\ UNCHANGED <<tree, translateTs, embeds>>
  /\ \/ /\ todo = <<>> /\ embedStep' = "done" /\ UNCHANGED <<todo, copies>>
     \/ /\ todo # <<>> /\ todo' = Tail(todo) /\ UNCHANGED embedStep
        /\ copies' = [c \in DOMAIN copies \cup {<<todo[1].runtime, todo[1].file>>} |->
                        IF c = <<todo[1].runtime, todo[1].file>> THEN todo[1].text ELSE copies[c]]

KillEmbed ==
  /\ embedStep = "copying" /\ embedStep' = "killed"
  /\ UNCHANGED <<tree, translateTs, copies, todo, embeds>>

EmbedNext == EditSources \/ StartEmbed \/ CopyFile \/ KillEmbed

-----------------------------------------------------------------------------
(* Properties *)

\* Once a run has ended, whatever an earlier one left behind and whatever was
\* edited since, the TypeScript compiler reads in translate.ts the manifest and
\* the sources, all of them, symbol for symbol but for the ends of lines, which
\* are line feeds there. The Go and Rust packages hold the manifest as it is,
\* and under each source's name the text it has, or the last of those that have
\* that name. Only an empty source is not there: what is under its name, if
\* anything is, was left by another run, and is not empty.
Reads(literal, text) == \E r \in {Literal(literal)} : r.ok /\ ~r.escape /\ r.text = LineFeeds(text)
SameBase(k) == {l \in Parts : IsFile(l) /\ Base(Named(l)) = Base(Named(k))}
Overwritten(k) ==
  \E i, j \in DOMAIN Kinds : Kinds[i] = k /\ i < j /\ Kinds[j] \in SameBase(k) /\ Source(Kinds[j]) # <<>>
CopiesAgree ==
  embedStep = "done" =>
    /\ Reads(translateTs.manifest, tree.manifest)
    /\ DOMAIN translateTs.parts = Parts
    /\ \A k \in Parts : IsFile(k) => Reads(translateTs.parts[k], Source(k))
    /\ \A runtime \in {"go", "rs"} :
         /\ copies[<<runtime, "manifest.json">>] = tree.manifest
         /\ \A k \in Parts : IsFile(k) /\ ~Overwritten(k) =>
              LET at == <<runtime, Base(Named(k))>> IN
                IF Source(k) # <<>> THEN copies[at] = Source(k)
                ELSE at \in DOMAIN copies => copies[at] # <<>>
=============================================================================
