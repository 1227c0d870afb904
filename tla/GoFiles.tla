------------------------------ MODULE GoFiles ------------------------------
(***************************************************************************)
(* The Go side of tools/port-deps.cjs: go.mod, the files under go/, the    *)
(* build constraint that keeps a file out, and the imports of a file.      *)
(*                                                                         *)
(* An import path is the sequence of its elements, so "is the module or    *)
(* under it" is IsPrefix.  A line of a file's header is a record: what it  *)
(* starts with, and whether it opens or closes a block comment or goes on  *)
(* with code.  The rest of the file is the tokens goImports reads, up to   *)
(* Bad for a token it refuses.                                             *)
(***************************************************************************)
EXTENDS Naturals, Sequences, SequencesExt

CONSTANTS Bad,        \* a value that cannot be read
          NoRepo,     \* a name outside the org
          Org,        \* the first elements of every module of the org
          Dotted      \* the first elements that hold a dot

-----------------------------------------------------------------------------
(* go.mod *)

\* One line of tokens; `//` comments are gone but for the mark of an indirect
\* requirement.
GoModStart == [module |-> Bad, block |-> "", requires |-> {}, ok |-> TRUE]
Directive(s, verb, args, indirect) ==
  CASE verb = "module" ->
         [s EXCEPT !.ok = Len(args) = 1 /\ s.module = Bad,
                   !.module = IF Len(args) = 1 THEN args[1] ELSE @]
    [] verb = "require" ->
         [s EXCEPT !.ok = Len(args) = 2,
                   !.requires = IF Len(args) = 2
                                THEN @ \cup {[path |-> args[1], indirect |-> indirect]} ELSE @]
    [] OTHER -> s

GoModLine(s, line) ==
  LET open == <<"(">>  close == <<")">>
  IN  IF ~s.ok \/ line.toks = <<>> THEN s
      ELSE IF line.toks = <<Bad>> THEN [s EXCEPT !.ok = FALSE]
      ELSE IF s.block # ""
      THEN IF line.toks[1] = close THEN [s EXCEPT !.ok = Len(line.toks) = 1, !.block = ""]
           ELSE Directive(s, s.block, line.toks, line.indirect)
      ELSE IF Len(line.toks) > 1 /\ line.toks[2] = open
      THEN [s EXCEPT !.ok = Len(line.toks) = 2, !.block = line.toks[1][1]]
      ELSE Directive(s, line.toks[1][1], Tail(line.toks), line.indirect)

parseGoMod(lines) ==
  LET s == FoldLeft(GoModLine, GoModStart, lines)
  IN  [s EXCEPT !.ok = s.ok /\ s.block = "" /\ s.module # Bad]

-----------------------------------------------------------------------------
(* goIgnored: is the file's build constraint exactly `ignore`? *)

\* What the pieces of one line do to the comment state, in order; "over" is
\* the first text that is no comment, where the header ends.
Piece(s, p) ==
  CASE s.stop # "" -> s
    [] s.stop = "" /\ s.star -> [s EXCEPT !.star = p # "*/"]
    [] OTHER -> CASE p = "//" -> [s EXCEPT !.stop = "line"]
                  [] p = "/*" -> [s EXCEPT !.star = TRUE]
                  [] OTHER    -> [s EXCEPT !.stop = "over"]

Slashed(line) == line.pieces # <<>> /\ line.pieces[1] = "//"
Build == {"go:build ignore", "go:build other"}

HeaderStart == [k |-> 0, end |-> 0, ended |-> FALSE, star |-> FALSE,
                build |-> "", twice |-> FALSE, over |-> FALSE]

\* Not in the code: a build line inside a block comment counts.
MCounts(s, line) == Slashed(line) /\ line.note \in Build
\* The line itself starts with //go:build, outside a block comment.
Counts(s, line) == ~s.star /\ Slashed(line) /\ line.note \in Build

HeaderLine(s, line) ==
  IF s.over THEN s
  ELSE LET read  == FoldLeft(Piece, [star |-> s.star, stop |-> ""], line.pieces)
           blank == line.pieces = <<>> /\ ~s.ended
           build == Counts(s, line)
       IN [k |-> s.k + 1, end |-> IF blank THEN s.k + 1 ELSE s.end,
           ended |-> s.ended \/ (~blank /\ ~Slashed(line)), star |-> read.star,
           build |-> IF build THEN line.note ELSE s.build,
           twice |-> s.twice \/ (build /\ s.build # ""), over |-> read.stop = "over"]

\* A `//go:build` line decides alone; a `// +build` line counts only above
\* the last blank line of the leading run of comments.
goIgnored(lines) ==
  LET s == FoldLeft(HeaderLine, HeaderStart, lines)
  IN  CASE s.twice -> Bad
        [] ~s.twice /\ s.build # "" -> s.build = "go:build ignore"
        [] OTHER -> \E i \in 1..s.end : Slashed(lines[i]) /\ lines[i].note = "+build ignore"

-----------------------------------------------------------------------------
(* goImports: the import declarations come after the package clause and
   before every other declaration; the reader stops at the first other one. *)

Word(w) == [t |-> "word", v |-> <<w>>]
Punct(p) == [t |-> "punct", v |-> <<p>>]

ImportSpec(s, tok) ==
  CASE tok.t = "string" ->
         [s EXCEPT !.out = Append(@, tok.v), !.at = IF s.grouped THEN "group" ELSE "top"]
    [] s.at # "alias" /\ (tok.t = "word" \/ tok = Punct(".")) -> [s EXCEPT !.at = "alias"]
    [] OTHER -> [s EXCEPT !.at = "refused"]

\* Not in the code: only the first import declaration is read.
MDeclares(s, tok) == tok = Word("import") /\ s.out = <<>>
Declares(s, tok) == tok = Word("import")

ImportToken(s, tok) ==
  CASE s.at \in {"over", "refused"} -> s
    [] tok.t = "bad"   -> [s EXCEPT !.at = "refused"]
    [] s.at = "start"  -> [s EXCEPT !.at = IF tok = Word("package") THEN "named" ELSE "refused"]
    [] s.at = "named"  -> [s EXCEPT !.at = IF tok.t = "word" THEN "top" ELSE "refused"]
    [] s.at = "top"    -> IF tok = Punct(";") THEN s
                          ELSE IF Declares(s, tok)
                          THEN [s EXCEPT !.at = "import", !.grouped = FALSE]
                          ELSE [s EXCEPT !.at = "over"]
    [] s.at = "import" /\ tok = Punct("(") -> [s EXCEPT !.at = "group", !.grouped = TRUE]
    [] s.at = "group" /\ tok = Punct(")")  -> [s EXCEPT !.at = "top"]
    [] s.at = "group" /\ tok = Punct(";")  -> s
    [] OTHER -> ImportSpec(s, tok)

goImports(tokens) ==
  LET s == FoldLeft(ImportToken, [at |-> "start", out |-> <<>>, grouped |-> FALSE],
                    Append(tokens, [t |-> "eof", v |-> <<>>]))
  IN  IF s.at = "over" THEN s.out ELSE Bad

-----------------------------------------------------------------------------
(* The files, and the port *)

\* goFiles: nothing hidden, linked or skipped, and no other module.
SkipDirs == {"vendor", "node_modules", "testdata"}
\* Not in the code: a module below go/ counts as part of this one.
MEntered(d) == ~d.link /\ ~d.hidden /\ d.name \notin SkipDirs
Entered(d) == ~d.link /\ ~d.hidden /\ d.name \notin SkipDirs /\ ~d.ownModule
goFiles(files) ==
  {f \in files : f.go /\ ~f.link /\ ~f.hidden /\ \A i \in 1..Len(f.dirs) : Entered(f.dirs[i])}

Under(path, module) == IsPrefix(module, path)
InOrg(path) == Len(path) > Len(Org) /\ IsPrefix(Org, path)
\* github.com/<org>/<id>/go, or below it
RepoOf(path) ==
  IF Len(path) >= Len(Org) + 2 /\ InOrg(path) /\ path[Len(Org) + 2] = "go"
  THEN path[Len(Org) + 1] ELSE NoRepo
ModuleRepo(module) == IF Len(module) = Len(Org) + 2 THEN RepoOf(module) ELSE NoRepo

\* The module of go.mod an import outside the org comes from: the longest.
Required(path, requires) ==
  {r \in requires : /\ Under(path, r.path) /\ ~r.indirect
                    /\ \A q \in requires : Under(path, q.path) => Len(q.path) <= Len(r.path)}

readGo(go) ==
  LET mod     == parseGoMod(go.mod)
      seen    == goFiles(go.files)
      kept    == {f \in seen : goIgnored(f.head) = FALSE}
      paths(f) == {p \in ToSet(goImports(f.toks)) : ~Under(p, mod.module)}
      ids(fs) == {RepoOf(p) : p \in {q \in UNION {paths(f) : f \in fs} : InOrg(q)}}
      library == {f \in kept : ~f.test}
  IN  IF \/ ~mod.ok
         \/ \E f \in seen : goIgnored(f.head) = Bad
         \/ \E f \in kept : goImports(f.toks) = Bad
         \/ NoRepo \in ids(kept)
      THEN Bad
      ELSE [id |-> ModuleRepo(mod.module), runtime |-> ids(library), optional |-> {},
            dev |-> ids(kept \ library) \ ids(library),
            external |-> UNION {{r.path : r \in Required(p, mod.requires)} :
                                  p \in {q \in UNION {paths(f) : f \in library} :
                                            ~InOrg(q) /\ q[1] \in Dotted}}]
=============================================================================
