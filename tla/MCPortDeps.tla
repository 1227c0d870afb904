----------------------------- MODULE MCPortDeps -----------------------------
(***************************************************************************)
(* Repositories for PortDeps: the small ones that every register is tried  *)
(* with, and for each ecosystem the manifests its reader has to tell apart *)
(***************************************************************************)
EXTENDS PortDepsProps

MCFrom2024 == {"2024", "2027"}
MCOrg == <<"github.com", "tabnas">>
MCDotted == {"github.com", "gopkg.in"}
MCNpmRepo == [n \in {"@tabnas/a", "@tabnas/b", "@tabnas/c"} |->
                CASE n = "@tabnas/a" -> "a" [] n = "@tabnas/b" -> "b" [] OTHER -> "c"]
MCCrateRepo == [n \in {"tabnas-a", "tabnas-b", "tabnas-c"} |->
                  CASE n = "tabnas-a" -> "a" [] n = "tabnas-b" -> "b" [] OTHER -> "c"]

One(n, s) == [k \in {n} |-> s]

-----------------------------------------------------------------------------
(* package.json *)

Pkg(deps) == [name |-> "@tabnas/a", dependencies |-> deps, peer |-> Missing, opt |-> Missing,
              dev |-> Missing, meta |-> Missing]
B == One("@tabnas/b", "")
SmallTs == { Missing, Pkg(Missing), Pkg(B),
             [Pkg(Missing) EXCEPT !.peer = B, !.meta = One("@tabnas/b", TRUE)],
             [Pkg(One("@tabnas/c", "")) EXCEPT !.dev = B],
             [Pkg(B) EXCEPT !.name = "@tabnas/c"], [Pkg(B) EXCEPT !.name = "gbnf"] }
Given == {Missing, B, [n \in {"@tabnas/b", "leftpad"} |-> IF n = "leftpad" THEN "@tabnas/c" ELSE ""],
          One("@tabnas/c", "@tabnas/b"), One("@tabnas/a", "")}
ManyTs ==
  {Bad, [Pkg(B) EXCEPT !.name = Bad], [Pkg(B) EXCEPT !.dev = Bad], Pkg(Bad), Pkg(One("leftpad", Bad))}
  \cup {[Pkg(d) EXCEPT !.peer = p, !.opt = o, !.dev = v, !.meta = m] :
          d \in Given, p \in Given, o \in {Missing, B}, v \in {Missing, One("@tabnas/c", "")},
          m \in {Missing, One("@tabnas/b", TRUE), One("@tabnas/b", Missing), One("@tabnas/b", Bad)}}

-----------------------------------------------------------------------------
(* Cargo.toml *)

K(parts) == [k |-> "key", parts |-> parts]
Hd(parts) == [k |-> "header", array |-> FALSE, parts |-> parts]
Hds(parts) == [k |-> "header", array |-> TRUE, parts |-> parts]
Str(v) == [k |-> "scalar", t |-> "string", v |-> v]
Bool(v) == [k |-> "scalar", t |-> "bool", v |-> v]
P(p) == [k |-> p]
NL == <<P("nl")>>
Ver == <<Str("1")>> \o NL

Package(edition) == <<Hd(<<"package">>)>> \o NL \o <<K(<<"name">>), Str("tabnas-a")>> \o NL
                    \o <<K(<<"edition">>), Str(edition)>> \o NL
Deps == <<Hd(<<"dependencies">>)>> \o NL
SmallRs == { Missing, Package("2021"), Package("2021") \o Deps \o <<K(<<"tabnas-b">>)>> \o Ver,
             Package("2021") \o <<Hd(<<"dev-dependencies">>)>> \o NL \o <<K(<<"tabnas-b">>)>> \o Ver }

Lines ==
  { Deps,
    <<Hd(<<"build_dependencies">>)>> \o NL, <<Hd(<<"build-dependencies">>)>> \o NL,
    <<Hd(<<"dependencies", "tabnas-b">>)>> \o NL,
    <<Hds(<<"bin">>)>> \o NL, <<Hd(<<"bin", "tabnas-b">>)>> \o NL,
    <<Hd(<<"target", "unix", "dependencies">>)>> \o NL,
    <<K(<<"target">>), P("{"), K(<<"unix", "dependencies">>), P("{"), K(<<"tabnas-b">>), Str("1"), P("}"), P("}")>> \o NL,
    <<K(<<"tabnas-b">>)>> \o Ver,
    <<K(<<"tabnas-b", "optional">>), Bool("true")>> \o NL,
    <<K(<<"tabnas-b", "workspace">>), Bool("true")>> \o NL,
    <<K(<<"x">>), P("{"), K(<<"version">>), Str("1"), P(","), P("nl"), K(<<"package">>), Str("tabnas-c"), P("}")>> \o NL,
    <<K(<<"x", "optional">>), Bool("true")>> \o NL,
    <<K(<<"package">>), Str("tabnas-c")>> \o NL,
    <<K(<<"tabnas-c">>), P("["), P("nl"), Str("1"), P(","), P("{"), P("}"), P("]")>> \o NL,
    <<K(<<"optional">>), P("["), Str("1"), Str("2"), P("]")>> \o NL,
    <<K(<<"tabnas-c">>), P("{"), K(<<"optional">>)>> \o Ver,
    <<K(<<"tabnas-c">>), P("nl"), P("bad")>> }
ManyRs == {Package(e) \o a \o b \o c : e \in {"2021"}, a \in Lines, b \in Lines, c \in Lines}
          \cup {Package("2024") \o a \o b : a \in Lines, b \in Lines}
          \cup {Package("2027") \o a : a \in Lines}
          \cup {a \o Package("2021") \o b : a \in Lines \cup {<<K(<<"dependencies", "tabnas-b">>)>> \o Ver}, b \in Lines}
          \cup {<<>>, Deps, <<K(<<"package">>)>> \o Ver, Bad}

-----------------------------------------------------------------------------
(* The Go port *)

Mod == <<"github.com", "tabnas", "a", "go">>
PathB == <<"github.com", "tabnas", "b", "go", "lex">>
PathX == <<"gopkg.in", "x">>
Line(ws) == [toks |-> ws, indirect |-> FALSE]
GoMod == << Line(<<<<"module">>, Mod>>), Line(<<<<"require">>, <<"(">>>>), Line(<<PathX, <<"v1">>>>),
            Line(<<<<")">>>>) >>
BadMods == { <<Line(<<<<"go">>, <<"1.21">>>>)>>, Append(GoMod, GoMod[1]), SubSeq(GoMod, 1, 3),
             Append(GoMod, Line(<<Bad>>)), Append(GoMod, Line(<<<<"require">>, PathX>>)),
             [GoMod EXCEPT ![4] = Line(<<<<")">>, PathX>>)] }

Element(e, note) == [e |-> e, note |-> note]
ElementLines(x) ==
  LET line(pieces, note) == [pieces |-> pieces, note |-> note]
  IN  CASE x.e = "blank" -> <<line(<<>>, "")>>
        [] x.e = "note"  -> <<line(<<"//">>, x.note)>>
        [] x.e = "star"  -> <<line(<<"/*", "*/", "//">>, x.note)>>
        [] x.e = "stars" -> <<line(<<"/*">>, ""), line(<<"//">>, x.note), line(<<"*/">>, "")>>
        [] OTHER         -> <<line(<<"code">>, ""), line(<<"//">>, x.note)>>
Elements == {Element("blank", ""), Element("note", ""), Element("code", "go:build ignore")}
            \cup {Element("note", n) : n \in {"go:build ignore", "go:build other", "+build ignore", "+build other"}}
            \cup {Element(e, n) : e \in {"star", "stars"}, n \in {"go:build ignore", "+build ignore"}}
Headers == {h \in UNION {[1..n -> Elements] : n \in 0..3} :
              Cardinality({i \in 1..Len(h) : h[i].e = "note" /\ h[i].note \in Build}) < 2
              /\ \A i \in 1..Len(h) : h[i].e = "code" => i = Len(h)}

Decl(import, grouped, paths) == [import |-> import, grouped |-> grouped, paths |-> paths]
String(p) == [t |-> "string", v |-> p]
DeclToks(d) ==
  IF ~d.import THEN <<Word("var"), Word("x"), String(<<"s">>)>>
  ELSE IF d.grouped
  THEN <<Word("import"), Punct("(")>>
       \o FlattenSeq([i \in 1..Len(d.paths) |-> <<Word("_"), String(d.paths[i]), Punct(";")>>])
       \o <<Punct(")"), Punct(";")>>
  ELSE <<Word("import"), Punct("."), String(d.paths[1])>>
Toks(decls) == <<Word("package"), Word("p")>> \o FlattenSeq([i \in 1..Len(decls) |-> DeclToks(decls[i])])
Dir(name) ==
  [name |-> name, hidden |-> name \in {".git", "_old"}, link |-> name = "linked", ownModule |-> name = "other"]
File(test, dirs, text, decls) ==
  [go |-> TRUE, link |-> FALSE, hidden |-> FALSE, test |-> test, dirs |-> dirs,
   counts |-> \A i \in 1..Len(dirs) : dirs[i].name \in {"pkg", "sub"},
   text |-> text, decls |-> decls, head |-> FlattenSeq([i \in 1..Len(text) |-> ElementLines(text[i])]),
   toks |-> Toks(decls)]
ImportB == <<Decl(TRUE, FALSE, <<PathB>>)>>
Go(files) == [mod |-> GoMod, files |-> files, module |-> Mod]
SmallGo == { Missing, Go({}), Go({File(FALSE, <<>>, <<>>, ImportB)}), Go({File(TRUE, <<>>, <<>>, ImportB)}) }
Decls == { Decl(TRUE, FALSE, <<PathB>>), Decl(TRUE, TRUE, <<Mod, <<"fmt">>, PathX>>),
           Decl(TRUE, TRUE, <<<<"github.com", "tabnas", "c", "go">>, PathB>>), Decl(TRUE, TRUE, <<>>),
           Decl(FALSE, FALSE, <<>>), Decl(TRUE, FALSE, <<<<"github.com", "tabnas", "b">>>>) }
Dirs == {Dir(d) : d \in {"pkg", "sub", "vendor", "testdata", "node_modules", ".git", "_old", "linked", "other"}}
Places == UNION {[1..n -> Dirs] : n \in 1..2}
BadToks == { <<>>, <<Word("package")>>, <<Word("package"), Word("p"), Word("import")>>,
             <<Word("package"), Word("p"), Word("import"), Punct("("), String(PathB)>>,
             <<Word("package"), Word("p"), Word("import"), Word("b"), Word("c")>>,
             <<Word("package"), Word("p"), [t |-> "bad", v |-> <<>>]>> }
ManyGo ==
  {Go({File(FALSE, <<>>, h, ImportB)}) : h \in Headers}
  \cup {Go({File(FALSE, <<>>, <<>>, d)}) : d \in UNION {[1..n -> Decls] : n \in 0..3}}
  \cup {Go({File(t, ds, <<>>, ImportB)}) : t \in BOOLEAN, ds \in Places}
  \cup {Go({[File(FALSE, <<>>, <<>>, ImportB) EXCEPT !.counts = FALSE, ![x] = ~@]}) : x \in {"go", "link", "hidden"}}
  \cup {[Go({File(FALSE, <<>>, <<>>, ImportB)}) EXCEPT
           !.mod = <<Line(<<<<"module">>, <<"(">>>>), Line(<<Mod>>), Line(<<<<")">>>>)>>]}
  \cup {Go({[File(FALSE, <<>>, <<>>, ImportB) EXCEPT !.toks = t]}) : t \in BadToks}
  \cup {Go({File(FALSE, <<>>, <<Element("note", "go:build ignore"), Element("note", "go:build other")>>, ImportB)})}
  \cup {[Go({File(FALSE, <<>>, <<>>, ImportB), File(TRUE, <<>>, <<>>, ImportB)}) EXCEPT !.mod = m] : m \in BadMods}

-----------------------------------------------------------------------------
(* The register, the arguments, the repositories *)

Entry(ps) == [ports |-> ps, reason |-> TRUE, repair |-> TRUE, extra |-> FALSE]
Reg(differ) == [object |-> TRUE, extra |-> FALSE, note |-> TRUE, differ |-> differ]
Registers ==
  { Missing, Bad, Reg(Bad), [Reg(Bad) EXCEPT !.object = FALSE], [Reg(Empty) EXCEPT !.extra = TRUE],
    [Reg(Empty) EXCEPT !.note = FALSE] }
  \cup {Reg(One("b", e)) : e \in {Bad, Entry(Missing), Entry(<<"ts">>), Entry(<<"go">>), Entry(<<"rs">>),
                                  Entry(<<"go", "rs">>), Entry(<<"ts", "go">>), Entry(<<"go", "ts">>), Entry(<<"rs", "ts">>),
                                  [Entry(<<"ts">>) EXCEPT !.reason = FALSE],
                                  [Entry(<<"ts">>) EXCEPT !.repair = FALSE],
                                  [Entry(<<"ts">>) EXCEPT !.extra = TRUE]}}
  \cup {Reg([id \in {"b", "c"} |-> IF id = "b" THEN Entry(<<"go">>) ELSE Entry(<<"ts">>)])}

Repository(ts, go, rs, reg) == [dir |-> TRUE, ts |-> ts, go |-> go, rs |-> rs, register |-> reg]
Run(r) == [repo |-> r, args |-> <<"DIR">>]
NoneThere == Repository(Missing, Missing, Missing, Missing)
MCRepos ==
  {Run(Repository(ts, go, rs, reg)) : ts \in SmallTs, go \in SmallGo, rs \in SmallRs, reg \in Registers}
  \cup {Run(Repository(ts, Missing, Missing, Missing)) : ts \in ManyTs}
  \cup {Run(Repository(Missing, go, Missing, Missing)) : go \in ManyGo}
  \cup {Run(Repository(Missing, Missing, rs, Missing)) : rs \in ManyRs}
  \cup {[repo |-> [NoneThere EXCEPT !.dir = d], args |-> a] :
          d \in BOOLEAN, a \in UNION {[1..n -> {"-h", "--json", "DIR", "-x"}] : n \in 0..2}}
=============================================================================
