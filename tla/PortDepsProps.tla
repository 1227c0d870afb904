--------------------------- MODULE PortDepsProps ---------------------------
(***************************************************************************)
(* What tools/port-deps.cjs promises, stated from the manifests as they    *)
(* are written and not as its readers take them: the full paths a TOML     *)
(* text writes, the module go.mod gives, and of a Go file whether its      *)
(* place and its name make it one of the module's, and the elements its    *)
(* header and declarations are made of (`module` of the Go port, `counts`, *)
(* `text` and `decls` of a file, which no reader looks at).                *)
(***************************************************************************)
EXTENDS PortDeps

\* The names a section, a file or a crate table gives, as repositories.
InOrgOf(ids, own) == ids \ {NoRepo, own}

\* package.json: everything any of the sections installs.
InSections(keys) ==
  InOrgOf(UNION {{idOf(NpmRepo, npmName(n, Section(repo.ts[k])[n])) : n \in DOMAIN Section(repo.ts[k])} :
                   k \in keys},
          idOf(NpmRepo, repo.ts.name))

\* Cargo.toml: the crates written below [dependencies] or
\* [build-dependencies], at the top or under a target, under the old name of
\* the build table where the text never writes the new one.
Wrote(path) == \E f \in ToSet(written) : IsPrefix(path, f.path)
Scopes == {<<>>} \cup {SubSeq(f.path, 1, 2) : f \in {g \in ToSet(written) :
                                                Len(g.path) > 1 /\ g.path[1] = "target"}}
Spelled(scope, key, old) == Append(scope, IF Wrote(Append(scope, key)) THEN key ELSE old)
RuntimeTables ==
  UNION {{Append(s, "dependencies"), Spelled(s, "build-dependencies", "build_dependencies")} : s \in Scopes}
DevTables == {Spelled(s, "dev-dependencies", "dev_dependencies") : s \in Scopes}
Crates(table) == {f.path[Len(table) + 1] :
                    f \in {g \in ToSet(written) : IsStrictPrefix(table, g.path)}}
RealName(table, crate) ==
  LET renames == {f \in ToSet(written) : f.path = table \o <<crate, "package">>}
  IN  IF renames = {} THEN crate ELSE (CHOOSE f \in renames : TRUE).v
InTables(tables) ==
  InOrgOf(UNION {{idOf(CrateRepo, RealName(t, c)) : c \in Crates(t)} : t \in tables},
          ports["rs"].id)

\* Go: what the files that Go compiles import, into the library or its tests.
LeadingNotes(text, j) == \A k \in 1..j : text[k].e \in {"blank", "note"}
IgnoreTruth(text) ==
  LET builds == {i \in 1..Len(text) : text[i].e = "note" /\ text[i].note \in Build}
  IN  IF builds # {} THEN \A i \in builds : text[i].note = "go:build ignore"
      ELSE \E i, j \in 1..Len(text) :
             /\ i < j /\ text[j].e = "blank" /\ LeadingNotes(text, j)
             /\ text[i].e = "note" /\ text[i].note = "+build ignore"
Imported(decls) == UNION {{decls[i].paths[n] : n \in 1..Len(decls[i].paths)} :
                            i \in {j \in 1..Len(decls) : \A k \in 1..j : decls[k].import}}
InFiles(test) ==
  LET files == {f \in repo.go.files : f.counts /\ f.test = test /\ ~IgnoreTruth(f.text)}
      paths == {p \in UNION {Imported(f.decls) : f \in files} : ~IsPrefix(repo.go.module, p)}
  IN  {id \in UNION {ToSet(p) : p \in paths} : \E p \in paths : IsPrefix(Org \o <<id, "go">>, p)}

Declared == [ts |-> IF ports["ts"] = NoPort THEN {} ELSE InSections({"dependencies", "peer", "opt"}),
             go |-> IF ports["go"] = NoPort THEN {} ELSE InFiles(FALSE),
             rs |-> IF ports["rs"] = NoPort THEN {} ELSE InTables(RuntimeTables)]
DeclaredDev == [ts |-> IF ports["ts"] = NoPort THEN {} ELSE InSections({"dev"}),
                go |-> IF ports["go"] = NoPort THEN {} ELSE InFiles(TRUE),
                rs |-> IF ports["rs"] = NoPort THEN {} ELSE InTables(DevTables)]

\* The readers fail closed: a port they accept depends on exactly the
\* repositories its manifest and its files declare, in every spelling, and
\* on none that only its tests or its own name bring in.
NoDependencyLost ==
  \A p \in Present : ports[p].runtime = Declared[p]

Agree(ps) == \A id \in UNION {Declared[p] : p \in ps} \cup DOMAIN Recorded(Register) :
  LET have    == {p \in ps : id \in Declared[p]}
      differs == have # {} /\ have # ps
  IN  /\ differs <=> id \in DOMAIN Recorded(Register)
      /\ differs => \E e \in {Recorded(Register)[id]} :
           /\ e # Bad /\ e.ports = Sorted(have)
           /\ e.reason /\ e.repair /\ ~e.extra
OneName(ps) == \A p, q \in ps : ports[p].id # NoRepo /\ ports[p].id = ports[q].id
Trusted(reg) == reg.object /\ ~reg.extra /\ reg.note /\ reg.differ # Bad
\* The table and its last line say what the exit code says: "problems" with
\* code 1 only, "the same" only over rows without a hole, and with code 0 every
\* hole is one the register gives. Below it stands what each port declares for
\* its tests alone.
TableHonest ==
  /\ \A p \in Present : DeclaredDev[p] \ Declared[p] = IF p \in DOMAIN report.dev THEN report.dev[p] ELSE {}
  /\ (report.last = "problems") = (code = 1)
  /\ \A id \in DOMAIN report.rows :
       LET row == report.rows[id]
           holes == {p \in Present : row.cells[p] = "-"}
       IN /\ row.note = "differs, NOT registered" => code = 1
          /\ report.last = "same" => holes = {}
          /\ code = 0 /\ holes # {} =>
               row.note = "differs, registered"
               /\ ToSet(Register.differ[id].ports) = Present \ holes

\* Exit 0 says the ports agree, or that the register records every
\* difference as it is today, with its reason and its repair, and nothing
\* else; exit 1 says they do not; neither is said of a repository with a
\* file that could not be read. The table says the same.
VerdictSound ==
  phase = "exit" /\ report # NoReport =>
    /\ \A p \in PORTS : repo[p] # Missing => ports[p] # NoPort
    /\ code = IF Agree(Present) /\ OneName(Present) /\ Trusted(Register) THEN 0 ELSE 1
    /\ TableHonest
=============================================================================
