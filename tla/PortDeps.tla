------------------------------ MODULE PortDeps ------------------------------
(***************************************************************************)
(* tools/port-deps.cjs: do this repository's ports depend on the same      *)
(* tabnas repositories?  The program reads its arguments, then             *)
(* ts/package.json, the Go files and rs/Cargo.toml, then its register, and *)
(* compares.  Any reader stops it with exit 2.                             *)
(*                                                                         *)
(* Names are strings: NpmRepo and CrateRepo take the names in the org to   *)
(* the repository they name.  The repository read is `repo`, chosen from   *)
(* Repos: Missing for a file that is not there, Bad for one that is not    *)
(* JSON or cannot be read.                                                 *)
(***************************************************************************)
EXTENDS Toml, GoFiles, FiniteSets

CONSTANTS Repos,      \* the repositories and argument lists of the instance
          Missing,    \* no such file, no such key
          NpmRepo, CrateRepo,
          From2024    \* the strings that JavaScript orders at "2024" or after it

VARIABLES repo, args, phase, ports, problems, report, code
depsVars == <<repo, args, phase, ports, problems, report, code>>
depsAll == <<depsVars, tomlVars>>

PORTS == {"ts", "go", "rs"}
NoPort == [id |-> Missing]

idOf(names, name) == IF name \in DOMAIN names THEN names[name] ELSE NoRepo

\* Not in the code: what the library needs itself is listed once more.
MDevOnly(names, own, ids, dev) == {idOf(names, n) : n \in dev} \ {NoRepo, own}
DevOnly(names, own, ids, dev) == {idOf(names, n) : n \in dev} \ (ids \cup {NoRepo, own})

\* A dependency is optional only when every runtime declaration of it is.
fold(names, own, runtime, dev) ==
  LET id(d) == idOf(names, d.name)
      ids   == {id(d) : d \in runtime} \ {NoRepo, own}
  IN [id |-> own, runtime |-> ids,
      optional |-> {i \in ids : \A d \in runtime : id(d) = i => d.optional},
      dev |-> DevOnly(names, own, ids, dev),
      external |-> {d.name : d \in {e \in runtime : id(e) = NoRepo}}]

-----------------------------------------------------------------------------
(* ts/package.json: a section maps package names to what they are given, a
   version ("" here), the real name behind an "npm:" alias, or Bad. *)

npmName(key, spec) == IF spec = "" THEN key ELSE spec
Section(s) == IF s = Missing THEN Empty ELSE s
SectionRead(s) == s # Bad /\ \A n \in DOMAIN Section(s) : s[n] # Bad

readTs(pkg) ==
  IF \/ pkg = Bad \/ pkg.name = Bad
     \/ \E key \in {"dependencies", "peer", "opt", "dev", "meta"} : ~SectionRead(pkg[key])
  THEN Bad
  ELSE LET deps == Section(pkg.dependencies)  peer == Section(pkg.peer)
           opt  == Section(pkg.opt)           dev  == Section(pkg.dev)
           meta == Section(pkg.meta)
           optional(n) == \/ n \in DOMAIN opt
                          \/ /\ n \in DOMAIN peer /\ n \notin DOMAIN deps
                             /\ n \in DOMAIN meta /\ meta[n] = TRUE
           decls(s) == {[name |-> npmName(n, s[n]), optional |-> optional(n)] : n \in DOMAIN s}
       IN fold(NpmRepo, idOf(NpmRepo, pkg.name), decls(deps) \cup decls(peer) \cup decls(opt),
               {npmName(n, dev[n]) : n \in DOMAIN dev})

-----------------------------------------------------------------------------
(* rs/Cargo.toml, once parseToml has made its tables *)

At(n, key) == nodes[n].map[key]
Has(n, key) == key \in DOMAIN nodes[n].map
Is(n, type) == nodes[n].t = type

CARGO_TABLES == { [key |-> "dependencies", old |-> Missing, dev |-> FALSE],
                  [key |-> "build-dependencies", old |-> "build_dependencies", dev |-> FALSE],
                  [key |-> "dev-dependencies", old |-> "dev_dependencies", dev |-> TRUE] }

\* A version, or a table this reader follows.
EntryRead(d) ==
  \/ Is(d, "string")
  \/ /\ Is(d, "table") /\ ~Has(d, "workspace")
     /\ Has(d, "package") => Is(At(d, "package"), "string")
     /\ Has(d, "optional") => Is(At(d, "optional"), "bool")

EntryDecl(key, d) ==
  [name |-> IF Is(d, "table") /\ Has(d, "package") THEN nodes[At(d, "package")].v ELSE key,
   optional |-> Is(d, "table") /\ Has(d, "optional") /\ nodes[At(d, "optional")].v = "true"]

Modern(pkg) == Has(pkg, "edition") /\ Is(At(pkg, "edition"), "string")
               /\ nodes[At(pkg, "edition")].v \in From2024

\* Not in the code: the underscore spelling is never read.
MUseNew(scope, tbl) == IF Has(scope, tbl.key) THEN {At(scope, tbl.key)} ELSE {}

\* The table of one kind in one scope: the underscore spelling only where
\* the hyphen table is absent.
Use(scope, tbl) ==
  IF Has(scope, tbl.key) THEN {At(scope, tbl.key)}
  ELSE IF tbl.old # Missing /\ Has(scope, tbl.old) THEN {At(scope, tbl.old)} ELSE {}

readRs ==
  LET pkg      == At(Root, "package")
      named    == /\ Has(Root, "package") /\ Is(pkg, "table")
                  /\ Has(pkg, "name") /\ Is(At(pkg, "name"), "string")
                  /\ nodes[At(pkg, "name")].v # ""
      target   == IF Has(Root, "target") THEN {At(Root, "target")} ELSE {}
      children(n) == {At(n, k) : k \in DOMAIN nodes[n].map}
      scopes   == {Root} \cup UNION {children(t) : t \in target}
      tables(dev) == UNION {Use(s, t) : s \in scopes, t \in {u \in CARGO_TABLES : u.dev = dev}}
      entries(dev) == UNION {{<<k, At(t, k)>> : k \in DOMAIN nodes[t].map} : t \in tables(dev)}
      decls(dev) == {EntryDecl(e[1], e[2]) : e \in entries(dev)}
      refused  == \E s \in scopes, t \in CARGO_TABLES : t.old # Missing /\ Has(s, t.old)
      own      == idOf(CrateRepo, nodes[At(pkg, "name")].v)
  IN IF \/ ~named
        \/ \E n \in target \cup scopes \cup tables(TRUE) \cup tables(FALSE) : ~Is(n, "table")
        \/ Modern(pkg) /\ refused
        \/ \E e \in entries(TRUE) \cup entries(FALSE) : ~EntryRead(e[2])
     THEN Bad
     ELSE fold(CrateRepo, own, decls(FALSE), {d.name : d \in decls(TRUE)})

-----------------------------------------------------------------------------
(* The comparison.  An entry of the register is Bad or a record: its ports
   (a list, Missing when it gives none), whether its reason and its repair
   say something, and whether it has a key too many. *)

Present == {p \in PORTS : ports[p] # NoPort}
AllIds == UNION {ports[p].runtime : p \in Present}
Having(id) == {p \in Present : id \in ports[p].runtime}
Differs(id) == id \in AllIds /\ Having(id) # Present
Sorted(ps) == SelectSeq(<<"go", "rs", "ts">>, LAMBDA p : p \in ps)
Problem(about, what) == [about |-> about, what |-> what]

NameProblems ==
  LET named == {p \in Present : ports[p].id # NoRepo}
  IN  {Problem(p, "names no repo") : p \in Present \ named}
      \cup {Problem("ports", "disagree") : p \in {q \in named : \E r \in named : ports[q].id # ports[r].id}}

\* A register that cannot be trusted records nothing.
Recorded(reg) == IF reg.object /\ reg.differ # Bad THEN reg.differ ELSE Empty
ShapeProblems(reg) ==
  IF ~reg.object THEN {Problem("register", "not an object")}
  ELSE {Problem("register", w) : w \in (IF reg.extra THEN {"key"} ELSE {})
                                  \cup (IF reg.note THEN {} ELSE {"note"})
                                  \cup (IF reg.differ = Bad THEN {"differ"} ELSE {})}

EntryWrong(id, entry) ==
  {w \in {"key", "ports", "reason", "repair"} :
     \/ w = "key" /\ entry.extra
     \/ w = "ports" /\ entry.ports # Sorted(Having(id))
     \/ w = "reason" /\ ~entry.reason
     \/ w = "repair" /\ ~entry.repair}

\* Not in the code: an entry nothing supports any more is let stand.
MIdProblemsStale(id, differ) ==
  CASE id \notin DOMAIN differ -> IF Differs(id) THEN {"not registered"} ELSE {}
    [] id \in DOMAIN differ /\ ~Differs(id) -> {}
    [] OTHER -> IF differ[id] = Bad THEN {"entry"} ELSE EntryWrong(id, differ[id])

IdProblems(id, differ) ==
  CASE id \notin DOMAIN differ -> IF Differs(id) THEN {"not registered"} ELSE {}
    [] id \in DOMAIN differ /\ ~Differs(id) -> {"stale"}
    [] OTHER -> IF differ[id] = Bad THEN {"entry"} ELSE EntryWrong(id, differ[id])

compare(reg) ==
  LET differ == Recorded(reg)
  IN  NameProblems \cup ShapeProblems(reg)
      \cup UNION {{Problem(id, w) : w \in IdProblems(id, differ)} : id \in AllIds \cup DOMAIN differ}

\* Not in the code: an optional dependency shows as none.
MCell(p, id) == IF id \in ports[p].runtime \ ports[p].optional THEN "yes" ELSE "-"
Cell(p, id) == CASE id \notin ports[p].runtime -> "-"
                 [] id \in ports[p].optional -> "optional"
                 [] OTHER -> "yes"
render(reg, wrong) ==
  [rows |-> [id \in AllIds |->
               [cells |-> [p \in Present |-> Cell(p, id)],
                note |-> CASE ~Differs(id) -> ""
                           [] id \in DOMAIN Recorded(reg) -> "differs, registered"
                           [] OTHER -> "differs, NOT registered"]],
   dev |-> [p \in {q \in Present : ports[q].dev # {}} |-> ports[p].dev],
   last |-> CASE wrong # {} -> "problems"
              [] Cardinality(Present) < 2 -> "nothing to compare"
              [] \E id \in AllIds : Differs(id) -> "recorded"
              [] OTHER -> "same"]

-----------------------------------------------------------------------------
(* The program *)

NoReport == [last |-> "none"]
Stop(c) == phase' = "exit" /\ code' = c /\ UNCHANGED <<ports, problems, report>>
Read(p, value, next) ==
  IF value = Bad THEN Stop(2)
  ELSE /\ ports' = [ports EXCEPT ![p] = value] /\ phase' = next
       /\ UNCHANGED <<problems, report, code>>

DepsInit ==
  /\ \E r \in Repos : repo = r.repo /\ args = r.args /\ TomlInit(IF r.repo.rs \in {Missing, Bad}
                                                                THEN <<>> ELSE r.repo.rs)
  /\ phase = "args" /\ ports = [p \in PORTS |-> NoPort]
  /\ problems = {} /\ report = NoReport /\ code = Missing

\* main: one argument at a time; the second DIR is one too many.
First(i) == \A j \in 1..(i - 1) : args[j] # "DIR"
Usage(i) == args[i] \in {"-h", "--help"}
Unexpected(i) == ~Usage(i) /\ args[i] # "--json" /\ (args[i] # "DIR" \/ ~First(i))
ParseArgs ==
  /\ phase = "args" /\ UNCHANGED <<repo, args, tomlVars>>
  /\ LET stops == {i \in 1..Len(args) : Usage(i) \/ Unexpected(i)}
     IN IF stops # {}
        THEN Stop(IF Usage(CHOOSE i \in stops : \A j \in stops : i <= j) THEN 0 ELSE 2)
        ELSE IF ~repo.dir THEN Stop(2)
        ELSE phase' = "ts" /\ UNCHANGED <<ports, problems, report, code>>

ReadTs ==
  /\ phase = "ts" /\ UNCHANGED <<repo, args, tomlVars>>
  /\ Read("ts", IF repo.ts = Missing THEN NoPort ELSE readTs(repo.ts), "go")

ReadGo ==
  /\ phase = "go" /\ UNCHANGED <<repo, args, tomlVars>>
  /\ Read("go", IF repo.go = Missing THEN NoPort ELSE readGo(repo.go), "rs")

ReadToml ==
  /\ phase = "rs" /\ repo.rs \notin {Missing, Bad} /\ mode \notin {"done", "refused"}
  /\ parseToml /\ UNCHANGED depsVars

ReadRs ==
  /\ phase = "rs" /\ UNCHANGED <<repo, args, tomlVars>>
  /\ \/ repo.rs = Missing /\ Read("rs", NoPort, "register")
     \/ repo.rs = Bad /\ Stop(2)
     \/ repo.rs \notin {Missing, Bad} /\ mode = "refused" /\ Stop(2)
     \/ repo.rs \notin {Missing, Bad} /\ mode = "done" /\ Read("rs", readRs, "register")

\* No register is an empty one; a register that is not JSON stops the program.
Register == IF repo.register = Missing
            THEN [object |-> TRUE, extra |-> FALSE, note |-> TRUE, differ |-> Empty]
            ELSE repo.register

Compare ==
  /\ phase = "register" /\ UNCHANGED <<repo, args, tomlVars>>
  /\ IF repo.register = Bad THEN Stop(2)
     ELSE \E wrong \in {compare(Register)} :
            /\ problems' = wrong /\ report' = render(Register, wrong)
            /\ code' = (IF wrong = {} THEN 0 ELSE 1) /\ phase' = "exit" /\ UNCHANGED ports

Exit == phase = "exit" /\ UNCHANGED depsAll

DepsNext == ParseArgs \/ ReadTs \/ ReadGo \/ ReadToml \/ ReadRs \/ Compare \/ Exit

=============================================================================
