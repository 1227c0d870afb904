------------------------------ MODULE Validate ------------------------------
(***************************************************************************)
(* What parseGbnf does with the productions its parser hands it:           *)
(* dedupeProductions, rejectTokenTerminals, requireRoot,                   *)
(* requireDefinedRefs, in that order (ts/src/converter.ts;                 *)
(* go/validate_gbnf.go; rs/src/converter.rs). They run before the shared   *)
(* compiler sees the grammar, which would take an undefined TX, NR, ST or  *)
(* VL for a token of the engine.                                           *)
(*                                                                         *)
(* A production is a name and its leaves in source order. A leaf is a      *)
(* reference, a tokenizer-token terminal or any other terminal, and        *)
(* carries the elements it stands in, outermost first: that is all the two *)
(* walks see of the tree. One step is one turn of a loop.                  *)
(***************************************************************************)
EXTENDS Naturals, Sequences

CONSTANTS
  Names,      \* rule names
  Root,       \* the name `root`
  Grammars,   \* the sequences of productions a parse may yield
  Ports       \* the front ends: "ts", "go", "rs"

Wrappers == {"group", "opt", "star", "plus", "rep"}
Leaves == [kind : {"ref", "tokterm", "term"}, name : Names, within : Seq(Wrappers)]
Productions == [name : Names, leaves : Seq(Leaves)]

ASSUME RootAssumption == Root \in Names
ASSUME GrammarsAssumption == Grammars \subseteq Seq(Productions)
ASSUME PortsAssumption == Ports \subseteq {"ts", "go", "rs"}

VARIABLES
  port,
  raw,          \* the productions as parsed
  taken,        \* how many of them dedupeProductions has gone through
  byName,       \* its map, to positions in raw; 0 where there is no entry
  order,        \* its names, in the order met
  productions,  \* its result
  pass,         \* the pass that is running
  rule, leaf,   \* where its walk stands
  verdict

vars == <<port, raw, taken, byName, order, productions, pass, rule, leaf, verdict>>

Passes == {"dedupe", "tokens", "root", "refs", "over"}
Reasons == {"none", "accepted", "empty", "token", "root", "undefined"}
Classes == {"none", "ParseError", "CompileError"}
Verdicts == [reason : Reasons, class : Classes, rule : Names]

TypeOK ==
  /\ port \in Ports
  /\ raw \in Seq(Productions)
  /\ taken \in 0 .. Len(raw)
  /\ byName \in [Names -> 0 .. Len(raw)]
  /\ order \in Seq(Names)
  /\ productions \in Seq(Productions)
  /\ pass \in Passes
  /\ rule \in Nat \ {0} /\ leaf \in Nat \ {0}
  /\ verdict \in Verdicts

\* Errors that are not about a rule in particular carry Root here.
Says(reason, class, name) == [reason |-> reason, class |-> class, rule |-> name]

Init ==
  /\ port \in Ports
  /\ raw \in Grammars
  /\ taken = 0
  /\ byName = [n \in Names |-> 0]
  /\ order = << >>
  /\ productions = << >>
  /\ pass = "dedupe"
  /\ rule = 1 /\ leaf = 1
  /\ verdict = Says("none", "none", Root)

Ends(v) == pass' = "over" /\ verdict' = v
\* A walk starts over with each pass.
Begins(next) == pass' = next /\ rule' = 1 /\ leaf' = 1

-----------------------------------------------------------------------------
NoProductions ==
  /\ pass = "dedupe" /\ raw = << >>
  /\ Ends(Says("empty", "ParseError", Root))
  /\ UNCHANGED <<port, raw, taken, byName, order, productions, rule, leaf>>

\* Not in the code: the first definition of a name stands.
MCollectFirst ==
  /\ pass = "dedupe" /\ taken < Len(raw)
  /\ LET name == raw[taken + 1].name IN
       /\ order' = IF byName[name] = 0 THEN Append(order, name) ELSE order
       /\ byName' = IF byName[name] = 0 THEN [byName EXCEPT ![name] = taken + 1] ELSE byName
  /\ taken' = taken + 1
  /\ UNCHANGED <<port, raw, productions, pass, rule, leaf, verdict>>

\* Not in the code: a second definition moves its name to the end.
MCollectMoves ==
  /\ pass = "dedupe" /\ taken < Len(raw)
  /\ LET name == raw[taken + 1].name
         Other(n) == n # name
     IN /\ order' = Append(SelectSeq(order, Other), name)
        /\ byName' = [byName EXCEPT ![name] = taken + 1]
  /\ taken' = taken + 1
  /\ UNCHANGED <<port, raw, productions, pass, rule, leaf, verdict>>

\* A second definition REPLACES the first, in the first's position.
Collect ==
  /\ pass = "dedupe" /\ taken < Len(raw)
  /\ LET name == raw[taken + 1].name IN
       /\ order' = IF byName[name] = 0 THEN Append(order, name) ELSE order
       /\ byName' = [byName EXCEPT ![name] = taken + 1]
  /\ taken' = taken + 1
  /\ UNCHANGED <<port, raw, productions, pass, rule, leaf, verdict>>

Collected ==
  /\ pass = "dedupe" /\ raw # << >> /\ taken = Len(raw)
  /\ productions' = [i \in DOMAIN order |-> raw[byName[order[i]]]]
  /\ Begins("tokens")
  /\ UNCHANGED <<port, raw, taken, byName, order, verdict>>

-----------------------------------------------------------------------------
(* The walks of rejectTokenTerminals and requireDefinedRefs.               *)

Defined == {productions[i].name : i \in DOMAIN productions}

\* Not in the code: the walk does not go into a counted repetition.
MEntersNoRep(l) == \A i \in DOMAIN l.within : l.within[i] \in {"group", "opt", "star", "plus"}

\* `walk` descends into groups and repetitions, and so comes to every leaf.
Enters(l) ==
  \A i \in DOMAIN l.within : l.within[i] \in {"group", "opt", "star", "plus", "rep"}

Offends(l) ==
  /\ Enters(l)
  /\ \/ pass = "tokens" /\ l.kind = "tokterm"
     \/ pass = "refs" /\ l.kind = "ref" /\ l.name \notin Defined

Walking == pass \in {"tokens", "refs"}
AtLeaf == Walking /\ rule <= Len(productions) /\ leaf <= Len(productions[rule].leaves)

PassLeaf ==
  /\ AtLeaf /\ ~Offends(productions[rule].leaves[leaf])
  /\ leaf' = leaf + 1
  /\ UNCHANGED <<port, raw, taken, byName, order, productions, pass, rule, verdict>>

RefuseLeaf ==
  /\ AtLeaf /\ Offends(productions[rule].leaves[leaf])
  /\ Ends(Says(IF pass = "tokens" THEN "token" ELSE "undefined",
               "CompileError", productions[rule].name))
  /\ UNCHANGED <<port, raw, taken, byName, order, productions, rule, leaf>>

NextProduction ==
  /\ Walking /\ rule <= Len(productions) /\ leaf > Len(productions[rule].leaves)
  /\ rule' = rule + 1 /\ leaf' = 1
  /\ UNCHANGED <<port, raw, taken, byName, order, productions, pass, verdict>>

NoTokens ==
  /\ pass = "tokens" /\ rule > Len(productions)
  /\ Begins("root")
  /\ UNCHANGED <<port, raw, taken, byName, order, productions, verdict>>

HasRoot ==
  /\ pass = "root" /\ Root \in Defined
  /\ Begins("refs")
  /\ UNCHANGED <<port, raw, taken, byName, order, productions, verdict>>

\* The Go port's requireRoot answers with its ParseError.
RefuseRoot ==
  /\ pass = "root" /\ Root \notin Defined
  /\ Ends(Says("root", IF port = "go" THEN "ParseError" ELSE "CompileError", Root))
  /\ UNCHANGED <<port, raw, taken, byName, order, productions, rule, leaf>>

Accept ==
  /\ pass = "refs" /\ rule > Len(productions)
  /\ Ends(Says("accepted", "none", Root))
  /\ UNCHANGED <<port, raw, taken, byName, order, productions, rule, leaf>>

Over == pass = "over" /\ UNCHANGED vars

Next ==
  \/ NoProductions \/ Collect \/ Collected
  \/ PassLeaf \/ RefuseLeaf \/ NextProduction
  \/ NoTokens \/ HasRoot \/ RefuseRoot \/ Accept \/ Over

Spec == Init /\ [][Next]_vars

-----------------------------------------------------------------------------
(* What the passes promise, from the productions as parsed.                *)

\* The definitions in force: the last of each name.
InForce == {i \in DOMAIN raw : \A j \in DOMAIN raw : j > i => raw[j].name # raw[i].name}
First(name) ==
  CHOOSE i \in DOMAIN raw : raw[i].name = name /\ \A j \in 1 .. i - 1 : raw[j].name # name

HasLeaf(i, Bad(_)) == \E k \in DOMAIN raw[i].leaves : Bad(raw[i].leaves[k])
IsToken(l) == l.kind = "tokterm"
Dangling(l) == l.kind = "ref" /\ \A i \in DOMAIN raw : raw[i].name # l.name

\* The rule to be named: of those that offend, the one met first.
Blamed(Bad(_)) ==
  LET offenders == {raw[i].name : i \in {j \in InForce : HasLeaf(j, Bad)}} IN
    CHOOSE n \in offenders : \A m \in offenders : First(n) <= First(m)

\* The refusal is the one the order of the passes calls for, names the first
\* rule at fault among the definitions in force, and looks at no definition
\* that a later one replaced.
VerdictExact ==
  pass = "over" =>
    IF raw = << >> THEN verdict.reason = "empty"
    ELSE IF \E i \in InForce : HasLeaf(i, IsToken)
      THEN verdict.reason = "token" /\ verdict.rule = Blamed(IsToken)
    ELSE IF \A i \in DOMAIN raw : raw[i].name # Root THEN verdict.reason = "root"
    ELSE IF \E i \in InForce : HasLeaf(i, Dangling)
      THEN verdict.reason = "undefined" /\ verdict.rule = Blamed(Dangling)
    ELSE verdict.reason = "accepted"

\* What the shared compiler is handed (parseGbnf's contract): each rule once,
\* as last defined; `root`; no reference to anything else, however deep it
\* stands; no tokenizer-token terminal.
Compilable ==
  verdict.reason = "accepted" =>
    /\ \A i, j \in DOMAIN productions : productions[i].name = productions[j].name => i = j
    /\ \A i \in DOMAIN productions : \E k \in InForce : productions[i] = raw[k]
    /\ \A k \in DOMAIN raw : raw[k].name \in Defined
    /\ Root \in Defined
    /\ \A i \in DOMAIN productions : \A k \in DOMAIN productions[i].leaves :
         LET l == productions[i].leaves[k] IN
           l.kind # "tokterm" /\ (l.kind = "ref" => l.name \in Defined)

\* A second definition takes the first one's place in the order of the rules,
\* which is the order of the emitted spec.
OrderKept ==
  pass \in {"tokens", "root", "refs"} =>
    \A i, j \in DOMAIN productions :
      i < j => First(productions[i].name) < First(productions[j].name)
=============================================================================
