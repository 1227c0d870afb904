------------------------------ MODULE ClibCalls ------------------------------
(***************************************************************************)
(* The calls of the C ABI and their replies (go/clib/tabnas_c.go,          *)
(* go/clib/core.go): what a host may pass, and the JSON documents it gets, *)
(* told apart by their `ok`, `accept` and `code` only.                     *)
(***************************************************************************)
EXTENDS Integers, FiniteSets

CONSTANTS
  Threads,     \* the threads of the host process
  Sources,     \* the texts to parse
  Answer,      \* what an engine makes of a source, by itself
  MaxHandles   \* how many handles the host ever asks for

Handles == 1 .. MaxHandles

\* An engine answers, recovers from a failure in a callback and returns an
\* error with the code "internal", or panics.
Engine == {"accept", "reject", "recovered", "panic"}
Verdicts == {"accept", "reject", "internal"}

ASSUME AnswerAssumption == Answer \in [Sources -> Engine]
ASSUME HandlesAssumption == MaxHandles \in Nat
ASSUME ThreadsAssumption == IsFiniteSet(Threads)
ASSUME SourcesAssumption == Sources # {}

\* A panic that reaches safeParse is a failure of the call. A failure the
\* engine recovered from is an answer: ParseGbnf wraps the engine's error in
\* one of its own, which has no code for isInternal to find.
Verdict(src) ==
  CASE Answer[src] = "panic" -> "internal"
    [] Answer[src] = "recovered" -> "reject"
    [] OTHER -> Answer[src]

\* `ok` is FALSE for a negative length, a null pointer with a length, and
\* options, which are reserved. A host may pass a handle never issued: 0.
Requests ==
  [op : {"grammar", "parse"}, ok : {FALSE}]
    \cup [op : {"grammar"}, ok : {TRUE}]
    \cup [op : {"parse"}, ok : {TRUE}, handle : Handles \cup {0}, src : Sources]
    \cup [op : {"free"}, ok : {TRUE}, handle : Handles \cup {0}]

Malformed(asked) == ~asked.ok

Replies ==
  [kind : {"none", "usage", "unknown", "freed"} \cup Verdicts]
    \cup [kind : {"handle"}, id : Handles]

Is(kind) == [kind |-> kind]
Issued(h) == [kind |-> "handle", id |-> h]
=============================================================================
