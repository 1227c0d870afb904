# A verification of tabnas/gbnf

TLA+ specifications of the GBNF front end in this repository, model-checked
with TLC on small instances and proved with TLAPS where a statement should hold
for every instance. GBNF is llama.cpp's grammar notation; this package compiles
it to a grammar for the tabnas engine, in three ports (TypeScript, Go, Rust),
with a C library over the Go port and a Python binding over the C library.

## The system

| Component | Where | State it keeps | Operations | What makes it correct |
|---|---|---|---|---|
| Meta-grammar | `ts/src/converter.ts` `gbnfRules`, `go/parser_gbnf.go` `defineGbnfRules`, `rs/src/parser_gbnf.rs` `GRAMMAR_TEXT` + `register_refs` | the engine's rule stack, the nodes being built, the first decoder error | `parseGbnf` | accepts exactly the token sequences of GBNF, reports the first fault, loses and repeats nothing, returns |
| Depth guard (Rust) | `rs/src/parser_gbnf.rs`, `rs/src/terminal.rs` | two registers on the parse context, a saved level per open group | refuse a group, a closing group, a postfix run | refuses exactly the sources that are too deep; nothing in the tree passes the cap, and nothing dropped by more than one |
| Terminals | `readChar`, `decodeString`, `decodeCharClass`, `repeat` in each port | none | decode | the escape set, class and count semantics of llama.cpp |
| Validation | `dedupeProductions` … `requireDefinedRefs`; `go/validate_gbnf.go` | none | four passes, in order | the same refusals in the same order in all ports |
| Eager classes | `ts/src/converter.ts` 990-1221 and `rs/src/converter.rs` | flags on the emitted matchers | decide, mark, clear | a class is ungated only when no other token can claim its characters |
| Exact lexing, install | `applyExactLexing`; `ts/src/gbnf.ts`; `go/facade.go` | the options of an engine instance, which outlive a grammar; a memo; a slot per thread | compile, install | nothing is ignored; nothing the compiler set is lost; a call is answered for itself |
| Renderer | `ts/src/render.ts`, `rs/src/render.rs` | the lines written so far | IR to GBNF | fixed point; faithful or refused |
| Command line | `ts/src/cli.ts`, `rs/src/cli.rs` | the report being built | one run | the exit code and the report agree |
| C library | `go/clib/core.go`, `go/clib/tabnas_c.go` | the registry of handles, its lock, a mutex per instance | load, parse, free, from any thread | linearizable; every call returns |
| Python binding | `py/gbnf.py` | two cached libraries, a handle per `Grammar` | `load`, `compile_spec`, `Grammar.check`, `close` | every string and handle released once, by its own library; a closed grammar is refused |
| Dependency register | `tools/port-deps.cjs` | none | read three manifests and a register, compare, report | no dependency is missed; the exit code and the report tell the truth |
| Prose counts | `ts/scripts/vale-counts.cjs` | two files it rewrites, a scratch file | check, write | the check is exact; a write ends with true counts, whatever was killed before |
| Embedding | `ts/embed-translate.js` | one program in three places | embed | the three places hold the same text |
| Translation | `alchemy/render.alc` and its embeddings | none | generated program | not modelled |
| Engine and compiler | `@tabnas/parser`, `@tabnas/bnf` | | | outside the repository |

Calls run downward: the Python binding calls the C library and the engine's
library; the C library calls the Go facade, one call at a time per handle; the
command lines install a grammar on an instance and parse samples with it; the
facade of each port runs the meta-grammar on the engine, validates, hands the IR
to the shared compiler, then sets the lexer options and the eager marks on what
comes back. Nodes are shared by reference between a rule and the rules it
pushes (TypeScript arrays, Go pointers, Rust `Rc` cells), and decoder errors travel
beside the parse (an exception in TypeScript, `ctx.Meta` in Go, a thread-local
slot in Rust).

What is hard here is therefore: which rule holds which node while others append
to it; an engine that cannot be told to stop; depth measured by registers and not on
the tree; handles used from many threads, freed under a running parse, over an
engine that may panic; settings that outlive the grammar they were set for; a text that must mean
the same to whoever reads it back; programs that rewrite several files and may be killed between two.
`PROJECT.json` lists each such place with its line and the properties that
watch it.

## Modules

| Module | What it is |
|---|---|
| `MetaGrammar` | the rule table and the engine under it; one action per alternative |
| `MetaGrammarVerdict` | what a parse should answer, stated over the tokens without a stack |
| `MetaGrammarProps` | what a parse should build, stated likewise |
| `MetaGrammarProofs` | `TypeCorrect`, `StackShaped`, `HeapForest`, `VerdictRight` |
| `MetaGrammarYieldProofs` | `YieldRight` |
| `MetaGrammarRust` | `MetaGrammar` with the Rust port's registers and caps; each action conjoins one of `MetaGrammar`'s; what the caps promise of the tree |
| `MetaGrammarRustProps` | what they make of the verdict, stated over the tokens |
| `MetaGrammarRustProofs` | `DepthCapped`, `NothingTooDeep`, `NestIsHeight`, `RustHeapForest`, `RustVerdictRight` |
| `ClibCalls` | the calls and replies of the C ABI |
| `HandleTable` | the abstract table of handles: each call takes effect at one instant |
| `Clib` | the library: one action per step between two points where another thread may run; refines `HandleTable` |
| `ClibProofs` | `ClibTypes`, `Exclusive`, `Implements` |
| `Validate` | the passes over the parsed productions; one action per turn of a loop |
| `ValidateProofs` | `ValidateTypes`, `AcceptedCompiles`, `VerdictsExact`, `RulesInOrder` |
| `PyBinding` | the Python objects over both kinds of library; one action per library call or access to shared state |
| `PyBindingProofs` | `PyTypes`, `DocumentsReleased`, `FrontHandles`, `EngineHandles`, `OpenStaysLive`, `VerdictsOwn`, `ClosedIsNamed` |
| `ArgParse` | the Rust command line's reader of arguments; one action per turn of its loop |
| `Cli` | a run of `gbnf-check`, from its arguments, read by `ArgParse`, to its exit code |
| `CliProofs` | `ReadsAsWritten`, `ExitsAsDocumented`, `ReportsInFull`, `JsonAlways` |
| `Terminals` | what the characters of a terminal stand for: `readChar`, `decodeString`, `decodeCharClass`, over UTF-16 units |
| `Render` | `renderGbnf`, one production at a time, and the reading of what it wrote |
| `RenderProps` | the languages of elements, what GBNF can say, and what the renderer promises (TLC only: recursive) |
| `Ranges` | sets of code points as sorted ranges |
| `Install` | a sequence of calls to `gbnf()` and `toSpec()` on a thread, from the parse to the options of the instance |
| `InstallProofs` | `AnswersAlone`, `CompilerKept`, `InstancesExact`, `EagerRight` |
| `Toml` | `parseToml` of the dependency register's tool: a recursive descent as a stack |
| `GoFiles` | what that tool makes of `go.mod`, build lines and imports |
| `PortDeps` | the tool: readers, register, comparison, report |
| `PortDepsProps` | what it promises, stated over the manifests as written |
| `ValeCounts` | the prose counts: claims, check, rewrite |
| `EmbedTranslate` | the embedding of the translation program |
| `MCMetaGrammar`, `MCMetaGrammarRust`, `MCClib`, `MCValidate`, `MCPyBinding`, `MCCli`, `MCRender`, `MCInstall`, `MCPortDeps`, `MCTools` | TLC instances |

Definitions whose names begin with `M` and are introduced by "Not in the code"
are deliberately wrong versions of the definition after them. Nothing uses
them; put in its place, each makes the property it is meant for fail.

### MetaGrammar

A source is a sequence of tokens, told apart by what the rule table does with
them: `TERM` is any terminal that becomes a leaf, `EMPTY` the literal `""`,
`BADTERM` a literal or class the decoder refuses, `POST` a run of operators, each
of which wraps the element, leaves it alone (`{1}`) or is refused (`{5,2}`). The
stack holds the engine's rule frames; `heap` holds every array and element built,
so that two frames with the same reference share a node as they do in the code. A
frame is processed in its open phase once and then in its close phase whenever
it is on top again; each action is one alternative of the table with the `bo`,
`bc` and `a` hooks that run with it, in the engine's order. `decodeErr` is the
recorded decoder error of the Go and Rust ports; with `DeferDecode = FALSE` the
decoder's exception ends the parse at once, as in TypeScript. The productions
are cell 1.

`b: 1` in an alternative without `s` gives back nothing (there is nothing
to give back) and is modelled so. Lexing is not modelled: which characters
make which token, and comments, stay outside. Neither are the engine's error messages: an outcome
is a kind and a token.

### MetaGrammarRust

`nest` and `level` are the registers `NEST_KEY` and `LEVEL_KEY`; `outer` collects
the `u.outerMax` of the groups on the stack. The engine's `rule.d` is the height of
the stack below the current frame. `apply_postfix` is modelled by which operator of a
run stops it: the first that nests too deep or whose bounds are refused. What a run that is
refused has built is dropped with the answer, so it is not put in the heap but measured in
`dropped`: the wrappers before that operator, and its own if it is a `{m,n}` (`"count"`), which
is charged after it is built (`rs/src/terminal.rs:355`, `:361`); `*`, `+` and `?` (`"wrap"`) are charged before.
Where the code refuses, the action replaces `MetaGrammar`'s.

### Clib

A thread moves through `pc`. `reg.Lock()` is one step, so is each statement
under it that another thread could see half done (`nextID++` and the insertion are
two). `holders` is a set per instance, so that nothing in the model makes two holders
impossible but the guard. The engine itself is abstract: it works on `scratch`, one
per instance, which a second parse on the instance would overwrite, and answers,
recovers from a failure in a callback or panics. Only a panic is reported as one (`internal`): `ParseGbnf`
wraps what an engine recovers from in an error without its code, and the reply is that of a rejection (`Verdict`). Requests refused by
`goBytes` and by `loadGrammar`'s options check are one kind of request, and are
refused in one step. A parse on a handle takes effect, for its caller, when the
registry is read: that instant is what makes freeing a handle under a
running parse linearizable.

Go's locks are modelled from the way the code uses them. `reg` is a set of readers and a set of
writers and waiting is being disabled.

### Validate

A production is its name and its leaves in source order, each with the elements it
stands in: the walks of `rejectTokenTerminals` and `requireDefinedRefs` see nothing else of a
tree. `byName` and `order` are the two collections of `dedupeProductions`; JavaScript's and
Rust's ordered maps keep a replaced entry's place, which is what Go's slice of names
does. `rule` and `leaf` are where a walk stands. The ports differ in the class of one
error, so the port is a variable that never changes. An error's wording is left out; the
rule it names is not. Productions are whatever `Grammars` holds, not only what `MetaGrammar`
can build: names and terminals are data to that module.

### PyBinding

A thread is inside one call of the host at a time: `Grammar(...)`, `check`, `close`, or
the `__del__` of an object nobody refers to. What threads share is the two cached
libraries, an object's `_handle` and `_lib`, and the libraries themselves; one step is one
call of a library or one read or write of those, since ctypes gives up the
interpreter's lock for the call. `_call` therefore takes two steps, the call that
returns a document and the `tabnas_free` that releases it, and `_handle` is read twice by
`check` and by `close`, as it is in the code. A constructor that raises leaves an object
that `__del__` closes (`Raises`).

The libraries are external: handles are numbered and never reissued, a parse on a
freed handle is refused, a second free does nothing, and a call takes effect at one
instant, which is what `Clib` shows of the front end's library. `path=` and `engine=` may name a library
of the wrong kind (each answers its name to the loader's question) or none that opens.
Only objects in `Shared` are used by threads other than their maker.

A front end may refuse to start (`FrontRefuses`), a source or an input be of the wrong type: `_as_bytes` raises
Python's `TypeError` then, as it should. So a call ends with its answer, a `GbnfError`, that `TypeError`, the `OSError` of
a library that does not open (a finding below) or ctypes' `ArgumentError`, of which `ClosedNamed` says where it can come from.

Left out: `compile_spec` called on its own (the constructor performs all of it),
`version()`, a library that returns nothing, and documents that are not JSON.

### ArgParse and Cli

An argument is told apart by what the reader does with it: the separator, a lone `-`, a word, a
long option with or without a value, or a dash and letters. `pending` is the queue that a
split group is pushed back to. A word is any value (in `Cli`, a text), and a value attached to
`-t` is the letters it consists of. `ParseExact` compares the queue with a reading that has none.

`Cli` extends it with the rest of the run, which the two ports share; the TypeScript command has its
arguments read by node. What a run may find (`world`: files, standard input, the engine's verdicts) is
fixed at the start, so that the properties can say what the run should come to without
following its steps. Reading standard input leaves it empty. A text is a body and a number of newlines,
which is what `--strip-final-newline` and the hint look at. Left out: wording, source labels,
positions and lengths in a report, `--ast`, and the engine's state between two samples.

### Terminals and Render

A text is a sequence of tokens as the lexer would cut it, and a terminal's body a sequence of symbols:
a raw UTF-16 unit, as JavaScript's strings hold them, or an escape with the code point its digits say.
That is where decoding and rendering could differ, so units and code points are kept apart, and
surrogates are among the symbols. The grammar is read from such a text by the decoders of
`ts/src/converter.ts` (so a `\-` and a range that runs backward are read as they are), or is
given as another front end would build it, with elements GBNF has no spelling for. `AddRoot`,
`CheckNames` and `RenderProduction` follow `renderGbnf`; a token `Refusal` is the exception. `ReadBack` parses
what was written. Where the parser puts the brackets is a small recursive reader here, the rule table
itself being `MetaGrammar`'s.

The properties read a pattern for themselves, as JavaScript does with the flag `u` and not as the renderer's
`readClassPattern` does: `Speakable` says which patterns are a class that GBNF has, `Misread` which others the code takes for one
(an unescaped `]` inside, as in `[a][b]`). `RefusedExactly` names these as the only ones let through, and `LanguageKept` leaves them out,
for what is written then is another language.

Counts are small naturals and `Infinity` a number above them all. A regex's flags are not looked at by the
code, nor here: every pattern is given its meaning with `u`, which is that of the classes GBNF is read into. Left
out: other flags, the layout of the lines, the wording of errors, and what a count of 10^21 and more is printed as.

### Ranges and Install

A grammar is what the calls tell apart: its terminals, the decoder errors in it, and whether parser
and compiler take it. `pc` follows one call: the Rust port clears its slot (`ClearSlot`), decoders
throw or record, the parse returns or panics, the slot is taken, the compiler answers (`Emit`,
external: any spec of `Emissions`), `ApplyExactLexing` asks the engine once per process and overwrites
the options that are its own, `Decide` marks every class or clears every mark, and `Returns` installs
or only hands out. The installation may fail (`InstallFails`: `map_err` at `rs/src/lib.rs:338`, the error at
`go/facade.go:201`, a throw at `ts/src/gbnf.ts:51`); no port takes back what the engine had laid by then, so the
spec may stay or not. `Ranges` has the loops that `Decide` rests on, over all 1,114,112 code points. The
next call starts from what the last one left in `memo`, `slot` and `instance`. `tn.grammar` is
external: it lays a spec's options over those the instance has.

### PortDeps, Toml and GoFiles

One run of the tool, from its arguments to its exit code. `Toml` takes tokens (a header, a key, a
scalar, brackets) and keeps the reader's tables as a heap; `written` records what the text says, as
full paths, for the properties to compare with. Go's header lines are told apart by what they open,
close and hold; a file's rest is the tokens `goImports` reads. The order of strings an edition is compared in is
given by `From2024`. Names in the org are mapped to repositories by `NpmRepo` and `CrateRepo`, and an npm alias is
the name it stands for. `PortDepsProps` does not use the readers: whether a Go file counts by its place and name (`counts`), which
module `go.mod` gives, and what a text writes are said where the instance is made.
Left out: the characters of the scanners, JSON's text, and the wording of problems.

### ValeCounts and EmbedTranslate

In `ValeCounts` a text is words and digits, so that a count that gains a digit moves what follows on its
line, and a block of comment lines is matched joined, as the code does. What Vale reports is an input; it
may be missing, so may the guide, and a run may be killed between two steps. `EmbedTranslate` writes `translate.ts` and then
the copies one at a time, with the escapes of a template literal and what a compiler reads in them: line ends are
line feeds there, whatever they were. Sources may be empty, missing, of one base name, and edited between two runs. Up
to three runs follow one another in both (`MaxRuns`, `MaxEmbeds`): one cut short, one that repairs, one
that should find nothing to do. Left out: the front matter of the generated file and
`gated-docs.cjs`.

## Runs

| Run | Instance | Shows |
|---|---|---|
| `meta_grammar` | every sequence of at most 2 tokens; `NM ::=` and up to 4 tokens of all 11 kinds and runs; up to 6 that nest | `TypeOK`, `StackShape`, `VerdictExact`, `YieldExact`, `HeapIsForest`, `Terminates`, for the throwing decoder |
| `meta_grammar_rust` | bodies of up to 4 tokens of all kinds and runs, nesting bodies of up to 7, a second production behind bodies of up to 4; caps 9 and 3 | for the recorded error: `NestExact`, `DepthBounded`, `RustVerdictExact`, `StackBounded` |
| `clib` | 2 threads, 2 handles, a source the engine panics on and one it recovers from a failure on | `OneParsePerEngine`, `Linearizable`, `EveryCallReturns` |
| `validate` | 3 names, 3 ports; up to 3 productions of a leaf, up to 2 of two leaves, leaves in any wrapper and in any wrapper in a group | `VerdictExact`, `Compilable`, `OrderKept` |
| `python` | 2 threads, 2 grammars of which one is shared, 2 front ends, 2 engines; no path, a right and a wrong one for each | `DocumentsOwned`, `FrontHandlesFreed`, `EngineHandlesHeld`, `OpenIsLive`, `OwnVerdict`, `ClosedNamed` |
| `cli` | up to 3 arguments of 12 kinds; every group of up to 3 letters; 96 worlds | `ParseExact`, `ExitExact`, `ReportExact`, `JsonKept` |
| `render` | every class of up to 3 symbols of 12 and every literal of up to 2; structures of two rules with groups and operators; foreign elements, misread patterns among them, bare and under 6 wrappers; names and starts | `RefusedExactly`, `LanguageKept`, `FixedPoint` |
| `install` | two classes, or a class and a literal, with ends at 0, 1 and the last two code points; sequences of 3 calls over 9 other grammars, any installation failing | `EagerExactly`, `CompilerHeard`, `AnsweredAlone`, `InstanceExact` |
| `tools` | for the register: small manifests of three ports under 19 registers, and per port the spellings its reader tells apart; for the counts: 1,920 pairs of files, and 960 files without a guide; for the embedding: all sources of up to 3 special symbols, and trees edited into one another | `TextKept`, `InlineClosed`, `NoDependencyLost`, `VerdictSound`; `CheckExact`, `WrittenExact`; `CopiesAgree` |
| `unclosed_group`, `missing_library`, `class_fixed_point` | small ones of the same | the findings below |

`tools` is three programs that share nothing; each behaviour runs one of them. The type invariants
of `Clib`, `Validate` and `PyBinding` are proved and no longer part of a run.

**Bounds.** A body that does not begin with `NM ::=` fails at its first token, so
all sequences of two tokens cover the beginnings, and the longer ones begin with
a production. Four further tokens hold a group with an element and an operator, an
unclosed group before a second production (`NM ::= ( NM ::=`), two decoder
errors in either order, and a fault after a decoder error; six nesting tokens
hold two groups in one another with an operator on each. In the Rust run
`MaxGroupDepth = 9` refuses the third open group, the second deepest group the
cap in the code lets through being its 127th, and `MaxNestDepth = 3` is reached by groups,
by operators and by both together; the second production behind each short body
finds the registers an abandoned group left. Go's
deferred decoder errors are Rust's where no cap is met, as in most of these sources. Two
threads and two handles let one thread parse, or wait, on a handle while the other frees it and asks for
another; safety with any number of either is proved below. For liveness they hold a panicking parse
and a second call that waits for it; a source that is accepted takes the path of one whose failure is recovered from. There is no symmetry, which is unsound for liveness.
`MaxHandles` bounds how many handles the host asks for (`MayAsk`); the code has no such bound.

Three productions hold a definition, another, and a redefinition of the first, in either order
of `root`; two leaves hold a fault behind a sound leaf and two faults of different
passes; a wrapper in a group is the least nesting that tells a walk that descends from one that does not.
Two front ends and two engines let the cache change between the start and the end of a call;
two grammars let two engines hold handles of the same number. `Objects` bounds how many
grammars the host makes, nothing else is bounded: the state space is finite (279,446 states)
because an object is made once. With three threads the same properties hold
(3.8 million states).

Three arguments hold an option that wants a value, its value and what comes after, and a
separator with something on each side; three letters hold a letter, the one that takes a value or
the separator, and what is behind it; four arguments of the same kinds were checked too. In `cli` three
arguments name a grammar, a sample and an option, or two options; a file may be missing, the
texts have up to two newlines, so that stripping one and stripping all differ.

Three symbols hold a class with a range, a caret or a hyphen in every position, and a pair of
surrogates beside another member; a structure has one group, since a renderer's choice of
brackets looks one level down. Languages are compared up to three characters, which an operator
too tight or too loose changes. Ranges can only go wrong where they meet or end, and all ends of the code
space are there; two members per class make overlaps, gaps and adjacent ranges. Three calls
put a failure between two successes, or a success between two failures.

For the register each reader has the texts it must tell apart (three lines of TOML below the package's
table, three elements before a Go package's clause, three declarations), without the other
ports, and every combination of small manifests meets every register. The counts cross a digit in each claim (9 to
10, 1 to 12) and an ordinal's ending (10th, 11th).

**Fairness.** A parse is one synchronous call, so `Terminates` assumes only that
it goes on (`WF_vars(Step)`). In the library, a goroutine that can run does (`WF` of every
step that waits for nothing), and a waiter for a lock is served if the lock is free
again and again (`SF`): Go's `sync.Mutex` hands itself to the longest waiter
once that has waited a millisecond, and `sync.RWMutex` lets a waiting writer exclude new readers.
An engine's parse is assumed to end. Nothing obliges a host to call.

**Stopping.** Deadlock is checked in every run but `tools`, whose programs end. `MetaGrammar` has an explicit `Finished` step for a
parse that is over, `Validate` an `Over` for a verdict that is reached, `ArgParse` and `Cli` a
`Returned` and a `Done`, `Install` a `Rest`, and `PyBinding` a `NoneLeft` for a host that has made and dropped all its
grammars; a library's threads can always return or call.

## Proofs

All eight proof modules state their results for every value of the constants, over
the constants' named assumptions (`InputsAssumption`, `DeferAssumption`,
`DepthAssumption`, `RustDefersAssumption`, `AnswerAssumption`, `HandlesAssumption`,
`ThreadsAssumption`, `SourcesAssumption`, `RootAssumption`, `GrammarsAssumption`, `PortsAssumption`,
`LibsAssumption`, `SharedAssumption`, `GrammarsAssumption`, `PatternsAssumption` and `PointsAssumption` of `Install`, `ArgvsAssumption`, `WorldsAssumption`).
Where an argument goes by induction it goes through sets: `SetInduction` says that a set of naturals
that holds 0 and the successor of every member is all of them, and is itself proved from facts about finite sets.
A function that is defined by recursion is not unfolded: the invariant says what it is of the state at hand
(`NestIsHeight`, `YieldRight`, `InstancesExact`), or a lemma exhibits it (`FlatLaid`); the loops of
`Ranges` are exhibited and then followed turn by turn (`EagerRight`).

- `TypeCorrect` and `StackShaped`. Typing alone is not inductive: `PopRule` needs
  a parent, `CloseGbnf` reads `heap[Top.node]`, and both follow only from which rules stand
  where. The invariant `IInv` joins the types, the shape of the stack (the first frame runs
  `gbnf`, the second `prod`, then `alts`, `seq`, `elem`, `atom` in rounds, every frame
  below the top in its close phase) and that each frame's node points into the heap where its
  rule needs one. Its preservation has one lemma per action.
- `HeapForest`. Over `IInv`, the invariant says that the heap is `Tidy` (children are cells of the layer
  below, and nothing is a child twice) and `Anchored` to the stack. The second is what every append needs, since
  rules share arrays: whatever a rule is still to hand to its parent is nobody's child yet, and two frames
  have one node only where the rule table passes it on.
- `VerdictRight`. The reference counts brackets and looks one token back; the parser has a stack. The
  invariant `Placed` says that until the end of a production abandons its groups the stack's depth is four frames per open group and
  an offset by the rule on top, what each rule may find at `pos` and just before it, that nothing behind `pos` is
  misplaced, and that `decodeErr` is the first fault of a decoder there. The answer of each step that
  ends the parse then follows from where it stands, for the throwing and the recording decoder alike.
- `YieldRight`. The reference takes the tokens of the source one by one and leaves out what the notation drops; the tree is
  made bottom up, through arrays that rules share. The invariant gives every frame of the stack a text, what its
  array or element spells so far, and says that all of them, from the bottom up, are the text of what has
  been read (`Told`, `Gathered`). Each action adds the token it reads and nothing else (`Writes`): an append shows in
  one frame only, by `HeapForest`. What a group that the end of its production abandons takes with it is everything from its `(`
  on, so the invariant also holds, from the moment the outermost group opens, what the frames outside it stand for
  and that no token since has closed it (`Within`); where a production ends, what is left is what the tokens
  call not abandoned (`ProductionSifted`). `Yield` is whatever solves its equations, as `Height` is (`Spelt`).
- `DepthCapped`. By `StackShaped`, a stack that has grown past the cap has an open group
  whose `(` was met at a depth the guard let through; at most the five frames
  `atom`, `alts`, `seq`, `elem`, `atom` are above that. The invariant bounds the depth of
  every group opened, which is where the guard works, and the theorem follows from it.
- `NothingTooDeep`, `NestIsHeight`, `RustHeapForest`. The registers say what the tree is: `outer` has one entry
  per group on the stack, `level` and its entries are the heights of what each group has gathered so far, `nest` is that of the
  element at hand. `Height` is whatever solves its equations over the heap, so that they have a solution and
  only one is part of the invariant (`Solves`), renewed whenever a cell is made; nothing that has a height
  changes, by `HeapForest`, which the Rust port's own steps keep too. `NothingTooDeep` adds what a refused
  run drops: the element at hand is within the cap, so are the wrappers before the first operator that is not, and that one
  builds one more at most. A group that the end of its production abandons does not
  put the enclosing level back: the invariant lets go of the levels there (`Rest`), where nobody asks for them.
- `RustVerdictRight`. The reference measures depth on the tokens: `TokenHeight` gives each token the depth of the
  element that ends there, the registers nowhere in sight. The invariant joins those of `VerdictRight` and `NestIsHeight`
  with two more: every group on the stack was opened at a token with no other open between (`Opened`), what
  stands behind it is, read off the tokens, as deep as its level in the registers says, counting the element that has been
  read but not pushed yet (`Told`), and no token behind `pos` is one the caps refuse (`Kept`). A refusal
  then stands at the first token that is over a cap. None of this is needed once a decoder has
  complained, for nothing outdoes that, nor where a production abandons its groups.
- `ClibTypes`, `Exclusive`, `Implements`. The invariant says what each location in the code
  may rely on: who holds `reg` and how, that at most one thread writes, that the holder of an
  instance is the one inside it and that `scratch` is its own source, and that
  `loaded` is within `1 .. nextID`, with `nextID` itself excluded between the count and the
  insertion. `Implements` maps every step to one of `HandleTable` or to a stutter; a
  count is a stutter because `UsedHandles` does not count what is not inserted yet.
- `ValidateTypes`, `AcceptedCompiles`. `MapExact` says that an entry of `byName` points at the last
  definition so far, `OrderExact` that `order` lists the map's names once each; from both,
  what `Collected` builds has each rule once, as last defined. `Walked` says what a walk
  has established of the leaves behind it, and that what the token pass found outlives the two
  passes after it.
- `VerdictsExact`, `RulesInOrder`. `Judged` says which pass gave the answer, that every pass before was clean, and that
  every leaf before the one refused was. The reference chooses the least faulty place instead: the theorem is that this
  is where the walk stops, with each port's class of error. For the order (`Placed`), what
  stands behind an entry is its rule's first definition, though the body is the last.
- The seven about `PyBinding` follow from one invariant, `IInv`, because each needs the others.
  That a handle stays live (`OpenStaysLive`) needs to know that whoever frees a handle has it
  from its own object (`HandlePlaced`) and that a library never gives out a number twice
  (`Numbered`). That nothing is left of an object that is gone (`EngineHandles`) needs
  the object that `__del__` closes to be in one thread's hands (`Apart`), where
  nothing changes between the reads of `_handle` (`Undisturbed`); the same two give `ClosedIsNamed`.
  `FrontHandles` is an equation between sets, proved one handle at a time (`Freed`), and needs two
  running compilations never to hold one handle (`CompilingApart`). One lemma per part of the
  invariant goes through the actions.
- `AnswersAlone`, `CompilerKept`. `SlotOwn` says what a parse may find in the Rust port's slot:
  nothing, with all its faults to come, or the first fault of its own grammar. `Passed` says what a call that
  has come so far has behind it; with the memo telling the truth (`Kinds`), the answer follows. For the
  second, `Heard` follows the compiler's answer through `ExactOf` and the marks. `GrammarsAssumption` is
  that an answer is a spec and that no decoder error is called one.
- `InstancesExact`. The instance is what was laid on it, one spec over another in order (`LaidExact`), it lexes exactly
  once anything was, whatever failed before or after (`OncePinned`), and when an installing call has returned its spec is
  the last of them. A failed installation may have laid its spec or not: the theorem holds of both, and says that no other
  call leaves anything.
- `EagerRight`. One lemma per loop of `Ranges`, for lists of any length, says what the loop does to the set of
  code points its ranges cover: `NormalExact` (sorted and merged, the same set), `ComplementExact` (the rest of the
  code space), `IntersectsExact` and `ContainsExact` (what they find is what is in both, and in one).
  That the last two may skip or stop early is right only of lists in which each range ends before the next begins
  (`Ordered`), which the first two make. Each lemma also says where the ranges it makes begin, because two classes
  that meet do so where one of them begins: `ClassExact` and `ApartExact` need no more of `Points` than that it has these places
  (`PointsAssumption`), as the whole code space does. `PatternsAssumption` is that a pattern was taken by
  `decodeCharClass` or by JavaScript's regular expressions, which refuse a range that descends. The invariant (`EagerKnown`) then only
  has to carry the decision from `Decide` to the caller.
- `ReadsAsWritten`. The reference writes the vector out first, with every group up to the separator split, and reads
  that from left to right. The invariant says that the queue is the rest of what is written: of the first `n` arguments all parts but the
  first `d` are at its front, and behind them are the arguments not reached (`Follows`). Splitting a group moves
  `n`, reading moves `d`. What has been read is what the text says up to `d`, and a separator is behind `d` exactly when options
  have ended; so letters never become values of the wrong option, however long the vector and its groups.
- `ExitsAsDocumented`, `ReportsInFull`, `JsonAlways`. `world` never changes, so the invariant can say of each phase what is
  behind it in terms of the world: the refusals that did not come, the samples read so far, that standard input is
  whole where the grammar did not come from it, one report per sample judged. For `--json`: an
  argument that is read or still on the queue asks for it. `WorldsAssumption` gives a world the shape `Cli` reads.

Model-checked only, and why:

- The properties of `Render` rest on `RECURSIVE` operators over elements and
  characters, in whose modules the prover has no arithmetic; so does the model of `Toml`.
- The other tools' properties rest on folds over sequences of files, whose induction is still to be made.
- Liveness (`Terminates`, `EveryCallReturns`) is beyond the prover.

## Findings

- `root ::= ( "a"` compiles. A group that meets the end of its production leaves
  through the unconditional close alternative of `atom` (`ts/src/converter.ts:370`,
  `rs/src/parser_gbnf.rs:280`, `go/parser_gbnf.go:669`) with no node, so `elem` pushes nothing
  and the group is dropped: the grammar accepts the empty input only. The test
  `an_unbalanced_paren_is_refused_rather_than_looping`
  (`rs/tests/untrusted_test.rs:157`) names such sources and asserts a refusal only for stray `)`.
  Run `unclosed_group` is the counterexample; `YieldExact` states what the code does do with the
  rest of such a source.
- A library named by the host that does not open leaves `load`, `load_engine` and `Grammar` as
  ctypes' `OSError` (`py/gbnf.py:187`), where `GbnfError`'s docstring (`py/gbnf.py:83-85`)
  counts a missing library among what it is raised for. Run `missing_library`.
- A grammar read from GBNF does not always come back as it was. A class of two surrogates,
  `[\uD83D\uDE00]`, is written with the two side by side (`ts/src/render.ts:105`) and read as the one astral
  character (`ts/src/converter.ts:711`); as the ends of a range the pair no longer parses; and `[a-a]`
  comes back as `[a]` (`render.ts:256-258`). The header (`render.ts:15-17`) promises the same class patterns. Run
  `class_fixed_point`; `FixedPoint` and `LanguageKept` say what does hold.

Smaller disagreements between code and prose, met while modelling, which no run states:

- The comment at `rs/src/terminal.rs:297` says that no operator is applied that would take the depth past the cap, and
  the count is kept as each wrapper is built; for a `{m,n}` the wrapper is built first (`:355`) and charged then (`:361`), so
  one wrapper past the cap exists for a moment. `DepthBounded` says how far that goes.
- Go's `requireRoot` (`go/validate_gbnf.go:84`) answers a grammar that parsed cleanly but has no `root` with a
  `*ParseError`, which `go/facade.go:32` keeps for a source that cannot be read; the other ports raise
  their compile error.
- In `gbnf-check -q- --json` the dash in the group is pushed back as `--` (`rs/src/cli.rs:288`) and ends the
  options, but `want_json` (`:711-715`), which looks at the arguments as given, does not see it: the
  failure that follows is JSON, though the comment at `:709` says that `--json` is a file name there.
  `JsonKept` is the other direction, which holds.
- `readClassPattern` (`ts/src/render.ts:120`) takes an unescaped `]` inside a pattern for a member, so a regex
  `[a][b]` from another front end is one class to it, where the header (`:20-22`) has anything but a class refused.
  `RefusedExactly` holds for all patterns but these, and says that these are let through.
- A regex's flags are not looked at by `renderGbnf`: one with the flag `i`, or a negated class without `u`, is written as a class
  that means something else, where the translation program refuses a class whose flags change what it matches
  (`ts/src/translate.ts:64`).
- The comment on `isInternal` (`go/clib/core.go:149`) says that a failure the engine recovers from is `ok:false`, as a panic is.
  `wrapParseError` (`go/parser_gbnf.go:752`) drops the code it goes by, so the reply is `accept:false`.
- The comment at `ts/src/render.ts:84` says GBNF has no `\-`; the decoder of `ts/src/converter.ts` reads one.
- A source of the translation program that is empty is embedded in `translate.ts` and copied nowhere, and two that have
  one base name overwrite each other's copy (`ts/embed-translate.js:121-123`): a copy left by an earlier run stays. `CopiesAgree` says so.
- The comment at `ts/embed-translate.js:66` says the template literal holds the text exactly; a carriage return in it is read as a
  line feed, with the line feed after it if there is one.

## Plan

Done: 1 to 9. The order is that of how much of the program's promise each carries.

1. `MetaGrammar`, `MetaGrammarRust`.
2. `HandleTable`, `Clib`.
3. `Validate`.
4. `PyBinding`.
5. `ArgParse`, `Cli`.
6. `Terminals`, `Render` (TLC only).
7. `Ranges`, `Install`.
8. `Toml`, `GoFiles`, `PortDeps` (TLC only).
9. `ValeCounts`, `EmbedTranslate`.
10. Still to prove: about 8, that no dependency is lost; about 9, that the copies agree.

## Not modelled

- The translation program: another language (alchemy), run by an interpreter outside the repository.
  `ts/src/translate.ts` is its text in a literal, and `docs/gbnf-demo.js` a bundle of the built packages with a
  few lines that fill a page: neither has logic of its own to state a property of.
- The grammar compiler and the engine, which are other packages. What the code relies on of them is in
  `MetaGrammar` (the rule stack), `Install` (options, answers) and `Clib` (a parse that ends).
- The lexer's characters: which make which token, and comments.
- Numbers at the width of the machine: `bnf.MaxInfinity`, which an oversized count is compared with in Go
  (`go/parser_gbnf.go:290`), is a constant of another module, so what an overflow meets is not in this source.
- In the C library, `tabnas_version`, the ownership of returned strings and the walk over a value as JSON; in the
  Python binding, what its section lists; CI, documentation and corpora.
