----------------------------- MODULE PyBinding -----------------------------
(***************************************************************************)
(* The Python binding, py/gbnf.py: Grammar, compile_spec and the loaders   *)
(* over two kinds of C library with the same five symbols. The front end   *)
(* (libtabnasgbnf) compiles a grammar to a spec; the engine                *)
(* (libtabnasparser) loads the spec and checks text.                       *)
(*                                                                         *)
(* External: the libraries. Each numbers its handles and issues none       *)
(* twice, refuses a parse on a freed one and ignores a second free (Clib   *)
(* shows the front end's to behave so), and each call takes effect at one  *)
(* instant. A document it returns is memory of its own, to be released     *)
(* with its own tabnas_free.                                               *)
(*                                                                         *)
(* ctypes gives up the interpreter's lock around every call, and a thread  *)
(* may be switched out between two bytecodes: one step is one call of a    *)
(* library, or one read or write of what threads share, which is the       *)
(* cached libraries and a Grammar's handle.                                *)
(***************************************************************************)
EXTENDS Integers, Sequences

CONSTANTS
  Threads,
  Objects,       \* Grammar objects; each is made once
  Shared,        \* those that threads other than their maker's may use
  Fronts,        \* the libraries that read GBNF
  Engines,       \* the libraries that are engines
  FrontPaths,    \* what a host passes as path=
  EnginePaths,   \* what a host passes as engine=
  DefaultFront, DefaultEngine,
  None

Libs == Fronts \cup Engines

ASSUME LibsAssumption ==
  /\ Fronts \cap Engines = {}
  /\ DefaultFront \in Fronts /\ DefaultEngine \in Engines
  /\ FrontPaths \subseteq Libs \cup {None} /\ EnginePaths \subseteq Libs \cup {None}
  /\ None \notin Libs \cup Objects \cup Threads
ASSUME SharedAssumption == Shared \subseteq Objects

VARIABLES
  cachedLib, cachedEngine,  \* the module's _lib and _engine
  issued,     \* for each library, what its handles were made for, in order
  live,       \* those of its handles that are not freed
  documents,  \* for each library, the threads that hold a document of it
  state,      \* of each object
  maker,      \* the thread that makes an object
  handleOf,   \* an object's _handle; 0 is None
  libOf,      \* an object's _lib
  pc, obj,    \* where each thread stands, and on which object
  lib, handle, answer  \* a thread's locals

libraries == <<issued, live, documents>>
objects == <<state, maker, handleOf, libOf>>
vars == <<cachedLib, cachedEngine, libraries, objects, pc, obj, lib, handle, answer>>

\* A thread holds a document from the call that returns it to tabnas_free.
Decoding == {"frontDoc", "loaderDoc", "startDoc", "compileDoc", "engineDoc", "specDoc", "checkDoc"}
Locations ==
  {"idle", "front", "loader", "compile", "compileFree", "engine", "spec",
   "checkTest", "checkRead", "checkCall",
   "closeTest", "closeRead", "closeFree", "closeForget", "over"} \cup Decoding
Answers ==
  [kind : {"none", "ok", "refused", "verdict", "GbnfError", "OSError", "TypeError",
           "ArgumentError"},
   of : Objects \cup {None}]

Is(kind) == [kind |-> kind, of |-> None]
VerdictOf(g) == [kind |-> "verdict", of |-> g]

TypeOK ==
  /\ cachedLib \in Fronts \cup {None} /\ cachedEngine \in Engines \cup {None}
  /\ issued \in [Libs -> Seq(Objects)]
  /\ live \in [Libs -> SUBSET (Nat \ {0})]
  /\ documents \in [Libs -> SUBSET Threads]
  /\ state \in [Objects -> {"unborn", "making", "usable", "gone"}]
  /\ maker \in [Objects -> Threads \cup {None}]
  /\ handleOf \in [Objects -> Nat]
  /\ libOf \in [Objects -> Engines \cup {None}]
  /\ pc \in [Threads -> Locations]
  /\ obj \in [Threads -> Objects \cup {None}]
  /\ lib \in [Threads -> Libs \cup {None}]
  /\ handle \in [Threads -> Nat]
  /\ answer \in [Threads -> Answers]

Init ==
  /\ cachedLib = None /\ cachedEngine = None
  /\ issued = [l \in Libs |-> << >>]
  /\ live = [l \in Libs |-> {}]
  /\ documents = [l \in Libs |-> {}]
  /\ state = [g \in Objects |-> "unborn"]
  /\ maker = [g \in Objects |-> None]
  /\ handleOf = [g \in Objects |-> 0]
  /\ libOf = [g \in Objects |-> None]
  /\ pc = [t \in Threads |-> "idle"]
  /\ obj = [t \in Threads |-> None]
  /\ lib = [t \in Threads |-> None]
  /\ handle = [t \in Threads |-> 0]
  /\ answer = [t \in Threads |-> Is("none")]

Move(t, from, to) == pc[t] = from /\ pc' = [pc EXCEPT ![t] = to]
Set(f, t, v) == [f EXCEPT ![t] = v]

(* The calls of a library.                                                 *)

Returns(l, t) == documents' = [documents EXCEPT ![l] = @ \cup {t}]

\* Not in the code: a document is released with the library cached now.
MReleasesCached(t) ==
  documents' = IF cachedLib = None THEN documents
               ELSE [documents EXCEPT ![cachedLib] = @ \ {t}]

\* _call releases the document with the library it was called with.
Releases(t) == documents' = [documents EXCEPT ![lib[t]] = @ \ {t}]

Issues(l, t) ==
  /\ issued' = [issued EXCEPT ![l] = Append(@, obj[t])]
  /\ live' = [live EXCEPT ![l] = @ \cup {Len(issued[l]) + 1}]
  /\ handle' = Set(handle, t, Len(issued[l]) + 1)

Frees(l, h) == live' = [live EXCEPT ![l] = @ \ {h}]

\* A constructor that raises leaves its object to __del__, which closes it.
Raises(t, error) ==
  /\ pc' = Set(pc, t, "closeTest")
  /\ state' = Set(state, obj[t], "gone")
  /\ answer' = Set(answer, t, Is(error))

-----------------------------------------------------------------------------
(* Grammar(src, path=..., engine=...).                                     *)

Construct(t, g) ==
  /\ Move(t, "idle", "front")
  /\ state[g] = "unborn"
  /\ state' = Set(state, g, "making")
  /\ maker' = Set(maker, g, t)
  /\ obj' = Set(obj, t, g)
  /\ UNCHANGED <<cachedLib, cachedEngine, libraries, handleOf, libOf, lib, handle, answer>>

\* load(None) once a library is cached.
FrontCached(t) ==
  /\ Move(t, "front", "loader")
  /\ None \in FrontPaths /\ cachedLib # None
  /\ lib' = Set(lib, t, cachedLib)
  /\ UNCHANGED <<cachedLib, cachedEngine, libraries, objects, obj, handle, answer>>

FrontOpen(t) ==
  /\ Move(t, "front", "frontDoc")
  /\ \E path \in FrontPaths :
       LET l == IF path = None THEN DefaultFront ELSE path IN
         /\ path = None => cachedLib = None
         /\ lib' = Set(lib, t, l)
         /\ Returns(l, t)
  /\ UNCHANGED <<cachedLib, cachedEngine, issued, live, objects, obj, handle, answer>>

FrontLoaded(t) ==
  /\ Move(t, "frontDoc", "loader")
  /\ lib[t] \in Fronts
  /\ Releases(t)
  /\ cachedLib' = lib[t]
  /\ UNCHANGED <<cachedEngine, issued, live, objects, obj, lib, handle, answer>>

FrontIsAnother(t) ==
  /\ pc[t] = "frontDoc" /\ lib[t] \notin Fronts
  /\ Releases(t)
  /\ Raises(t, "GbnfError")
  /\ UNCHANGED <<cachedLib, cachedEngine, issued, live, maker, handleOf, libOf, obj, lib, handle>>

\* There is no library to open. With neither a path nor GBNF_LIB (TABNAS_LIB)
\* the search finds none, a GbnfError; a path that does not open is left to
\* ctypes.CDLL.
NoLibrary(t) ==
  /\ \/ /\ pc[t] = "front"
        /\ \E path \in FrontPaths : path = None => cachedLib = None
     \/ /\ pc[t] = "engine"
        /\ \E path \in EnginePaths : path = None => cachedEngine = None
  /\ \E error \in {"GbnfError", "OSError"} : Raises(t, error)
  /\ UNCHANGED <<cachedLib, cachedEngine, libraries, maker, handleOf, libOf, obj, lib, handle>>

\* _as_bytes: what is neither str nor bytes is refused, here and in check.
SourceWrongType(t) ==
  /\ pc[t] = "loader"
  /\ Raises(t, "TypeError")
  /\ UNCHANGED <<cachedLib, cachedEngine, libraries, maker, handleOf, libOf, obj, lib, handle>>

\* compile_spec: a handle, the parse on it, and the free in `finally`. A front
\* end that does not start gives none.
NewFront(t) ==
  /\ Move(t, "loader", "loaderDoc")
  /\ Issues(lib[t], t)
  /\ Returns(lib[t], t)
  /\ UNCHANGED <<cachedLib, cachedEngine, objects, obj, lib, answer>>

FrontRefuses(t) ==
  /\ Move(t, "loader", "startDoc")
  /\ Returns(lib[t], t)
  /\ UNCHANGED <<cachedLib, cachedEngine, issued, live, objects, obj, lib, handle, answer>>

FrontNotStarted(t) ==
  /\ pc[t] = "startDoc"
  /\ Releases(t)
  /\ Raises(t, "GbnfError")
  /\ UNCHANGED <<cachedLib, cachedEngine, issued, live, maker, handleOf, libOf, obj, lib, handle>>

NewFrontDoc(t) ==
  /\ Move(t, "loaderDoc", "compile")
  /\ Releases(t)
  /\ UNCHANGED <<cachedLib, cachedEngine, issued, live, objects, obj, lib, handle, answer>>

\* A spec, or any of the answers that compile_spec raises for.
Compile(t) ==
  /\ Move(t, "compile", "compileDoc")
  /\ \E kind \in {"ok", "refused"} :
       /\ kind = "ok" => handle[t] \in live[lib[t]]
       /\ answer' = Set(answer, t, Is(kind))
  /\ Returns(lib[t], t)
  /\ UNCHANGED <<cachedLib, cachedEngine, issued, live, objects, obj, lib, handle>>

CompileDoc(t) ==
  /\ Move(t, "compileDoc", "compileFree")
  /\ Releases(t)
  /\ UNCHANGED <<cachedLib, cachedEngine, issued, live, objects, obj, lib, handle, answer>>

CompileFree(t) ==
  /\ Move(t, "compileFree", "engine")
  /\ answer[t].kind = "ok"
  /\ Frees(lib[t], handle[t])
  /\ UNCHANGED <<cachedLib, cachedEngine, issued, documents, objects, obj, lib, handle, answer>>

\* Not in the code: the handle is freed only when there is a spec.
MCompileFailedNoFinally(t) ==
  /\ pc[t] = "compileFree" /\ answer[t].kind # "ok"
  /\ Raises(t, "GbnfError")
  /\ UNCHANGED <<cachedLib, cachedEngine, libraries, maker, handleOf, libOf, obj, lib, handle>>

\* `finally` frees the handle, and the error is raised.
CompileFailed(t) ==
  /\ pc[t] = "compileFree" /\ answer[t].kind # "ok"
  /\ Frees(lib[t], handle[t])
  /\ Raises(t, "GbnfError")
  /\ UNCHANGED <<cachedLib, cachedEngine, issued, documents, maker, handleOf, libOf,
                 obj, lib, handle>>

\* load_engine(None) once an engine is cached.
EngineCached(t) ==
  /\ Move(t, "engine", "spec")
  /\ None \in EnginePaths /\ cachedEngine # None
  /\ lib' = Set(lib, t, cachedEngine)
  /\ libOf' = Set(libOf, obj[t], cachedEngine)
  /\ UNCHANGED <<cachedLib, cachedEngine, libraries, state, maker, handleOf, obj, handle, answer>>

EngineOpen(t) ==
  /\ Move(t, "engine", "engineDoc")
  /\ \E path \in EnginePaths :
       LET l == IF path = None THEN DefaultEngine ELSE path IN
         /\ path = None => cachedEngine = None
         /\ lib' = Set(lib, t, l)
         /\ Returns(l, t)
  /\ UNCHANGED <<cachedLib, cachedEngine, issued, live, objects, obj, handle, answer>>

\* Not in the code: whatever was opened is taken for an engine.
MEngineLoadedAny(t) ==
  /\ Move(t, "engineDoc", "spec")
  /\ Releases(t)
  /\ cachedEngine' = lib[t]
  /\ libOf' = Set(libOf, obj[t], lib[t])
  /\ UNCHANGED <<cachedLib, issued, live, state, maker, handleOf, obj, lib, handle, answer>>

EngineLoaded(t) ==
  /\ Move(t, "engineDoc", "spec")
  /\ lib[t] \in Engines
  /\ Releases(t)
  /\ cachedEngine' = lib[t]
  /\ libOf' = Set(libOf, obj[t], lib[t])
  /\ UNCHANGED <<cachedLib, issued, live, state, maker, handleOf, obj, lib, handle, answer>>

EngineIsAnother(t) ==
  /\ pc[t] = "engineDoc" /\ lib[t] \notin Engines
  /\ Releases(t)
  /\ Raises(t, "GbnfError")
  /\ UNCHANGED <<cachedLib, cachedEngine, issued, live, maker, handleOf, libOf, obj, lib, handle>>

LoadSpec(t) ==
  /\ Move(t, "spec", "specDoc")
  /\ Issues(lib[t], t)
  /\ Returns(lib[t], t)
  /\ answer' = Set(answer, t, Is("ok"))
  /\ UNCHANGED <<cachedLib, cachedEngine, objects, obj, lib>>

SpecRefused(t) ==
  /\ Move(t, "spec", "specDoc")
  /\ Returns(lib[t], t)
  /\ answer' = Set(answer, t, Is("refused"))
  /\ UNCHANGED <<cachedLib, cachedEngine, issued, live, objects, obj, lib, handle>>

SpecLoaded(t) ==
  /\ Move(t, "specDoc", "over")
  /\ answer[t].kind = "ok"
  /\ Releases(t)
  /\ handleOf' = Set(handleOf, obj[t], handle[t])
  /\ state' = Set(state, obj[t], "usable")
  /\ UNCHANGED <<cachedLib, cachedEngine, issued, live, maker, libOf, obj, lib, handle, answer>>

SpecNotLoaded(t) ==
  /\ pc[t] = "specDoc" /\ answer[t].kind # "ok"
  /\ Releases(t)
  /\ Raises(t, "GbnfError")
  /\ UNCHANGED <<cachedLib, cachedEngine, issued, live, maker, handleOf, libOf, obj, lib, handle>>

-----------------------------------------------------------------------------
(* Grammar.check.                                                          *)

MayUse(t, g) == state[g] = "usable" /\ (g \in Shared \/ maker[g] = t)

Check(t, g) ==
  /\ Move(t, "idle", "checkTest")
  /\ MayUse(t, g)
  /\ obj' = Set(obj, t, g)
  /\ UNCHANGED <<cachedLib, cachedEngine, libraries, objects, lib, handle, answer>>

\* Not in the code: a closed grammar is not looked for.
MCheckTestNone(t) ==
  /\ Move(t, "checkTest", "checkRead")
  /\ UNCHANGED <<cachedLib, cachedEngine, libraries, objects, obj, lib, handle, answer>>

CheckTest(t) ==
  /\ Move(t, "checkTest", "checkRead")
  /\ handleOf[obj[t]] # 0
  /\ UNCHANGED <<cachedLib, cachedEngine, libraries, objects, obj, lib, handle, answer>>

CheckClosed(t) ==
  /\ Move(t, "checkTest", "over")
  /\ handleOf[obj[t]] = 0
  /\ answer' = Set(answer, t, Is("GbnfError"))
  /\ UNCHANGED <<cachedLib, cachedEngine, libraries, objects, obj, lib, handle>>

CheckWrongType(t) ==
  /\ Move(t, "checkRead", "over")
  /\ answer' = Set(answer, t, Is("TypeError"))
  /\ UNCHANGED <<cachedLib, cachedEngine, libraries, objects, obj, lib, handle>>

\* Not in the code: the engine asked is the one cached now.
MCheckReadCached(t) ==
  /\ Move(t, "checkRead", "checkCall")
  /\ lib' = Set(lib, t, cachedEngine)
  /\ handle' = Set(handle, t, handleOf[obj[t]])
  /\ UNCHANGED <<cachedLib, cachedEngine, libraries, objects, obj, answer>>

\* The handle is read again, as an argument of the call.
CheckRead(t) ==
  /\ Move(t, "checkRead", "checkCall")
  /\ lib' = Set(lib, t, libOf[obj[t]])
  /\ handle' = Set(handle, t, handleOf[obj[t]])
  /\ UNCHANGED <<cachedLib, cachedEngine, libraries, objects, obj, answer>>

\* ctypes does not take None for a c_longlong.
CheckNone(t) ==
  /\ Move(t, "checkCall", "over")
  /\ handle[t] = 0
  /\ answer' = Set(answer, t, Is("ArgumentError"))
  /\ UNCHANGED <<cachedLib, cachedEngine, libraries, objects, obj, lib, handle>>

CheckCall(t) ==
  /\ Move(t, "checkCall", "checkDoc")
  /\ handle[t] \in live[lib[t]]
  /\ answer' = Set(answer, t, VerdictOf(issued[lib[t]][handle[t]]))
  /\ Returns(lib[t], t)
  /\ UNCHANGED <<cachedLib, cachedEngine, issued, live, objects, obj, lib, handle>>

CheckFreed(t) ==
  /\ Move(t, "checkCall", "checkDoc")
  /\ handle[t] \notin live[lib[t]] \cup {0}
  /\ answer' = Set(answer, t, Is("refused"))
  /\ Returns(lib[t], t)
  /\ UNCHANGED <<cachedLib, cachedEngine, issued, live, objects, obj, lib, handle>>

CheckDoc(t) ==
  /\ Move(t, "checkDoc", "over")
  /\ answer[t].kind = "verdict"
  /\ Releases(t)
  /\ UNCHANGED <<cachedLib, cachedEngine, issued, live, objects, obj, lib, handle, answer>>

CheckFailed(t) ==
  /\ Move(t, "checkDoc", "over")
  /\ answer[t].kind = "refused"
  /\ Releases(t)
  /\ answer' = Set(answer, t, Is("GbnfError"))
  /\ UNCHANGED <<cachedLib, cachedEngine, issued, live, objects, obj, lib, handle>>

-----------------------------------------------------------------------------
(* Grammar.close, by the host or from __del__.                             *)

Close(t, g) ==
  /\ Move(t, "idle", "closeTest")
  /\ MayUse(t, g)
  /\ obj' = Set(obj, t, g)
  /\ UNCHANGED <<cachedLib, cachedEngine, libraries, objects, lib, handle, answer>>

\* The last reference goes: no thread is in a method, which would hold one.
Drop(t, g) ==
  /\ Move(t, "idle", "closeTest")
  /\ state[g] = "usable" /\ \A u \in Threads : obj[u] # g
  /\ state' = Set(state, g, "gone")
  /\ obj' = Set(obj, t, g)
  /\ UNCHANGED <<cachedLib, cachedEngine, libraries, maker, handleOf, libOf, lib, handle, answer>>

CloseTest(t) ==
  /\ pc[t] = "closeTest"
  /\ pc' = Set(pc, t, IF handleOf[obj[t]] = 0 THEN "over" ELSE "closeRead")
  /\ UNCHANGED <<cachedLib, cachedEngine, libraries, objects, obj, lib, handle, answer>>

CloseRead(t) ==
  /\ Move(t, "closeRead", "closeFree")
  /\ lib' = Set(lib, t, libOf[obj[t]])
  /\ handle' = Set(handle, t, handleOf[obj[t]])
  /\ UNCHANGED <<cachedLib, cachedEngine, libraries, objects, obj, answer>>

CloseNone(t) ==
  /\ Move(t, "closeFree", "over")
  /\ handle[t] = 0
  /\ answer' = Set(answer, t, Is("ArgumentError"))
  /\ UNCHANGED <<cachedLib, cachedEngine, libraries, objects, obj, lib, handle>>

\* Not in the code: the handle is freed in the engine cached now.
MCloseFreeCached(t) ==
  /\ Move(t, "closeFree", "closeForget")
  /\ handle[t] # 0
  /\ Frees(cachedEngine, handle[t])
  /\ UNCHANGED <<cachedLib, cachedEngine, issued, documents, objects, obj, lib, handle, answer>>

CloseFree(t) ==
  /\ Move(t, "closeFree", "closeForget")
  /\ handle[t] # 0
  /\ Frees(lib[t], handle[t])
  /\ UNCHANGED <<cachedLib, cachedEngine, issued, documents, objects, obj, lib, handle, answer>>

CloseForget(t) ==
  /\ Move(t, "closeForget", "over")
  /\ handleOf' = Set(handleOf, obj[t], 0)
  /\ UNCHANGED <<cachedLib, cachedEngine, libraries, state, maker, libOf, obj, lib, handle, answer>>

\* The call returns or raises; its locals go.
Return(t) ==
  /\ Move(t, "over", "idle")
  /\ obj' = Set(obj, t, None)
  /\ lib' = Set(lib, t, None)
  /\ handle' = Set(handle, t, 0)
  /\ answer' = Set(answer, t, Is("none"))
  /\ UNCHANGED <<cachedLib, cachedEngine, libraries, objects>>

Loading(t) ==
  \/ NoLibrary(t)
  \/ FrontCached(t) \/ FrontOpen(t) \/ FrontLoaded(t) \/ FrontIsAnother(t)
  \/ SourceWrongType(t) \/ FrontRefuses(t) \/ FrontNotStarted(t) \/ NewFront(t) \/ NewFrontDoc(t)
  \/ Compile(t) \/ CompileDoc(t) \/ CompileFree(t) \/ CompileFailed(t)
  \/ EngineCached(t) \/ EngineOpen(t) \/ EngineLoaded(t) \/ EngineIsAnother(t)
  \/ LoadSpec(t) \/ SpecRefused(t) \/ SpecLoaded(t) \/ SpecNotLoaded(t)
Checking(t) ==
  \/ CheckTest(t) \/ CheckClosed(t) \/ CheckWrongType(t) \/ CheckRead(t)
  \/ CheckNone(t) \/ CheckCall(t) \/ CheckFreed(t) \/ CheckDoc(t) \/ CheckFailed(t)
Closing(t) == CloseTest(t) \/ CloseRead(t) \/ CloseNone(t) \/ CloseFree(t) \/ CloseForget(t)

\* Bound: a host makes no more than Objects.
NoneLeft ==
  /\ \A g \in Objects : state[g] = "gone"
  /\ \A t \in Threads : pc[t] = "idle"
  /\ UNCHANGED vars

Next ==
  \/ \E t \in Threads :
       \/ \E g \in Objects : Construct(t, g) \/ Check(t, g) \/ Close(t, g) \/ Drop(t, g)
       \/ Loading(t) \/ Checking(t) \/ Closing(t) \/ Return(t)
  \/ NoneLeft

Spec == Init /\ [][Next]_vars

-----------------------------------------------------------------------------
(* Properties.                                                             *)

\* Every document is released, once, by the library it came from, whatever
\* library is cached meanwhile and however the call ends.
DocumentsOwned ==
  \A l \in Libs, t \in Threads : t \in documents[l] <=> pc[t] \in Decoding /\ lib[t] = l

\* compile_spec leaves no handle behind in the front end, an error or not.
Compiling == {"loaderDoc", "compile", "compileDoc", "compileFree"}
FrontHandlesFreed ==
  \A f \in Fronts : live[f] = {handle[t] : t \in {u \in Threads : pc[u] \in Compiling /\ lib[u] = f}}

\* A live handle of an engine is in the hands of the object it was made for,
\* or on its way there; so nothing is left of an object that is closed or gone.
Holds(g, e, h) == handleOf[g] = h /\ libOf[g] = e
Delivering(g, e, h) ==
  \E t \in Threads :
    pc[t] = "specDoc" /\ answer[t].kind = "ok" /\ obj[t] = g /\ lib[t] = e /\ handle[t] = h
EngineHandlesHeld ==
  /\ \A e \in Engines : \A h \in live[e] :
       LET g == issued[e][h] IN Holds(g, e, h) \/ Delivering(g, e, h)
  /\ \A g \in Objects :
       state[g] = "gone" /\ (\A t \in Threads : obj[t] # g) => handleOf[g] = 0

\* A grammar is usable until its own close: nobody else's frees its handle.
OpenIsLive ==
  \A g \in Objects :
    handleOf[g] # 0 =>
      \/ handleOf[g] \in live[libOf[g]] /\ issued[libOf[g]][handleOf[g]] = g
      \/ \E t \in Threads : pc[t] = "closeForget" /\ obj[t] = g

\* A check answers for its own grammar, or not at all: not for one that took
\* a freed handle's place, nor for one with the same number in another engine.
OwnVerdict == \A t \in Threads : answer[t].kind = "verdict" => answer[t].of = obj[t]

\* GbnfError's docstring: raised for a library that is missing.
MissingLibraryNamed == \A t \in Threads : answer[t].kind # "OSError"

\* A closed grammar is a GbnfError, not ctypes' ArgumentError for a handle that
\* is None: that one leaves a call only on a grammar that threads share, and
\* that another thread has closed since the call tested it. (Of the errors that
\* are no GbnfError, two have other causes: the OSError of a path that does not
\* open, MissingLibraryNamed, and the TypeError of _as_bytes.)
ClosedNamed ==
  \A t \in Threads :
    answer[t].kind = "ArgumentError" =>
      obj[t] \in Shared /\ state[obj[t]] = "usable" /\ handleOf[obj[t]] = 0
=============================================================================
