-------------------------- MODULE PyBindingProofs --------------------------
(***************************************************************************)
(* Proofs about the Python binding, for any threads, grammars, libraries   *)
(* and paths.                                                              *)
(***************************************************************************)
EXTENDS PyBinding, SequenceTheorems, TLAPS

-----------------------------------------------------------------------------
(* The inductive invariant.                                                *)

Making ==
  {"front", "frontDoc", "loader", "loaderDoc", "startDoc", "compile", "compileDoc", "compileFree",
   "engine", "engineDoc", "spec", "specDoc"}

\* An object that at most one thread is on.
Alone(g) == state[g] \in {"making", "gone"} \/ (state[g] = "usable" /\ g \notin Shared)

\* Which thread may be on which object, and in what state that is.
Placed(t) ==
  /\ pc[t] = "idle" <=> obj[t] = None
  /\ pc[t] = "idle" => answer[t].kind = "none"
  /\ obj[t] # None =>
       /\ state[obj[t]] # "unborn"
       /\ pc[t] \in Making <=> state[obj[t]] = "making"
       /\ pc[t] \in {"checkTest", "checkRead", "checkCall", "checkDoc"} => state[obj[t]] = "usable"
       /\ Alone(obj[t]) /\ state[obj[t]] # "gone" => maker[obj[t]] = t
Apart ==
  \A t, u \in Threads : obj[t] = obj[u] /\ obj[t] # None /\ Alone(obj[t]) => t = u

\* Which library a thread is working with.
LibPlaced(t) ==
  /\ pc[t] \in {"frontDoc", "engineDoc"} => lib[t] \in Libs
  /\ pc[t] \in {"loader", "startDoc"} \cup Compiling => lib[t] \in Fronts
  /\ pc[t] \in {"spec", "specDoc", "checkCall", "checkDoc", "closeFree", "closeForget"} =>
       lib[t] \in Engines /\ libOf[obj[t]] = lib[t]
  /\ pc[t] \in {"checkRead", "closeRead"} => libOf[obj[t]] \in Engines

\* What an object's handle is.
ObjectPlaced(g) ==
  /\ state[g] \in {"unborn", "making"} => handleOf[g] = 0
  /\ state[g] = "usable" => libOf[g] \in Engines
  /\ handleOf[g] # 0 =>
       /\ libOf[g] \in Engines
       /\ handleOf[g] \in 1 .. Len(issued[libOf[g]])
       /\ issued[libOf[g]][handleOf[g]] = g

Numbered == \A l \in Libs : \A h \in live[l] : h \in 1 .. Len(issued[l])

\* What the handle a thread has read, or was given, is.
HandlePlaced(t) ==
  /\ pc[t] = "specDoc" /\ answer[t].kind = "ok" =>
       /\ handle[t] \in live[lib[t]]
       /\ handle[t] \in 1 .. Len(issued[lib[t]])
       /\ issued[lib[t]][handle[t]] = obj[t]
  /\ pc[t] \in {"checkCall", "closeFree", "closeForget"} /\ handle[t] # 0 =>
       /\ handle[t] \in 1 .. Len(issued[lib[t]])
       /\ issued[lib[t]][handle[t]] = obj[t]
       /\ handleOf[obj[t]] \in {0, handle[t]}
  /\ pc[t] = "closeForget" =>
       /\ handle[t] # 0
       /\ \A e \in Engines : \A h \in live[e] : issued[e][h] # obj[t]

\* A handle read as None is that of an object somebody has closed.
Emptied(t) == pc[t] \in {"checkCall", "closeFree"} /\ handle[t] = 0 => handleOf[obj[t]] = 0

\* Nobody interferes with the one thread on an object.
Undisturbed(t) ==
  obj[t] # None /\ Alone(obj[t]) =>
    /\ pc[t] \in {"checkRead", "closeRead"} => handleOf[obj[t]] # 0
    /\ pc[t] \in {"checkCall", "closeFree"} => handle[t] = handleOf[obj[t]] /\ handle[t] # 0
    /\ pc[t] = "over" /\ state[obj[t]] = "gone" => handleOf[obj[t]] = 0

CompilingApart ==
  \A t, u \in Threads :
    pc[t] \in Compiling /\ pc[u] \in Compiling /\ lib[t] = lib[u] /\ handle[t] = handle[u] => t = u

\* FrontHandlesFreed, one handle at a time.
Freed ==
  \A f \in Fronts : \A h \in Nat :
    h \in live[f] <=> \E t \in Threads : pc[t] \in Compiling /\ lib[t] = f /\ handle[t] = h

\* The two parts of EngineHandlesHeld.
Held ==
  \A e \in Engines : \A h \in live[e] : Holds(issued[e][h], e, h) \/ Delivering(issued[e][h], e, h)
GoneEmpty ==
  \A g \in Objects : state[g] = "gone" /\ (\A t \in Threads : obj[t] # g) => handleOf[g] = 0

IInv ==
  /\ TypeOK
  /\ \A t \in Threads : Placed(t)
  /\ Apart
  /\ \A t \in Threads : LibPlaced(t)
  /\ \A g \in Objects : ObjectPlaced(g)
  /\ Numbered
  /\ \A t \in Threads : HandlePlaced(t)
  /\ \A t \in Threads : Emptied(t)
  /\ \A t \in Threads : Undisturbed(t)
  /\ CompilingApart
  /\ DocumentsOwned /\ Freed /\ Held /\ GoneEmpty /\ OpenIsLive
  /\ OwnVerdict /\ ClosedNamed

-----------------------------------------------------------------------------
(* What the steps have in common.                                          *)

Kinds == {"none", "ok", "refused", "verdict", "GbnfError", "OSError", "TypeError", "ArgumentError"}
LEMMA AnswerTypes ==
  /\ \A kind \in Kinds : Is(kind) \in Answers /\ Is(kind).kind = kind
  /\ \A g \in Objects :
       VerdictOf(g) \in Answers /\ VerdictOf(g).kind = "verdict" /\ VerdictOf(g).of = g
BY DEF Kinds, Is, VerdictOf, Answers

USE AnswerTypes DEF Move, Set, Kinds, libraries, objects, Returns, Releases, Frees, Raises

\* A step of thread t, beginning a call on g or going on with one.
Begins(t, g) ==
  g \in Objects /\ (Construct(t, g) \/ Check(t, g) \/ Close(t, g) \/ Drop(t, g))
Works(t, g) == Begins(t, g) \/ Loading(t) \/ Checking(t) \/ Closing(t) \/ Return(t)

\* A library's numbers only grow, and what they were issued for is kept.
LEMMA Issuing ==
  ASSUME IInv, NEW t \in Threads, NewFront(t) \/ LoadSpec(t)
  PROVE  /\ lib[t] \in Libs /\ obj[t] \in Objects
         /\ issued' \in [Libs -> Seq(Objects)]
         /\ Len(issued[lib[t]]) \in Nat /\ Len(issued'[lib[t]]) = Len(issued[lib[t]]) + 1
         /\ \A h \in 1 .. Len(issued[lib[t]]) : issued'[lib[t]][h] = issued[lib[t]][h]
         /\ issued'[lib[t]][Len(issued[lib[t]]) + 1] = obj[t]
         /\ \A k \in Libs : k # lib[t] => issued'[k] = issued[k]
         /\ live' = [live EXCEPT ![lib[t]] = @ \cup {Len(issued[lib[t]]) + 1}]
         /\ handle' = [handle EXCEPT ![t] = Len(issued[lib[t]]) + 1]
         /\ documents' = [documents EXCEPT ![lib[t]] = @ \cup {t}]
         /\ UNCHANGED <<cachedLib, cachedEngine, state, maker, handleOf, libOf, obj, lib>>
         /\ NewFront(t) =>
              /\ pc[t] = "loader" /\ pc' = [pc EXCEPT ![t] = "loaderDoc"]
              /\ answer' = answer
         /\ LoadSpec(t) =>
              /\ pc[t] = "spec" /\ pc' = [pc EXCEPT ![t] = "specDoc"]
              /\ answer' = [answer EXCEPT ![t] = Is("ok")]
<1>1. lib[t] \in Libs /\ obj[t] \in Objects
  BY DEF IInv, TypeOK, Placed, LibPlaced, Compiling, Libs, NewFront, LoadSpec
<1>2. issued[lib[t]] \in Seq(Objects) /\ issued \in [Libs -> Seq(Objects)]
  BY <1>1 DEF IInv, TypeOK
<1>3. /\ issued' = [issued EXCEPT ![lib[t]] = Append(issued[lib[t]], obj[t])]
      /\ live' = [live EXCEPT ![lib[t]] = @ \cup {Len(issued[lib[t]]) + 1}]
      /\ handle' = [handle EXCEPT ![t] = Len(issued[lib[t]]) + 1]
  BY DEF NewFront, LoadSpec, Issues
<1>4. Append(issued[lib[t]], obj[t]) \in Seq(Objects) /\ Len(issued[lib[t]]) \in Nat
  BY <1>1, <1>2
<1>5. /\ issued'[lib[t]] = Append(issued[lib[t]], obj[t])
      /\ issued' \in [Libs -> Seq(Objects)]
      /\ \A k \in Libs : k # lib[t] => issued'[k] = issued[k]
  BY <1>1, <1>2, <1>3, <1>4
<1>6. /\ Len(issued'[lib[t]]) = Len(issued[lib[t]]) + 1
      /\ issued'[lib[t]][Len(issued[lib[t]]) + 1] = obj[t]
      /\ \A h \in 1 .. Len(issued[lib[t]]) : issued'[lib[t]][h] = issued[lib[t]][h]
  BY <1>1, <1>2, <1>5
<1> QED BY <1>1, <1>3, <1>4, <1>5, <1>6 DEF NewFront, LoadSpec

\* A step outside compile_spec does not touch the front ends' handles.
LEMMA FreedKept ==
  ASSUME IInv, NEW t \in Threads, pc[t] \notin Compiling, pc'[t] \notin Compiling,
         \A u \in Threads \ {t} : pc'[u] = pc[u] /\ lib'[u] = lib[u] /\ handle'[u] = handle[u],
         \A f \in Fronts : live'[f] = live[f]
  PROVE  Freed'
BY DEF IInv, Freed

\* A step that frees no handle of an engine and moves no object's leaves them
\* where they are, if the thread was not delivering one.
LEMMA HeldKept ==
  ASSUME IInv, NEW t \in Threads, pc[t] # "specDoc",
         \A u \in Threads \ {t} :
           /\ pc'[u] = pc[u] /\ obj'[u] = obj[u] /\ lib'[u] = lib[u]
           /\ handle'[u] = handle[u] /\ answer'[u] = answer[u],
         handleOf' = handleOf,
         \A e \in Engines : issued'[e] = issued[e] /\ live'[e] \subseteq live[e],
         \A k \in Objects : handleOf[k] # 0 => libOf'[k] = libOf[k]
  PROVE  Held'
<1> SUFFICES ASSUME NEW e \in Engines, NEW h \in live'[e]
             PROVE  Holds(issued[e][h], e, h)' \/ Delivering(issued[e][h], e, h)'
  BY DEF Held
<1> DEFINE g == issued[e][h]
<1>1. h \in live[e] /\ h # 0 /\ g \in Objects
  BY DEF IInv, TypeOK, Numbered, Libs
<1>2. CASE Holds(g, e, h)
  BY <1>1, <1>2 DEF Holds
<1>3. CASE Delivering(g, e, h)
  <2>1. PICK u \in Threads :
          pc[u] = "specDoc" /\ answer[u].kind = "ok" /\ obj[u] = g /\ lib[u] = e /\ handle[u] = h
    BY <1>3 DEF Delivering
  <2> QED BY <2>1 DEF Delivering
<1> QED BY <1>1, <1>2, <1>3 DEF IInv, Held

\* A step leaves the other threads where they are.
LEMMA Others ==
  ASSUME TypeOK, NEW t \in Threads, NEW g, Works(t, g)
  PROVE  \A u \in Threads \ {t} :
           /\ pc'[u] = pc[u] /\ obj'[u] = obj[u] /\ lib'[u] = lib[u]
           /\ handle'[u] = handle[u] /\ answer'[u] = answer[u]
<1> USE DEF TypeOK
<1>1. CASE Begins(t, g) BY <1>1 DEF Begins, MayUse, Construct, Check, Close, Drop
<1>2. CASE NoLibrary(t) \/ FrontCached(t) \/ FrontOpen(t) \/ SourceWrongType(t)
  BY <1>2 DEF NoLibrary, FrontCached, FrontOpen, SourceWrongType
<1>3. CASE FrontLoaded(t) \/ FrontIsAnother(t) \/ FrontRefuses(t) \/ FrontNotStarted(t)
  BY <1>3 DEF FrontLoaded, FrontIsAnother, FrontRefuses, FrontNotStarted
<1>4. CASE NewFront(t)
  BY <1>4 DEF NewFront, Issues
<1>5. CASE NewFrontDoc(t) \/ Compile(t) \/ CompileDoc(t)
  BY <1>5 DEF NewFrontDoc, Compile, CompileDoc
<1>6. CASE CompileFree(t) \/ CompileFailed(t)
  BY <1>6 DEF CompileFree, CompileFailed
<1>7. CASE EngineCached(t) \/ EngineOpen(t)
  BY <1>7 DEF EngineCached, EngineOpen
<1>8. CASE EngineLoaded(t) \/ EngineIsAnother(t)
  BY <1>8 DEF EngineLoaded, EngineIsAnother
<1>9. CASE LoadSpec(t)
  BY <1>9 DEF LoadSpec, Issues
<1>10. CASE SpecRefused(t) \/ SpecLoaded(t) \/ SpecNotLoaded(t)
  BY <1>10 DEF SpecRefused, SpecLoaded, SpecNotLoaded
<1>11. CASE CheckTest(t) \/ CheckClosed(t) \/ CheckWrongType(t) \/ CheckRead(t) \/ CheckNone(t)
  BY <1>11 DEF CheckTest, CheckClosed, CheckWrongType, CheckRead, CheckNone
<1>12. CASE CheckCall(t) \/ CheckFreed(t)
  BY <1>12 DEF CheckCall, CheckFreed
<1>13. CASE CheckDoc(t) \/ CheckFailed(t)
  BY <1>13 DEF CheckDoc, CheckFailed
<1>14. CASE CloseTest(t) \/ CloseRead(t) \/ CloseNone(t)
  BY <1>14 DEF CloseTest, CloseRead, CloseNone
<1>15. CASE CloseFree(t) \/ CloseForget(t)
  BY <1>15 DEF CloseFree, CloseForget
<1>16. CASE Return(t)
  BY <1>16 DEF Return
<1> QED
  BY <1>1, <1>2, <1>3, <1>4, <1>5, <1>6, <1>7, <1>8, <1>9, <1>10, <1>11, <1>12, <1>13,
     <1>14, <1>15, <1>16
  DEF Works, Loading, Checking, Closing

\* Which steps issue a handle or free one.
LEMMA LibrariesKept ==
  ASSUME NEW t \in Threads, NEW g, Works(t, g),
         ~NewFront(t), ~LoadSpec(t), ~CompileFree(t), ~CompileFailed(t), ~CloseFree(t)
  PROVE  UNCHANGED <<issued, live>>
<1>1. CASE Begins(t, g) BY <1>1 DEF Begins, MayUse, Construct, Check, Close, Drop
<1>2. CASE NoLibrary(t) \/ FrontCached(t) \/ FrontOpen(t) \/ SourceWrongType(t)
  BY <1>2 DEF NoLibrary, FrontCached, FrontOpen, SourceWrongType
<1>3. CASE FrontLoaded(t) \/ FrontIsAnother(t) \/ FrontRefuses(t) \/ FrontNotStarted(t)
  BY <1>3 DEF FrontLoaded, FrontIsAnother, FrontRefuses, FrontNotStarted
<1>4. CASE NewFrontDoc(t) \/ Compile(t) \/ CompileDoc(t)
  BY <1>4 DEF NewFrontDoc, Compile, CompileDoc
<1>5. CASE EngineCached(t) \/ EngineOpen(t)
  BY <1>5 DEF EngineCached, EngineOpen
<1>6. CASE EngineLoaded(t) \/ EngineIsAnother(t)
  BY <1>6 DEF EngineLoaded, EngineIsAnother
<1>7. CASE SpecRefused(t) \/ SpecLoaded(t) \/ SpecNotLoaded(t)
  BY <1>7 DEF SpecRefused, SpecLoaded, SpecNotLoaded
<1>8. CASE CheckTest(t) \/ CheckClosed(t) \/ CheckWrongType(t) \/ CheckRead(t) \/ CheckNone(t)
  BY <1>8 DEF CheckTest, CheckClosed, CheckWrongType, CheckRead, CheckNone
<1>9. CASE CheckCall(t) \/ CheckFreed(t)
  BY <1>9 DEF CheckCall, CheckFreed
<1>10. CASE CheckDoc(t) \/ CheckFailed(t)
  BY <1>10 DEF CheckDoc, CheckFailed
<1>11. CASE CloseTest(t) \/ CloseRead(t) \/ CloseNone(t)
  BY <1>11 DEF CloseTest, CloseRead, CloseNone
<1>12. CASE CloseForget(t)
  BY <1>12 DEF CloseForget
<1>13. CASE Return(t)
  BY <1>13 DEF Return
<1> QED
  BY <1>1, <1>2, <1>3, <1>4, <1>5, <1>6, <1>7, <1>8, <1>9, <1>10, <1>11, <1>12, <1>13
  DEF Works, Loading, Checking, Closing

\* Which steps give an object a handle or a library, or take it away.
LEMMA ObjectsKept ==
  ASSUME NEW t \in Threads, NEW g, Works(t, g),
         ~SpecLoaded(t), ~SpecNotLoaded(t), ~CloseForget(t)
  PROVE  /\ pc[t] # "specDoc" /\ handleOf' = handleOf
         /\ ~EngineCached(t) /\ ~EngineLoaded(t) => libOf' = libOf
<1>1. CASE Begins(t, g) BY <1>1 DEF Begins, MayUse, Construct, Check, Close, Drop
<1>2. CASE NoLibrary(t) \/ FrontCached(t) \/ FrontOpen(t) \/ SourceWrongType(t)
  BY <1>2 DEF NoLibrary, FrontCached, FrontOpen, SourceWrongType
<1>3. CASE FrontLoaded(t) \/ FrontIsAnother(t) \/ FrontRefuses(t) \/ FrontNotStarted(t)
  BY <1>3 DEF FrontLoaded, FrontIsAnother, FrontRefuses, FrontNotStarted
<1>4. CASE NewFront(t)
  BY <1>4 DEF NewFront
<1>5. CASE NewFrontDoc(t) \/ Compile(t) \/ CompileDoc(t)
  BY <1>5 DEF NewFrontDoc, Compile, CompileDoc
<1>6. CASE CompileFree(t) \/ CompileFailed(t)
  BY <1>6 DEF CompileFree, CompileFailed
<1>7. CASE EngineCached(t) \/ EngineOpen(t)
  BY <1>7 DEF EngineCached, EngineOpen
<1>8. CASE EngineLoaded(t) \/ EngineIsAnother(t)
  BY <1>8 DEF EngineLoaded, EngineIsAnother
<1>9. CASE LoadSpec(t)
  BY <1>9 DEF LoadSpec
<1>10. CASE SpecRefused(t)
  BY <1>10 DEF SpecRefused
<1>11. CASE CheckTest(t) \/ CheckClosed(t) \/ CheckWrongType(t) \/ CheckRead(t) \/ CheckNone(t)
  BY <1>11 DEF CheckTest, CheckClosed, CheckWrongType, CheckRead, CheckNone
<1>12. CASE CheckCall(t) \/ CheckFreed(t)
  BY <1>12 DEF CheckCall, CheckFreed
<1>13. CASE CheckDoc(t) \/ CheckFailed(t)
  BY <1>13 DEF CheckDoc, CheckFailed
<1>14. CASE CloseTest(t) \/ CloseRead(t) \/ CloseNone(t)
  BY <1>14 DEF CloseTest, CloseRead, CloseNone
<1>15. CASE CloseFree(t)
  BY <1>15 DEF CloseFree
<1>16. CASE Return(t)
  BY <1>16 DEF Return
<1> QED
  BY <1>1, <1>2, <1>3, <1>4, <1>5, <1>6, <1>7, <1>8, <1>9, <1>10, <1>11, <1>12, <1>13,
     <1>14, <1>15, <1>16
  DEF Works, Loading, Checking, Closing

\* Which steps are compile_spec's.
LEMMA CompilingKept ==
  ASSUME TypeOK, NEW t \in Threads, NEW g, Works(t, g),
         ~NewFront(t), ~NewFrontDoc(t), ~Compile(t), ~CompileDoc(t), ~CompileFree(t),
         ~CompileFailed(t)
  PROVE  pc[t] \notin Compiling /\ pc'[t] \notin Compiling
<1> USE DEF TypeOK, Compiling
<1>1. CASE Begins(t, g) BY <1>1 DEF Begins, MayUse, Construct, Check, Close, Drop
<1>2. CASE NoLibrary(t) \/ FrontCached(t) \/ FrontOpen(t) \/ SourceWrongType(t)
  BY <1>2 DEF NoLibrary, FrontCached, FrontOpen, SourceWrongType
<1>3. CASE FrontLoaded(t) \/ FrontIsAnother(t) \/ FrontRefuses(t) \/ FrontNotStarted(t)
  BY <1>3 DEF FrontLoaded, FrontIsAnother, FrontRefuses, FrontNotStarted
<1>4. CASE EngineCached(t) \/ EngineOpen(t)
  BY <1>4 DEF EngineCached, EngineOpen
<1>5. CASE EngineLoaded(t) \/ EngineIsAnother(t)
  BY <1>5 DEF EngineLoaded, EngineIsAnother
<1>6. CASE LoadSpec(t)
  BY <1>6 DEF LoadSpec
<1>7. CASE SpecRefused(t) \/ SpecLoaded(t) \/ SpecNotLoaded(t)
  BY <1>7 DEF SpecRefused, SpecLoaded, SpecNotLoaded
<1>8. CASE CheckTest(t) \/ CheckClosed(t) \/ CheckWrongType(t) \/ CheckRead(t) \/ CheckNone(t)
  BY <1>8 DEF CheckTest, CheckClosed, CheckWrongType, CheckRead, CheckNone
<1>9. CASE CheckCall(t) \/ CheckFreed(t)
  BY <1>9 DEF CheckCall, CheckFreed
<1>10. CASE CheckDoc(t) \/ CheckFailed(t)
  BY <1>10 DEF CheckDoc, CheckFailed
<1>11. CASE CloseTest(t) \/ CloseRead(t) \/ CloseNone(t)
  BY <1>11 DEF CloseTest, CloseRead, CloseNone
<1>12. CASE CloseFree(t) \/ CloseForget(t)
  BY <1>12 DEF CloseFree, CloseForget
<1>13. CASE Return(t)
  BY <1>13 DEF Return
<1> QED
  BY <1>1, <1>2, <1>3, <1>4, <1>5, <1>6, <1>7, <1>8, <1>9, <1>10, <1>11, <1>12, <1>13
  DEF Works, Loading, Checking, Closing

\* A step takes a document and enters the code that decodes it, or releases the
\* document with the library it came from and leaves that code, or does neither.
LEMMA DocumentsStep ==
  ASSUME TypeOK, NEW t \in Threads, NEW g, Works(t, g)
  PROVE  \/ pc[t] \notin Decoding /\ pc'[t] \notin Decoding /\ documents' = documents
         \/ pc[t] \notin Decoding /\ pc'[t] \in Decoding /\ Returns(lib'[t], t)
         \/ pc[t] \in Decoding /\ pc'[t] \notin Decoding /\ Releases(t)
<1> USE DEF TypeOK, Decoding
<1>1. CASE Begins(t, g) BY <1>1 DEF Begins, MayUse, Construct, Check, Close, Drop
<1>2. CASE NoLibrary(t) \/ FrontCached(t) \/ FrontOpen(t) \/ SourceWrongType(t)
  BY <1>2 DEF NoLibrary, FrontCached, FrontOpen, SourceWrongType
<1>3. CASE FrontLoaded(t) \/ FrontIsAnother(t) \/ FrontRefuses(t) \/ FrontNotStarted(t)
  BY <1>3 DEF FrontLoaded, FrontIsAnother, FrontRefuses, FrontNotStarted
<1>4. CASE NewFront(t)
  BY <1>4 DEF NewFront
<1>5. CASE NewFrontDoc(t) \/ Compile(t) \/ CompileDoc(t)
  BY <1>5 DEF NewFrontDoc, Compile, CompileDoc
<1>6. CASE CompileFree(t) \/ CompileFailed(t)
  BY <1>6 DEF CompileFree, CompileFailed
<1>7. CASE EngineCached(t) \/ EngineOpen(t)
  BY <1>7 DEF EngineCached, EngineOpen
<1>8. CASE EngineLoaded(t) \/ EngineIsAnother(t)
  BY <1>8 DEF EngineLoaded, EngineIsAnother
<1>9. CASE LoadSpec(t)
  BY <1>9 DEF LoadSpec
<1>10. CASE SpecRefused(t) \/ SpecLoaded(t) \/ SpecNotLoaded(t)
  BY <1>10 DEF SpecRefused, SpecLoaded, SpecNotLoaded
<1>11. CASE CheckTest(t) \/ CheckClosed(t) \/ CheckWrongType(t) \/ CheckRead(t) \/ CheckNone(t)
  BY <1>11 DEF CheckTest, CheckClosed, CheckWrongType, CheckRead, CheckNone
<1>12. CASE CheckCall(t) \/ CheckFreed(t)
  BY <1>12 DEF CheckCall, CheckFreed
<1>13. CASE CheckDoc(t) \/ CheckFailed(t)
  BY <1>13 DEF CheckDoc, CheckFailed
<1>14. CASE CloseTest(t) \/ CloseRead(t) \/ CloseNone(t)
  BY <1>14 DEF CloseTest, CloseRead, CloseNone
<1>15. CASE CloseFree(t) \/ CloseForget(t)
  BY <1>15 DEF CloseFree, CloseForget
<1>16. CASE Return(t)
  BY <1>16 DEF Return
<1> QED
  BY <1>1, <1>2, <1>3, <1>4, <1>5, <1>6, <1>7, <1>8, <1>9, <1>10, <1>11, <1>12, <1>13,
     <1>14, <1>15, <1>16
  DEF Works, Loading, Checking, Closing

-----------------------------------------------------------------------------
(* The two steps that issue a handle.                                      *)

\* No handle is lost, and the new one is new.
LEMMA IssuesMore ==
  ASSUME IInv, NEW t \in Threads, NewFront(t) \/ LoadSpec(t)
  PROVE  \A l \in Libs :
           /\ live[l] \subseteq live'[l]
           /\ \A h \in live'[l] : h \in live[l] \/ (l = lib[t] /\ h = Len(issued[l]) + 1)
           /\ Len(issued[l]) + 1 \notin live[l]
           /\ \A h \in 1 .. Len(issued[l]) :
                h \in 1 .. Len(issued'[l]) /\ issued'[l][h] = issued[l][h]
<1> SUFFICES ASSUME NEW l \in Libs
             PROVE  /\ live[l] \subseteq live'[l]
                    /\ \A h \in live'[l] : h \in live[l] \/ (l = lib[t] /\ h = Len(issued[l]) + 1)
                    /\ Len(issued[l]) + 1 \notin live[l]
                    /\ \A h \in 1 .. Len(issued[l]) :
                         h \in 1 .. Len(issued'[l]) /\ issued'[l][h] = issued[l][h]
  OBVIOUS
<1>1. live \in [Libs -> SUBSET (Nat \ {0})] /\ issued[l] \in Seq(Objects)
  BY DEF IInv, TypeOK
<1>2. Len(issued[l]) \in Nat /\ Len(issued[l]) + 1 \notin live[l]
  BY <1>1 DEF IInv, Numbered
<1> QED BY <1>1, <1>2, Issuing

LEMMA IssuingTypes ==
  ASSUME IInv, NEW t \in Threads, NewFront(t) \/ LoadSpec(t)
  PROVE  TypeOK'
<1> DEFINE l == lib[t]  n == Len(issued[lib[t]]) + 1
<1>1. TypeOK /\ l \in Libs /\ n \in Nat \ {0}
  BY Issuing DEF IInv
<1>2. /\ live' = [live EXCEPT ![l] = @ \cup {n}]
      /\ handle' = [handle EXCEPT ![t] = n]
      /\ documents' = [documents EXCEPT ![l] = @ \cup {t}]
      /\ issued' \in [Libs -> Seq(Objects)]
      /\ pc' = [pc EXCEPT ![t] = "loaderDoc"] \/ pc' = [pc EXCEPT ![t] = "specDoc"]
      /\ answer' = answer \/ answer' = [answer EXCEPT ![t] = Is("ok")]
      /\ UNCHANGED <<cachedLib, cachedEngine, state, maker, handleOf, libOf, obj, lib>>
  BY Issuing
<1> HIDE DEF l, n
<1>3. pc' \in [Threads -> Locations]
  <2>1. "loaderDoc" \in Locations /\ "specDoc" \in Locations
    BY DEF Locations, Decoding
  <2> QED BY <1>1, <1>2, <2>1 DEF TypeOK
<1>6. answer' \in [Threads -> Answers]
  <2>1. Is("ok") \in Answers
    BY DEF Is, Answers
  <2> QED BY <1>1, <1>2, <2>1 DEF TypeOK
<1>4. live[l] \cup {n} \in SUBSET (Nat \ {0}) /\ documents[l] \cup {t} \in SUBSET Threads
  BY <1>1 DEF TypeOK
<1>5. live' \in [Libs -> SUBSET (Nat \ {0})] /\ documents' \in [Libs -> SUBSET Threads]
  BY <1>1, <1>2, <1>4 DEF TypeOK
<1> QED BY <1>1, <1>2, <1>3, <1>5, <1>6 DEF TypeOK

LEMMA IssuingObjects ==
  ASSUME IInv, NEW t \in Threads, NewFront(t) \/ LoadSpec(t)
  PROVE  /\ (\A k \in Objects : ObjectPlaced(k))'
         /\ (\A u \in Threads : Undisturbed(u))'
         /\ GoneEmpty'
<1>0. /\ TypeOK /\ Apart /\ GoneEmpty
      /\ \A k \in Objects : ObjectPlaced(k)
      /\ \A u \in Threads : Placed(u) /\ Undisturbed(u)
  BY DEF IInv
<1>1. state' = state /\ handleOf' = handleOf /\ libOf' = libOf /\ obj' = obj
  BY Issuing
<1>2. (\A k \in Objects : ObjectPlaced(k))'
  BY <1>0, <1>1, IssuesMore DEF ObjectPlaced, Libs
<1>3. (\A u \in Threads : Undisturbed(u))'
  BY <1>0, Issuing DEF Undisturbed, Alone, Placed, Making, TypeOK
<1> QED BY <1>0, <1>1, <1>2, <1>3 DEF GoneEmpty

LEMMA IssuingOpen ==
  ASSUME IInv, NEW t \in Threads, NewFront(t) \/ LoadSpec(t)
  PROVE  OpenIsLive'
<1>0. OpenIsLive /\ (\A k \in Objects : ObjectPlaced(k)) /\ TypeOK
  BY DEF IInv
<1>1. handleOf' = handleOf /\ libOf' = libOf /\ obj' = obj /\ pc[t] # "closeForget"
  BY Issuing
<1>2. ASSUME NEW k \in Objects, handleOf[k] # 0,
             handleOf[k] \in live[libOf[k]], issued[libOf[k]][handleOf[k]] = k
      PROVE handleOf[k] \in live'[libOf[k]] /\ issued'[libOf[k]][handleOf[k]] = k
  BY <1>0, <1>2, IssuesMore DEF ObjectPlaced, Libs
<1>3. \A u \in Threads : pc[u] = "closeForget" => pc'[u] = "closeForget"
  BY <1>0, <1>1, Issuing DEF TypeOK
<1> QED BY <1>0, <1>1, <1>2, <1>3 DEF OpenIsLive

\* The new handle is for an object nobody else is on, so no thread that has
\* just closed an object finds it there.
LEMMA IssuingHandles ==
  ASSUME IInv, NEW t \in Threads, NewFront(t) \/ LoadSpec(t)
  PROVE  (\A u \in Threads : HandlePlaced(u))'
<1>0. (\A u \in Threads : HandlePlaced(u) /\ LibPlaced(u) /\ Placed(u)) /\ Apart /\ TypeOK
  BY DEF IInv
<1>1. handleOf' = handleOf /\ libOf' = libOf /\ obj' = obj /\ lib' = lib
  BY Issuing
<1>2. HandlePlaced(t)'
  <2>1. CASE NewFront(t)
    BY <2>1, <1>0, Issuing DEF HandlePlaced, TypeOK
  <2>2. CASE LoadSpec(t)
    <3>1. /\ pc'[t] = "specDoc" /\ handle'[t] = Len(issued[lib[t]]) + 1
          /\ handle'[t] \in live'[lib[t]]
          /\ issued'[lib[t]][handle'[t]] = obj[t] /\ handle'[t] \in 1 .. Len(issued'[lib[t]])
      BY <2>2, <1>0, Issuing DEF TypeOK
    <3> QED BY <1>1, <3>1 DEF HandlePlaced
  <2> QED BY <2>1, <2>2
<1>3. ASSUME NEW u \in Threads, u # t PROVE HandlePlaced(u)'
  <2>1. /\ pc'[u] = pc[u] /\ handle'[u] = handle[u] /\ answer'[u] = answer[u]
    BY <1>0, <1>3, Issuing DEF TypeOK
  <2>2. pc[u] = "closeForget" => obj[u] # obj[t] /\ lib[u] \in Engines
    BY <1>0, <1>3, Issuing DEF Placed, Apart, Alone, Making, LibPlaced
  <2>3. pc[u] = "closeForget" => \A e \in Engines : \A h \in live'[e] : issued'[e][h] # obj[u]
    <3> SUFFICES ASSUME pc[u] = "closeForget", NEW e \in Engines, NEW h \in live'[e]
                 PROVE  issued'[e][h] # obj[u]
      OBVIOUS
    <3>1. e \in Libs /\ lib[t] \in Libs
      BY Issuing DEF Libs
    <3>2. CASE h \in live[e]
      <4>1. issued'[e][h] = issued[e][h]
        BY <3>1, <3>2, IssuesMore DEF IInv, Numbered
      <4> QED BY <1>0, <3>2, <4>1 DEF HandlePlaced
    <3>3. CASE e = lib[t] /\ h = Len(issued[e]) + 1
      BY <2>2, <3>3, Issuing
    <3> QED BY <3>1, <3>2, <3>3, IssuesMore
  <2>4. pc[u] \in {"specDoc", "checkCall", "closeFree", "closeForget"} => lib[u] \in Libs
    BY <1>0 DEF LibPlaced, Libs
  <2> QED BY <1>0, <1>1, <2>1, <2>3, <2>4, IssuesMore DEF HandlePlaced
<1> QED BY <1>2, <1>3

-----------------------------------------------------------------------------
(* The parts of the invariant, step by step.                               *)

\* Who is on which object, and with which library.
LEMMA StepPlaced ==
  ASSUME IInv, NEW t \in Threads, NEW g, Works(t, g)
  PROVE  (\A u \in Threads : Placed(u))' /\ Apart' /\ (\A u \in Threads : LibPlaced(u))'
<1> USE LibsAssumption DEF IInv, TypeOK, Placed, Apart, Alone, Making, LibPlaced,
            ObjectPlaced, Compiling, Libs
<1>1. CASE g \in Objects /\ Construct(t, g) BY <1>1 DEF Construct
<1>2. CASE g \in Objects /\ Check(t, g) BY <1>2 DEF MayUse, Check
<1>3. CASE g \in Objects /\ Close(t, g) BY <1>3 DEF MayUse, Close
<1>4. CASE g \in Objects /\ Drop(t, g) BY <1>4 DEF Drop
<1>5. CASE NoLibrary(t) BY <1>5 DEF NoLibrary
<1>6. CASE FrontCached(t) BY <1>6 DEF FrontCached
<1>7. CASE FrontOpen(t) BY <1>7 DEF FrontOpen
<1>8. CASE FrontLoaded(t) BY <1>8 DEF FrontLoaded
<1>9. CASE FrontIsAnother(t) BY <1>9 DEF FrontIsAnother
<1>10. CASE NewFront(t) BY <1>10 DEF NewFront
<1>11. CASE NewFrontDoc(t) BY <1>11 DEF NewFrontDoc
<1>12. CASE Compile(t) BY <1>12 DEF Compile
<1>13. CASE CompileDoc(t) BY <1>13 DEF CompileDoc
<1>14. CASE CompileFree(t) BY <1>14 DEF CompileFree
<1>15. CASE CompileFailed(t) BY <1>15 DEF CompileFailed
<1>16. CASE EngineCached(t) BY <1>16 DEF EngineCached
<1>17. CASE EngineOpen(t) BY <1>17 DEF EngineOpen
<1>18. CASE EngineLoaded(t) BY <1>18 DEF EngineLoaded
<1>19. CASE EngineIsAnother(t) BY <1>19 DEF EngineIsAnother
<1>20. CASE LoadSpec(t) BY <1>20 DEF LoadSpec
<1>21. CASE SpecRefused(t) BY <1>21 DEF SpecRefused
<1>22. CASE SpecLoaded(t) BY <1>22 DEF SpecLoaded
<1>23. CASE SpecNotLoaded(t) BY <1>23 DEF SpecNotLoaded
<1>24. CASE CheckTest(t) BY <1>24 DEF CheckTest
<1>25. CASE CheckClosed(t) BY <1>25 DEF CheckClosed
<1>26. CASE CheckRead(t) BY <1>26 DEF CheckRead
<1>27. CASE CheckNone(t) BY <1>27 DEF CheckNone
<1>28. CASE CheckCall(t) BY <1>28 DEF CheckCall
<1>29. CASE CheckFreed(t) BY <1>29 DEF CheckFreed
<1>30. CASE CheckDoc(t) BY <1>30 DEF CheckDoc
<1>31. CASE CheckFailed(t) BY <1>31 DEF CheckFailed
<1>32. CASE CloseTest(t) BY <1>32 DEF CloseTest
<1>33. CASE CloseRead(t) BY <1>33 DEF CloseRead
<1>34. CASE CloseNone(t) BY <1>34 DEF CloseNone
<1>35. CASE CloseFree(t) BY <1>35 DEF CloseFree
<1>36. CASE CloseForget(t) BY <1>36 DEF CloseForget
<1>37. CASE Return(t) BY <1>37 DEF Return
<1>38. CASE SourceWrongType(t) BY <1>38 DEF SourceWrongType
<1>39. CASE FrontRefuses(t) BY <1>39 DEF FrontRefuses
<1>40. CASE FrontNotStarted(t) BY <1>40 DEF FrontNotStarted
<1>41. CASE CheckWrongType(t) BY <1>41 DEF CheckWrongType
<1> QED
  BY <1>1, <1>2, <1>3, <1>4, <1>5, <1>6, <1>7, <1>8, <1>9, <1>10, <1>11, <1>12, <1>13,
     <1>14, <1>15, <1>16, <1>17, <1>18, <1>19, <1>20, <1>21, <1>22, <1>23, <1>24, <1>25, <1>26,
     <1>27, <1>28, <1>29, <1>30, <1>31, <1>32, <1>33, <1>34, <1>35, <1>36, <1>37,
     <1>38, <1>39, <1>40, <1>41
  DEF Works, Begins, Loading, Checking, Closing

\* What the objects hold, and that nobody disturbs the one thread on an object.
LEMMA StepObjects ==
  ASSUME IInv, NEW t \in Threads, NEW g, Works(t, g)
  PROVE  (\A k \in Objects : ObjectPlaced(k))' /\ (\A u \in Threads : Undisturbed(u))' /\ GoneEmpty'
<1> USE LibsAssumption DEF IInv, TypeOK, Placed, Apart, Alone, Making, LibPlaced,
            ObjectPlaced, HandlePlaced, Undisturbed, GoneEmpty, Libs
<1>1. CASE g \in Objects /\ Construct(t, g) BY <1>1 DEF Construct
<1>2. CASE g \in Objects /\ Check(t, g) BY <1>2 DEF MayUse, Check
<1>3. CASE g \in Objects /\ Close(t, g) BY <1>3 DEF MayUse, Close
<1>4. CASE g \in Objects /\ Drop(t, g) BY <1>4 DEF Drop
<1>5. CASE NoLibrary(t) BY <1>5 DEF NoLibrary
<1>6. CASE FrontCached(t) BY <1>6 DEF FrontCached
<1>7. CASE FrontOpen(t) BY <1>7 DEF FrontOpen
<1>8. CASE FrontLoaded(t) BY <1>8 DEF FrontLoaded
<1>9. CASE FrontIsAnother(t) BY <1>9 DEF FrontIsAnother
<1>10. CASE NewFront(t)
  BY <1>10, IssuingObjects
<1>11. CASE NewFrontDoc(t) BY <1>11 DEF NewFrontDoc
<1>12. CASE Compile(t) BY <1>12 DEF Compile
<1>13. CASE CompileDoc(t) BY <1>13 DEF CompileDoc
<1>14. CASE CompileFree(t) BY <1>14 DEF CompileFree
<1>15. CASE CompileFailed(t) BY <1>15 DEF CompileFailed
<1>16. CASE EngineCached(t) BY <1>16 DEF EngineCached
<1>17. CASE EngineOpen(t) BY <1>17 DEF EngineOpen
<1>18. CASE EngineLoaded(t) BY <1>18 DEF EngineLoaded
<1>19. CASE EngineIsAnother(t) BY <1>19 DEF EngineIsAnother
<1>20. CASE LoadSpec(t)
  BY <1>20, IssuingObjects
<1>21. CASE SpecRefused(t) BY <1>21 DEF SpecRefused
<1>22. CASE SpecLoaded(t) BY <1>22 DEF SpecLoaded
<1>23. CASE SpecNotLoaded(t) BY <1>23 DEF SpecNotLoaded
<1>24. CASE CheckTest(t) BY <1>24 DEF CheckTest
<1>25. CASE CheckClosed(t) BY <1>25 DEF CheckClosed
<1>26. CASE CheckRead(t) BY <1>26 DEF CheckRead
<1>27. CASE CheckNone(t) BY <1>27 DEF CheckNone
<1>28. CASE CheckCall(t) BY <1>28 DEF CheckCall
<1>29. CASE CheckFreed(t) BY <1>29 DEF CheckFreed
<1>30. CASE CheckDoc(t) BY <1>30 DEF CheckDoc
<1>31. CASE CheckFailed(t) BY <1>31 DEF CheckFailed
<1>32. CASE CloseTest(t) BY <1>32 DEF CloseTest
<1>33. CASE CloseRead(t) BY <1>33 DEF CloseRead
<1>34. CASE CloseNone(t) BY <1>34 DEF CloseNone
<1>35. CASE CloseFree(t) BY <1>35 DEF CloseFree
<1>36. CASE CloseForget(t) BY <1>36 DEF CloseForget
<1>37. CASE Return(t) BY <1>37 DEF Return
<1>38. CASE SourceWrongType(t) BY <1>38 DEF SourceWrongType
<1>39. CASE FrontRefuses(t) BY <1>39 DEF FrontRefuses
<1>40. CASE FrontNotStarted(t) BY <1>40 DEF FrontNotStarted
<1>41. CASE CheckWrongType(t) BY <1>41 DEF CheckWrongType
<1> QED
  BY <1>1, <1>2, <1>3, <1>4, <1>5, <1>6, <1>7, <1>8, <1>9, <1>10, <1>11, <1>12, <1>13,
     <1>14, <1>15, <1>16, <1>17, <1>18, <1>19, <1>20, <1>21, <1>22, <1>23, <1>24, <1>25, <1>26,
     <1>27, <1>28, <1>29, <1>30, <1>31, <1>32, <1>33, <1>34, <1>35, <1>36, <1>37,
     <1>38, <1>39, <1>40, <1>41
  DEF Works, Begins, Loading, Checking, Closing

\* Whoever frees an object's handle finds no other live handle of the object.
LEMMA FreeHandles ==
  ASSUME IInv, NEW t \in Threads, CloseFree(t)
  PROVE  (\A u \in Threads : HandlePlaced(u))' /\ OpenIsLive'
<1>0. /\ TypeOK /\ Apart /\ Held /\ OpenIsLive
      /\ \A u \in Threads : Placed(u) /\ LibPlaced(u) /\ HandlePlaced(u)
      /\ \A k \in Objects : ObjectPlaced(k)
  BY DEF IInv
<1>1. /\ pc[t] = "closeFree" /\ pc' = [pc EXCEPT ![t] = "closeForget"] /\ handle[t] # 0
      /\ live' = [live EXCEPT ![lib[t]] = @ \ {handle[t]}]
      /\ UNCHANGED <<issued, handleOf, libOf, obj, lib, handle, answer>>
  BY DEF CloseFree
<1>2. /\ lib[t] \in Engines /\ libOf[obj[t]] = lib[t] /\ obj[t] \in Objects
      /\ handle[t] \in 1 .. Len(issued[lib[t]]) /\ issued[lib[t]][handle[t]] = obj[t]
      /\ handleOf[obj[t]] \in {0, handle[t]}
      /\ state[obj[t]] # "making"
  <2>1. lib[t] \in Engines /\ libOf[obj[t]] = lib[t]
    BY <1>0, <1>1 DEF LibPlaced
  <2>2. obj[t] \in Objects /\ state[obj[t]] # "making"
    <3>1. pc[t] \notin Making /\ pc[t] # "idle"
      BY <1>1 DEF Making
    <3> QED BY <1>0, <3>1 DEF Placed, TypeOK
  <2> QED BY <1>0, <1>1, <2>1, <2>2 DEF HandlePlaced
<1>3. \A e \in Engines : \A h \in live[e] :
        issued[e][h] = obj[t] => e = lib[t] /\ h = handle[t]
  <2> SUFFICES ASSUME NEW e \in Engines, NEW h \in live[e], issued[e][h] = obj[t]
               PROVE  e = lib[t] /\ h = handle[t]
    OBVIOUS
  <2>1. h # 0
    BY <1>0 DEF TypeOK, Libs
  <2>2. CASE Holds(obj[t], e, h)
    BY <1>2, <2>1, <2>2 DEF Holds
  <2>3. CASE Delivering(obj[t], e, h)
    BY <1>0, <1>2, <2>3 DEF Delivering, Placed, Making
  <2> QED BY <1>0, <2>2, <2>3 DEF Held
<1>4. \A e \in Engines : live'[e] = IF e = lib[t] THEN live[e] \ {handle[t]} ELSE live[e]
  BY <1>0, <1>1, <1>2 DEF TypeOK, Libs
<1>5. HandlePlaced(t)'
  <2>1. pc'[t] = "closeForget"
    BY <1>0, <1>1 DEF TypeOK
  <2>2. \A e \in Engines : \A h \in live'[e] : issued[e][h] # obj[t]
    BY <1>3, <1>4
  <2> QED BY <1>1, <1>2, <2>1, <2>2 DEF HandlePlaced
<1>6. ASSUME NEW u \in Threads, u # t PROVE HandlePlaced(u)'
  <2>1. pc'[u] = pc[u]
    BY <1>0, <1>1, <1>6 DEF TypeOK
  <2>2. \A e \in Engines : live'[e] \subseteq live[e]
    BY <1>4
  <2>3. ASSUME pc[u] = "specDoc", answer[u].kind = "ok" PROVE handle[u] \in live'[lib[u]]
    <3>1. state[obj[u]] = "making"
      BY <1>0, <2>3 DEF Placed, Making
    <3>2. lib[u] \in Engines /\ handle[u] \in live[lib[u]] /\ issued[lib[u]][handle[u]] = obj[u]
      BY <1>0, <2>3 DEF HandlePlaced, LibPlaced
    <3>3. ~(lib[u] = lib[t] /\ handle[u] = handle[t])
      BY <1>2, <3>1, <3>2
    <3> QED BY <1>4, <3>2, <3>3
  <2> QED BY <1>0, <1>1, <2>1, <2>2, <2>3 DEF HandlePlaced
<1>7. OpenIsLive'
  <2>1. ASSUME NEW k \in Objects, k # obj[t], handleOf[k] # 0, handleOf[k] \in live[libOf[k]]
        PROVE  handleOf[k] \in live'[libOf[k]]
    BY <1>0, <1>2, <1>4, <2>1 DEF ObjectPlaced
  <2>2. \A u \in Threads : pc[u] = "closeForget" => pc'[u] = "closeForget"
    BY <1>0, <1>1 DEF TypeOK
  <2>3. pc'[t] = "closeForget"
    BY <1>0, <1>1 DEF TypeOK
  <2> QED BY <1>0, <1>1, <2>1, <2>2, <2>3 DEF OpenIsLive
<1> QED BY <1>5, <1>6, <1>7

LEMMA ForgetHandles ==
  ASSUME IInv, NEW t \in Threads, CloseForget(t)
  PROVE  (\A u \in Threads : HandlePlaced(u))' /\ OpenIsLive'
<1>0. TypeOK /\ OpenIsLive /\ (\A u \in Threads : HandlePlaced(u))
  BY DEF IInv
<1>1. /\ pc[t] = "closeForget" /\ pc' = [pc EXCEPT ![t] = "over"]
      /\ handleOf' = [handleOf EXCEPT ![obj[t]] = 0]
      /\ UNCHANGED <<issued, live, libOf, obj, lib, handle, answer>>
  BY DEF CloseForget
<1>2. \A u \in Threads : pc'[u] = IF u = t THEN "over" ELSE pc[u]
  BY <1>0, <1>1 DEF TypeOK
<1>3. \A k \in Objects : handleOf'[k] = IF k = obj[t] THEN 0 ELSE handleOf[k]
  BY <1>0, <1>1 DEF TypeOK
<1>4. \A u \in Threads : obj[u] \notin Objects \/ handleOf'[obj[u]] \in {0, handleOf[obj[u]]}
  BY <1>3
<1>5. ASSUME NEW u \in Threads PROVE HandlePlaced(u)'
  BY <1>0, <1>1, <1>2, <1>4 DEF HandlePlaced, IInv, Placed, TypeOK
<1>6. OpenIsLive'
  BY <1>0, <1>1, <1>2, <1>3 DEF OpenIsLive
<1> QED BY <1>5, <1>6

\* What the handles are that threads have read, and that an object's is live.
LEMMA StepHandles ==
  ASSUME IInv, NEW t \in Threads, NEW g, Works(t, g)
  PROVE  (\A u \in Threads : HandlePlaced(u))' /\ OpenIsLive'
<1> USE LibsAssumption DEF IInv, TypeOK, Placed, Apart, Alone, Making, LibPlaced,
            ObjectPlaced, Numbered, HandlePlaced, OpenIsLive, Compiling, Libs
<1>1. CASE g \in Objects /\ Construct(t, g) BY <1>1 DEF Construct
<1>2. CASE g \in Objects /\ Check(t, g) BY <1>2 DEF MayUse, Check
<1>3. CASE g \in Objects /\ Close(t, g) BY <1>3 DEF MayUse, Close
<1>4. CASE g \in Objects /\ Drop(t, g) BY <1>4 DEF Drop
<1>5. CASE NoLibrary(t) BY <1>5 DEF NoLibrary
<1>6. CASE FrontCached(t) BY <1>6 DEF FrontCached
<1>7. CASE FrontOpen(t) BY <1>7 DEF FrontOpen
<1>8. CASE FrontLoaded(t) BY <1>8 DEF FrontLoaded
<1>9. CASE FrontIsAnother(t) BY <1>9 DEF FrontIsAnother
<1>10. CASE NewFront(t)
  BY <1>10, IssuingHandles, IssuingOpen
<1>11. CASE NewFrontDoc(t) BY <1>11 DEF NewFrontDoc
<1>12. CASE Compile(t) BY <1>12 DEF Compile
<1>13. CASE CompileDoc(t) BY <1>13 DEF CompileDoc
<1>14. CASE CompileFree(t) BY <1>14 DEF CompileFree
<1>15. CASE CompileFailed(t) BY <1>15 DEF CompileFailed
<1>16. CASE EngineCached(t) BY <1>16 DEF EngineCached
<1>17. CASE EngineOpen(t) BY <1>17 DEF EngineOpen
<1>18. CASE EngineLoaded(t) BY <1>18 DEF EngineLoaded
<1>19. CASE EngineIsAnother(t) BY <1>19 DEF EngineIsAnother
<1>20. CASE LoadSpec(t)
  BY <1>20, IssuingHandles, IssuingOpen
<1>21. CASE SpecRefused(t) BY <1>21 DEF SpecRefused
<1>22. CASE SpecLoaded(t) BY <1>22 DEF SpecLoaded
<1>23. CASE SpecNotLoaded(t) BY <1>23 DEF SpecNotLoaded
<1>24. CASE CheckTest(t) BY <1>24 DEF CheckTest
<1>25. CASE CheckClosed(t) BY <1>25 DEF CheckClosed
<1>26. CASE CheckRead(t)
  <2>1. (\A u \in Threads : HandlePlaced(u))'
    BY <1>26 DEF CheckRead
  <2>2. OpenIsLive'
    BY <1>26 DEF CheckRead
  <2> QED BY <2>1, <2>2
<1>27. CASE CheckNone(t) BY <1>27 DEF CheckNone
<1>28. CASE CheckCall(t) BY <1>28 DEF CheckCall
<1>29. CASE CheckFreed(t) BY <1>29 DEF CheckFreed
<1>30. CASE CheckDoc(t) BY <1>30 DEF CheckDoc
<1>31. CASE CheckFailed(t) BY <1>31 DEF CheckFailed
<1>32. CASE CloseTest(t) BY <1>32 DEF CloseTest
<1>33. CASE CloseRead(t) BY <1>33 DEF CloseRead
<1>34. CASE CloseNone(t) BY <1>34 DEF CloseNone
<1>35. CASE CloseFree(t)
  BY <1>35, FreeHandles
<1>36. CASE CloseForget(t)
  BY <1>36, ForgetHandles
<1>37. CASE Return(t) BY <1>37 DEF Return
<1>38. CASE SourceWrongType(t) BY <1>38 DEF SourceWrongType
<1>39. CASE FrontRefuses(t) BY <1>39 DEF FrontRefuses
<1>40. CASE FrontNotStarted(t) BY <1>40 DEF FrontNotStarted
<1>41. CASE CheckWrongType(t) BY <1>41 DEF CheckWrongType
<1> QED
  BY <1>1, <1>2, <1>3, <1>4, <1>5, <1>6, <1>7, <1>8, <1>9, <1>10, <1>11, <1>12, <1>13,
     <1>14, <1>15, <1>16, <1>17, <1>18, <1>19, <1>20, <1>21, <1>22, <1>23, <1>24, <1>25, <1>26,
     <1>27, <1>28, <1>29, <1>30, <1>31, <1>32, <1>33, <1>34, <1>35, <1>36, <1>37,
     <1>38, <1>39, <1>40, <1>41
  DEF Works, Begins, Loading, Checking, Closing

\* No object that a thread has found closed is opened again.
LEMMA StepClosed ==
  ASSUME IInv, NEW t \in Threads, NEW g, Works(t, g)
  PROVE  (\A u \in Threads : Emptied(u))' /\ ClosedNamed'
<1>0. TypeOK /\ (\A u \in Threads : Emptied(u)) /\ ClosedNamed
  BY DEF IInv
<1> USE DEF IInv, TypeOK, Placed, Apart, Alone, Making, Undisturbed, Emptied, ClosedNamed
<1>1. CASE g \in Objects /\ Construct(t, g) BY <1>1 DEF Construct
<1>2. CASE g \in Objects /\ Check(t, g) BY <1>2 DEF MayUse, Check
<1>3. CASE g \in Objects /\ Close(t, g) BY <1>3 DEF MayUse, Close
<1>4. CASE g \in Objects /\ Drop(t, g) BY <1>4 DEF Drop
<1>5. CASE NoLibrary(t) BY <1>5 DEF NoLibrary
<1>6. CASE FrontCached(t) BY <1>6 DEF FrontCached
<1>7. CASE FrontOpen(t) BY <1>7 DEF FrontOpen
<1>8. CASE FrontLoaded(t) BY <1>8 DEF FrontLoaded
<1>9. CASE FrontIsAnother(t) BY <1>9 DEF FrontIsAnother
<1>10. CASE NewFront(t)
  <2>1. /\ UNCHANGED <<state, handleOf, obj>> /\ pc'[t] \notin {"checkCall", "closeFree"}
        /\ answer'[t].kind = "ArgumentError" => answer[t].kind = "ArgumentError"
    BY <1>10 DEF NewFront
  <2> HIDE DEF IInv, TypeOK, Placed, Apart, Alone, Making, Undisturbed
  <2> QED BY <1>0, <2>1, Others
<1>11. CASE NewFrontDoc(t) BY <1>11 DEF NewFrontDoc
<1>12. CASE Compile(t) BY <1>12 DEF Compile
<1>13. CASE CompileDoc(t) BY <1>13 DEF CompileDoc
<1>14. CASE CompileFree(t) BY <1>14 DEF CompileFree
<1>15. CASE CompileFailed(t) BY <1>15 DEF CompileFailed
<1>16. CASE EngineCached(t) BY <1>16 DEF EngineCached
<1>17. CASE EngineOpen(t) BY <1>17 DEF EngineOpen
<1>18. CASE EngineLoaded(t) BY <1>18 DEF EngineLoaded
<1>19. CASE EngineIsAnother(t) BY <1>19 DEF EngineIsAnother
<1>20. CASE LoadSpec(t)
  <2>1. /\ UNCHANGED <<state, handleOf, obj>> /\ pc'[t] \notin {"checkCall", "closeFree"}
        /\ answer'[t].kind = "ArgumentError" => answer[t].kind = "ArgumentError"
    BY <1>20 DEF LoadSpec
  <2> HIDE DEF IInv, TypeOK, Placed, Apart, Alone, Making, Undisturbed
  <2> QED BY <1>0, <2>1, Others
<1>21. CASE SpecRefused(t) BY <1>21 DEF SpecRefused
<1>22. CASE SpecLoaded(t) BY <1>22 DEF SpecLoaded
<1>23. CASE SpecNotLoaded(t) BY <1>23 DEF SpecNotLoaded
<1>24. CASE CheckTest(t) BY <1>24 DEF CheckTest
<1>25. CASE CheckClosed(t) BY <1>25 DEF CheckClosed
<1>26. CASE CheckRead(t) BY <1>26 DEF CheckRead
<1>27. CASE CheckNone(t) BY <1>27 DEF CheckNone
<1>28. CASE CheckCall(t) BY <1>28 DEF CheckCall, VerdictOf
<1>29. CASE CheckFreed(t) BY <1>29 DEF CheckFreed
<1>30. CASE CheckDoc(t) BY <1>30 DEF CheckDoc
<1>31. CASE CheckFailed(t) BY <1>31 DEF CheckFailed
<1>32. CASE CloseTest(t) BY <1>32 DEF CloseTest
<1>33. CASE CloseRead(t) BY <1>33 DEF CloseRead
<1>34. CASE CloseNone(t) BY <1>34 DEF CloseNone
<1>35. CASE CloseFree(t) BY <1>35 DEF CloseFree
<1>36. CASE CloseForget(t) BY <1>36 DEF CloseForget
<1>37. CASE Return(t) BY <1>37 DEF Return
<1>38. CASE SourceWrongType(t) BY <1>38 DEF SourceWrongType
<1>39. CASE FrontRefuses(t) BY <1>39 DEF FrontRefuses
<1>40. CASE FrontNotStarted(t) BY <1>40 DEF FrontNotStarted
<1>41. CASE CheckWrongType(t) BY <1>41 DEF CheckWrongType
<1> QED
  BY <1>1, <1>2, <1>3, <1>4, <1>5, <1>6, <1>7, <1>8, <1>9, <1>10, <1>11, <1>12, <1>13,
     <1>14, <1>15, <1>16, <1>17, <1>18, <1>19, <1>20, <1>21, <1>22, <1>23, <1>24, <1>25, <1>26,
     <1>27, <1>28, <1>29, <1>30, <1>31, <1>32, <1>33, <1>34, <1>35, <1>36, <1>37,
     <1>38, <1>39, <1>40, <1>41
  DEF Works, Begins, Loading, Checking, Closing

\* The types, and what a call may answer.
LEMMA StepAnswers ==
  ASSUME IInv, NEW t \in Threads, NEW g, Works(t, g)
  PROVE  TypeOK' /\ OwnVerdict'
<1> USE LibsAssumption DEF IInv, TypeOK, Placed, LibPlaced, HandlePlaced, OwnVerdict,
            Locations, Decoding, Compiling, Libs
<1>1. CASE g \in Objects /\ Construct(t, g) BY <1>1 DEF Construct
<1>2. CASE g \in Objects /\ Check(t, g) BY <1>2 DEF MayUse, Check
<1>3. CASE g \in Objects /\ Close(t, g) BY <1>3 DEF MayUse, Close
<1>4. CASE g \in Objects /\ Drop(t, g) BY <1>4 DEF Drop
<1>5. CASE NoLibrary(t) BY <1>5 DEF NoLibrary
<1>6. CASE FrontCached(t) BY <1>6 DEF FrontCached
<1>7. CASE FrontOpen(t) BY <1>7 DEF FrontOpen
<1>8. CASE FrontLoaded(t) BY <1>8 DEF FrontLoaded
<1>9. CASE FrontIsAnother(t) BY <1>9 DEF FrontIsAnother
<1>10. CASE NewFront(t)
  <2>1. TypeOK'
    BY <1>10, IssuingTypes
  <2>2. OwnVerdict'
    BY <1>10 DEF NewFront
  <2> QED BY <2>1, <2>2
<1>11. CASE NewFrontDoc(t) BY <1>11 DEF NewFrontDoc
<1>12. CASE Compile(t) BY <1>12 DEF Compile
<1>13. CASE CompileDoc(t) BY <1>13 DEF CompileDoc
<1>14. CASE CompileFree(t) BY <1>14 DEF CompileFree
<1>15. CASE CompileFailed(t) BY <1>15 DEF CompileFailed
<1>16. CASE EngineCached(t) BY <1>16 DEF EngineCached
<1>17. CASE EngineOpen(t) BY <1>17 DEF EngineOpen
<1>18. CASE EngineLoaded(t) BY <1>18 DEF EngineLoaded
<1>19. CASE EngineIsAnother(t) BY <1>19 DEF EngineIsAnother
<1>20. CASE LoadSpec(t)
  <2>1. TypeOK'
    BY <1>20, IssuingTypes
  <2>2. OwnVerdict'
    BY <1>20 DEF LoadSpec
  <2> QED BY <2>1, <2>2
<1>21. CASE SpecRefused(t) BY <1>21 DEF SpecRefused
<1>22. CASE SpecLoaded(t) BY <1>22 DEF SpecLoaded
<1>23. CASE SpecNotLoaded(t) BY <1>23 DEF SpecNotLoaded
<1>24. CASE CheckTest(t) BY <1>24 DEF CheckTest
<1>25. CASE CheckClosed(t) BY <1>25 DEF CheckClosed
<1>26. CASE CheckRead(t) BY <1>26 DEF CheckRead
<1>27. CASE CheckNone(t) BY <1>27 DEF CheckNone
<1>28. CASE CheckCall(t) BY <1>28 DEF CheckCall
<1>29. CASE CheckFreed(t) BY <1>29 DEF CheckFreed
<1>30. CASE CheckDoc(t) BY <1>30 DEF CheckDoc
<1>31. CASE CheckFailed(t) BY <1>31 DEF CheckFailed
<1>32. CASE CloseTest(t) BY <1>32 DEF CloseTest
<1>33. CASE CloseRead(t) BY <1>33 DEF CloseRead
<1>34. CASE CloseNone(t) BY <1>34 DEF CloseNone
<1>35. CASE CloseFree(t) BY <1>35 DEF CloseFree
<1>36. CASE CloseForget(t) BY <1>36 DEF CloseForget
<1>37. CASE Return(t) BY <1>37 DEF Return
<1>38. CASE SourceWrongType(t) BY <1>38 DEF SourceWrongType
<1>39. CASE FrontRefuses(t) BY <1>39 DEF FrontRefuses
<1>40. CASE FrontNotStarted(t) BY <1>40 DEF FrontNotStarted
<1>41. CASE CheckWrongType(t) BY <1>41 DEF CheckWrongType
<1> QED
  BY <1>1, <1>2, <1>3, <1>4, <1>5, <1>6, <1>7, <1>8, <1>9, <1>10, <1>11, <1>12, <1>13,
     <1>14, <1>15, <1>16, <1>17, <1>18, <1>19, <1>20, <1>21, <1>22, <1>23, <1>24, <1>25, <1>26,
     <1>27, <1>28, <1>29, <1>30, <1>31, <1>32, <1>33, <1>34, <1>35, <1>36, <1>37,
     <1>38, <1>39, <1>40, <1>41
  DEF Works, Begins, Loading, Checking, Closing

\* A library's live handles are among those it issued.
LEMMA StepNumbered ==
  ASSUME IInv, NEW t \in Threads, NEW g, Works(t, g)
  PROVE  Numbered'
<1> Numbered /\ TypeOK
  BY DEF IInv
<1>1. CASE NewFront(t) \/ LoadSpec(t)
  <2>1. /\ \A h \in 1 .. Len(issued[lib[t]]) : h \in 1 .. Len(issued'[lib[t]])
        /\ Len(issued[lib[t]]) + 1 \in 1 .. Len(issued'[lib[t]])
        /\ \A k \in Libs : k # lib[t] => issued'[k] = issued[k]
        /\ live' = [live EXCEPT ![lib[t]] = @ \cup {Len(issued[lib[t]]) + 1}]
    BY <1>1, Issuing
  <2> QED BY <2>1 DEF Numbered, TypeOK
<1>2. CASE CompileFree(t) \/ CompileFailed(t) \/ CloseFree(t)
  <2> issued' = issued /\ live' = [live EXCEPT ![lib[t]] = @ \ {handle[t]}]
    BY <1>2 DEF CompileFree, CompileFailed, CloseFree
  <2> QED BY DEF Numbered, TypeOK
<1> QED BY <1>1, <1>2, LibrariesKept DEF Numbered

\* No two threads compile on one handle: a new one is not live yet.
LEMMA StepCompilingApart ==
  ASSUME IInv, NEW t \in Threads, NEW g, Works(t, g)
  PROVE  CompilingApart'
<1> CompilingApart /\ TypeOK
  BY DEF IInv
<1>1. CASE NewFront(t)
  <2>1. ASSUME NEW u \in Threads, u # t, pc[u] \in Compiling, lib[u] = lib[t]
        PROVE  handle[u] # Len(issued[lib[t]]) + 1 
    <3>1. lib[u] \in Fronts /\ handle[u] \in live[lib[t]] /\ lib[t] \in Libs
      BY <2>1, LibsAssumption DEF IInv, Freed, LibPlaced, TypeOK, Libs
    <3> QED BY <3>1, <1>1, Issuing DEF IInv, Numbered
  <2>2. lib' = lib /\ handle' = [handle EXCEPT ![t] = Len(issued[lib[t]]) + 1]
    BY <1>1, Issuing DEF NewFront
  <2> QED BY <2>1, <2>2, Others DEF CompilingApart, TypeOK
<1>2. CASE NewFrontDoc(t) \/ Compile(t) \/ CompileDoc(t)
  <2> lib' = lib /\ handle' = handle /\ pc[t] \in Compiling
    BY <1>2 DEF NewFrontDoc, Compile, CompileDoc, Compiling
  <2>1. \A u \in Threads : pc'[u] \in Compiling => pc[u] \in Compiling
    BY Others
  <2> QED BY <2>1 DEF CompilingApart
<1>3. CASE CompileFree(t) \/ CompileFailed(t)
  <2> lib' = lib /\ handle' = handle /\ pc'[t] \notin Compiling
    BY <1>3 DEF CompileFree, CompileFailed, Compiling, TypeOK
  <2>1. \A u \in Threads : pc'[u] \in Compiling => pc[u] \in Compiling
    BY Others
  <2> QED BY <2>1 DEF CompilingApart
<1>4. CASE pc'[t] \notin Compiling
  BY <1>4, Others DEF CompilingApart
<1> QED BY <1>1, <1>2, <1>3, <1>4, CompilingKept

\* The front ends' live handles are those that calls of compile_spec hold.
LEMMA StepFreed ==
  ASSUME IInv, NEW t \in Threads, NEW g, Works(t, g)
  PROVE  Freed'
<1> USE LibsAssumption
<1> TypeOK /\ Freed /\ Numbered /\ LibPlaced(t)
  BY DEF IInv
<1>1. CASE NewFront(t)
  <2>1. /\ lib[t] \in Fronts /\ lib' = lib /\ pc[t] \notin Compiling /\ pc'[t] \in Compiling
    BY <1>1 DEF LibPlaced, NewFront, Compiling, TypeOK
  <2>2. /\ Len(issued[lib[t]]) \in Nat
        /\ live' = [live EXCEPT ![lib[t]] = @ \cup {Len(issued[lib[t]]) + 1}]
        /\ handle' = [handle EXCEPT ![t] = Len(issued[lib[t]]) + 1]
    BY <1>1, Issuing
  <2>3. SUFFICES ASSUME NEW f \in Fronts, NEW h \in Nat
        PROVE h \in live'[f] <=>
                \E u \in Threads : pc'[u] \in Compiling /\ lib'[u] = f /\ handle'[u] = h
    BY DEF Freed
  <2>4. h \in live'[f] <=> h \in live[f] \/ (f = lib[t] /\ h = Len(issued[lib[t]]) + 1)
    BY <2>1, <2>2 DEF TypeOK, Libs
  <2>5. handle'[t] = Len(issued[lib[t]]) + 1
    BY <2>2 DEF TypeOK
  <2> QED BY <2>1, <2>4, <2>5, Others DEF Freed
<1>2. CASE NewFrontDoc(t) \/ Compile(t) \/ CompileDoc(t)
  <2> lib' = lib /\ handle' = handle /\ live' = live /\ pc[t] \in Compiling /\ pc'[t] \in Compiling
    BY <1>2 DEF NewFrontDoc, Compile, CompileDoc, Compiling, TypeOK
  <2> QED BY Others DEF Freed
<1>3. CASE CompileFree(t) \/ CompileFailed(t)
  <2> /\ lib' = lib /\ handle' = handle /\ pc[t] \in Compiling /\ pc'[t] \notin Compiling
      /\ live' = [live EXCEPT ![lib[t]] = @ \ {handle[t]}]
    BY <1>3 DEF CompileFree, CompileFailed, Compiling, TypeOK
  <2>1. \A u \in Threads \ {t} : pc[u] \in Compiling /\ lib[u] = lib[t] => handle[u] # handle[t]
    BY DEF IInv, CompilingApart
  <2>2. \A f \in Fronts : live'[f] = IF f = lib[t] THEN live[f] \ {handle[t]} ELSE live[f]
    BY DEF TypeOK, Libs
  <2>3. \A u \in Threads : pc'[u] \in Compiling <=> pc[u] \in Compiling /\ u # t
    BY Others
  <2>4. ASSUME NEW f \in Fronts, NEW h \in Nat
        PROVE  h \in live'[f] <=>
                 \E u \in Threads : pc'[u] \in Compiling /\ lib'[u] = f /\ handle'[u] = h
    <3>1. h \in live'[f] <=> h \in live[f] /\ ~(f = lib[t] /\ h = handle[t])
      BY <2>2
    <3>2. h \in live[f] <=> \E u \in Threads : pc[u] \in Compiling /\ lib[u] = f /\ handle[u] = h
      BY DEF Freed
    <3> QED BY <2>1, <2>3, <3>1, <3>2
  <2> QED BY <2>4 DEF Freed
<1>4. CASE LoadSpec(t) \/ CloseFree(t)
  <2>1. lib[t] \in Engines
    BY <1>4 DEF LibPlaced, LoadSpec, CloseFree
  <2>2. \E s : live' = [live EXCEPT ![lib[t]] = s]
    BY <1>4 DEF LoadSpec, CloseFree, Issues
  <2>3. \A f \in Fronts : live'[f] = live[f]
    BY <2>1, <2>2 DEF TypeOK, Libs
  <2>4. pc[t] \notin Compiling /\ pc'[t] \notin Compiling
    BY <1>4 DEF LoadSpec, CloseFree, Compiling, TypeOK
  <2> QED BY <2>3, <2>4, Others, FreedKept
<1>5. CASE UNCHANGED <<issued, live>> /\ pc[t] \notin Compiling /\ pc'[t] \notin Compiling
  BY <1>5, Others, FreedKept
<1> QED BY <1>1, <1>2, <1>3, <1>4, <1>5, CompilingKept, LibrariesKept

LEMMA StepDocuments ==
  ASSUME IInv, NEW t \in Threads, NEW g, Works(t, g)
  PROVE  DocumentsOwned'
<1> USE DEF IInv, TypeOK, DocumentsOwned
<1>1. CASE pc[t] \notin Decoding /\ pc'[t] \notin Decoding /\ documents' = documents
  BY <1>1, Others
<1>2. CASE pc[t] \notin Decoding /\ pc'[t] \in Decoding /\ Returns(lib'[t], t)
  BY <1>2, Others
<1>3. CASE pc[t] \in Decoding /\ pc'[t] \notin Decoding /\ Releases(t)
  BY <1>3, Others
<1> QED BY <1>1, <1>2, <1>3, DocumentsStep

\* An engine's live handles are held or being delivered.
LEMMA StepHeld ==
  ASSUME IInv, NEW t \in Threads, NEW g, Works(t, g)
  PROVE  Held'
<1> USE LibsAssumption
<1>0. /\ TypeOK /\ Held /\ Numbered /\ Apart
      /\ \A u \in Threads : Placed(u) /\ LibPlaced(u) /\ HandlePlaced(u)
      /\ \A k \in Objects : ObjectPlaced(k)
  BY DEF IInv
<1>1. CASE NewFront(t)
  <2>1. /\ pc[t] # "specDoc" /\ lib[t] \in Fronts
        /\ handleOf' = handleOf /\ libOf' = libOf
    BY <1>0, <1>1, Issuing DEF LibPlaced
  <2>2. /\ live' = [live EXCEPT ![lib[t]] = @ \cup {Len(issued[lib[t]]) + 1}]
        /\ \A k \in Libs : k # lib[t] => issued'[k] = issued[k]
    BY <1>1, Issuing
  <2>3. \A e \in Engines : issued'[e] = issued[e] /\ live'[e] \subseteq live[e]
    BY <1>0, <2>1, <2>2 DEF TypeOK, Libs
  <2>4. \A k \in Objects : handleOf[k] # 0 => libOf'[k] = libOf[k]
    BY <2>1
  <2> QED BY <1>0, <2>1, <2>3, <2>4, Others, HeldKept
<1>2. CASE LoadSpec(t)
  <2>1. /\ pc[t] = "spec" /\ pc'[t] = "specDoc" /\ answer'[t].kind = "ok"
        /\ obj' = obj /\ lib' = lib /\ handleOf' = handleOf /\ libOf' = libOf
        /\ handle'[t] = Len(issued[lib[t]]) + 1
        /\ issued'[lib[t]][Len(issued[lib[t]]) + 1] = obj[t]
    BY <1>0, <1>2, Issuing DEF TypeOK
  <2> SUFFICES ASSUME NEW e \in Engines, NEW h \in live'[e]
               PROVE  Holds(issued[e][h], e, h)' \/ Delivering(issued[e][h], e, h)'
    BY DEF Held
  <2>2. h \in live[e] \/ (e = lib[t] /\ h = Len(issued[lib[t]]) + 1)
    BY <1>2, IssuesMore DEF Libs
  <2>3. CASE h \in live[e]
    <3>1. issued'[e][h] = issued[e][h]
      BY <1>0, <1>2, <2>3, IssuesMore DEF Numbered, Libs
    <3>2. CASE Holds(issued[e][h], e, h)
      BY <2>1, <3>1, <3>2 DEF Holds
    <3>3. CASE Delivering(issued[e][h], e, h)
      <4>1. PICK u \in Threads : /\ pc[u] = "specDoc" /\ answer[u].kind = "ok"
                                 /\ obj[u] = issued[e][h] /\ lib[u] = e /\ handle[u] = h
        BY <3>3 DEF Delivering
      <4>2. u # t
        BY <2>1, <4>1
      <4> QED BY <1>0, <3>1, <4>1, <4>2, Others DEF Delivering
    <3> QED BY <1>0, <2>3, <3>2, <3>3 DEF Held
  <2>4. CASE e = lib[t] /\ h = Len(issued[lib[t]]) + 1
    BY <2>1, <2>4 DEF Delivering
  <2> QED BY <2>2, <2>3, <2>4
<1>3. CASE SpecLoaded(t) \/ SpecNotLoaded(t)
  <2>1. /\ pc[t] = "specDoc" /\ lib[t] \in Engines /\ libOf[obj[t]] = lib[t]
        /\ obj[t] \in Objects /\ handleOf[obj[t]] = 0
    BY <1>0, <1>3 DEF SpecLoaded, SpecNotLoaded, LibPlaced, Placed, Making, ObjectPlaced, TypeOK
  <2>2. issued' = issued /\ live' = live /\ libOf' = libOf
    BY <1>3 DEF SpecLoaded, SpecNotLoaded
  <2>3. /\ \A k \in Objects : k # obj[t] => handleOf'[k] = handleOf[k]
        /\ answer[t].kind = "ok" => handleOf'[obj[t]] = handle[t]
    <3>1. CASE SpecLoaded(t)
      BY <1>0, <2>1, <3>1 DEF SpecLoaded, TypeOK
    <3>2. CASE SpecNotLoaded(t)
      BY <3>2 DEF SpecNotLoaded
    <3> QED BY <1>3, <3>1, <3>2
  <2> SUFFICES ASSUME NEW e \in Engines, NEW h \in live[e]
               PROVE  Holds(issued[e][h], e, h)' \/ Delivering(issued[e][h], e, h)'
    BY <2>2 DEF Held
  <2>4. h # 0 /\ issued[e][h] \in Objects
    BY <1>0 DEF TypeOK, Numbered, Libs
  <2>5. CASE Holds(issued[e][h], e, h)
    BY <2>1, <2>2, <2>3, <2>4, <2>5 DEF Holds
  <2>6. CASE Delivering(issued[e][h], e, h)
    <3>1. PICK u \in Threads : /\ pc[u] = "specDoc" /\ answer[u].kind = "ok"
                               /\ obj[u] = issued[e][h] /\ lib[u] = e /\ handle[u] = h
      BY <2>6 DEF Delivering
    <3>2. CASE u = t
      BY <2>1, <2>2, <2>3, <3>1, <3>2 DEF Holds
    <3>3. CASE u # t
      BY <1>0, <2>2, <3>1, <3>3, Others DEF Delivering
    <3> QED BY <3>2, <3>3
  <2> QED BY <1>0, <2>5, <2>6 DEF Held
<1>4. CASE CompileFree(t) \/ CompileFailed(t) \/ CloseFree(t)
  <2>1. /\ pc[t] # "specDoc" /\ live' = [live EXCEPT ![lib[t]] = @ \ {handle[t]}]
        /\ handleOf' = handleOf /\ libOf' = libOf /\ issued' = issued
    BY <1>4 DEF CompileFree, CompileFailed, CloseFree
  <2>2. \A e \in Engines : issued'[e] = issued[e] /\ live'[e] \subseteq live[e]
    BY <1>0, <2>1 DEF TypeOK, Libs
  <2> QED BY <1>0, <2>1, <2>2, Others, HeldKept
<1>5. CASE CloseForget(t)
  <2>1. /\ pc[t] = "closeForget" /\ issued' = issued /\ live' = live /\ libOf' = libOf
        /\ handleOf' = [handleOf EXCEPT ![obj[t]] = 0]
    BY <1>5 DEF CloseForget
  <2>2. \A e \in Engines : \A h \in live[e] : issued[e][h] # obj[t]
    BY <1>0, <2>1 DEF HandlePlaced
  <2> SUFFICES ASSUME NEW e \in Engines, NEW h \in live[e]
               PROVE  Holds(issued[e][h], e, h)' \/ Delivering(issued[e][h], e, h)'
    BY <2>1 DEF Held
  <2>3. issued[e][h] \in Objects /\ issued[e][h] # obj[t]
    BY <1>0, <2>2 DEF TypeOK, Numbered, Libs
  <2>4. CASE Holds(issued[e][h], e, h)
    BY <1>0, <2>1, <2>3, <2>4 DEF Holds, TypeOK
  <2>5. CASE Delivering(issued[e][h], e, h)
    BY <1>0, <2>1, <2>5, Others DEF Delivering
  <2> QED BY <1>0, <2>4, <2>5 DEF Held
<1>6. CASE EngineCached(t) \/ EngineLoaded(t)
  <2>1. /\ pc[t] # "specDoc" /\ issued' = issued /\ live' = live /\ handleOf' = handleOf
        /\ \E l : libOf' = [libOf EXCEPT ![obj[t]] = l]
    BY <1>6 DEF EngineCached, EngineLoaded
  <2>2. obj[t] \in Objects /\ handleOf[obj[t]] = 0
    BY <1>0, <1>6 DEF EngineCached, EngineLoaded, Placed, Making, ObjectPlaced, TypeOK
  <2>3. \A k \in Objects : handleOf[k] # 0 => libOf'[k] = libOf[k]
    BY <1>0, <2>1, <2>2 DEF TypeOK
  <2> QED BY <1>0, <2>1, <2>3, Others, HeldKept
<1>7. CASE /\ UNCHANGED <<issued, live>> /\ handleOf' = handleOf /\ libOf' = libOf
           /\ pc[t] # "specDoc"
  BY <1>0, <1>7, Others, HeldKept
<1> QED BY <1>1, <1>2, <1>3, <1>4, <1>5, <1>6, <1>7, LibrariesKept, ObjectsKept

-----------------------------------------------------------------------------
LEMMA InitInv == Init => IInv
<1> SUFFICES ASSUME Init PROVE IInv
  OBVIOUS
<1> USE LibsAssumption DEF Init
<1>1. TypeOK
  <2>1. << >> \in Seq(Objects)
    OBVIOUS
  <2> QED BY <2>1 DEF TypeOK, Locations, Libs
<1>2. /\ \A t \in Threads : Placed(t) /\ LibPlaced(t) /\ HandlePlaced(t) /\ Undisturbed(t)
      /\ \A t \in Threads : Emptied(t)
      /\ Apart /\ CompilingApart /\ OwnVerdict /\ ClosedNamed
  BY DEF Placed, Making, LibPlaced, HandlePlaced, Emptied, Undisturbed, Apart, CompilingApart, Compiling,
         OwnVerdict, ClosedNamed
<1>3. /\ \A g \in Objects : ObjectPlaced(g)
      /\ GoneEmpty /\ OpenIsLive
  BY DEF ObjectPlaced, GoneEmpty, OpenIsLive
<1>4. DocumentsOwned /\ Freed /\ Held /\ Numbered
  BY DEF DocumentsOwned, Decoding, Freed, Held, Numbered, Compiling, Libs
<1> QED BY <1>1, <1>2, <1>3, <1>4 DEF IInv

LEMMA StepInv == IInv /\ [Next]_vars => IInv'
<1> SUFFICES ASSUME IInv, [Next]_vars PROVE IInv'
  OBVIOUS
<1>1. ASSUME NEW t \in Threads, NEW g, Works(t, g) PROVE IInv'
  BY <1>1, StepPlaced, StepObjects, StepHandles, StepAnswers, StepClosed, StepNumbered, StepCompilingApart,
     StepFreed, StepDocuments, StepHeld DEF IInv
<1>2. CASE UNCHANGED vars
  BY <1>2 DEF vars, IInv, TypeOK, Placed, Apart, Alone, LibPlaced, ObjectPlaced, Numbered,
     HandlePlaced, Emptied, Undisturbed, CompilingApart, DocumentsOwned, Freed, Held, Holds, Delivering,
     GoneEmpty, OpenIsLive, OwnVerdict, ClosedNamed
<1>3. ASSUME NEW t \in Threads, Loading(t) \/ Checking(t) \/ Closing(t) \/ Return(t)
      PROVE  Works(t, None)
  BY <1>3 DEF Works
<1>4. ASSUME NEW t \in Threads, NEW g \in Objects,
             Construct(t, g) \/ Check(t, g) \/ Close(t, g) \/ Drop(t, g)
      PROVE  Works(t, g)
  BY <1>4 DEF Works, Begins
<1> QED BY <1>1, <1>2, <1>3, <1>4 DEF Next, NoneLeft

LEMMA Invariance == Spec => []IInv
BY InitInv, StepInv, PTL DEF Spec

-----------------------------------------------------------------------------
(* What follows, for any number of threads, grammars and libraries.        *)

\* A host's threads never take py/gbnf.py out of its types: a library that is
\* not an engine is never a Grammar's _lib.
THEOREM PyTypes == Spec => []TypeOK
<1>1. IInv => TypeOK
  BY DEF IInv
<1> QED BY <1>1, Invariance, PTL

\* _call releases every document with the library that returned it.
THEOREM DocumentsReleased == Spec => []DocumentsOwned
<1>1. IInv => DocumentsOwned
  BY DEF IInv
<1> QED BY <1>1, Invariance, PTL

\* compile_spec frees the front end's handle on every way out.
THEOREM FrontHandles == Spec => []FrontHandlesFreed
<1>1. IInv => FrontHandlesFreed
  <2> SUFFICES ASSUME IInv, NEW f \in Fronts
               PROVE  live[f] =
                        {handle[t] : t \in {u \in Threads : pc[u] \in Compiling /\ lib[u] = f}}
    BY DEF FrontHandlesFreed
  <2>1. live[f] \subseteq Nat /\ \A u \in Threads : handle[u] \in Nat
    BY DEF IInv, TypeOK, Libs
  <2>2. \A h \in Nat :
          h \in live[f] <=> \E u \in Threads : pc[u] \in Compiling /\ lib[u] = f /\ handle[u] = h
    BY DEF IInv, Freed
  <2> QED BY <2>1, <2>2
<1> QED BY <1>1, Invariance, PTL

\* No engine keeps a handle that no Grammar has, and a Grammar that is gone
\* has none.
THEOREM EngineHandles == Spec => []EngineHandlesHeld
<1>1. IInv => EngineHandlesHeld
  BY DEF IInv, Held, GoneEmpty, EngineHandlesHeld
<1> QED BY <1>1, Invariance, PTL

\* A Grammar's handle stays good until a close of that Grammar.
THEOREM OpenStaysLive == Spec => []OpenIsLive
<1>1. IInv => OpenIsLive
  BY DEF IInv
<1> QED BY <1>1, Invariance, PTL

\* No check answers with another grammar's verdict, whatever is closed and
\* loaded meanwhile.
THEOREM VerdictsOwn == Spec => []OwnVerdict
<1>1. IInv => OwnVerdict
  BY DEF IInv
<1> QED BY <1>1, Invariance, PTL

\* A closed Grammar is a GbnfError: ctypes' ArgumentError leaves check or close
\* only when another thread has closed a shared Grammar in the middle of it.
THEOREM ClosedIsNamed == Spec => []ClosedNamed
<1>1. IInv => ClosedNamed
  BY DEF IInv
<1> QED BY <1>1, Invariance, PTL
=============================================================================
