----------------------------- MODULE ClibProofs -----------------------------
(***************************************************************************)
(* Proofs about the C library, for any number of threads, handles and      *)
(* sources: the types, mutual exclusion in each engine, and that the       *)
(* library implements the atomic handle table.                             *)
(***************************************************************************)
EXTENDS Clib, FiniteSetTheorems, TLAPS

-----------------------------------------------------------------------------
(* The inductive invariant.                                                *)

\* Who is where: the writers of the registry, and what each call is for.
Placed(t) ==
  /\ t \in writers <=> pc[t] \in {"count", "insert", "delete"}
  /\ pc[t] \in {"count", "insert"} => Wants(t, "grammar")
  /\ pc[t] \in {"lookup", "found", "locked", "parsing", "parsed"} => Wants(t, "parse")
  /\ pc[t] = "delete" => Wants(t, "free")
  /\ pc[t] \in {"found", "locked", "parsing", "parsed"} => inst[t] \in Handles

\* The registry has one writer, an instance one holder, and a thread inside
\* an instance holds it.
OneWriter == \A t, u \in writers : t = u
OneHolder == \A h \in Handles : \A t, u \in holders[h] : t = u
Holding(t) == \A h \in Handles : t \in holders[h] <=> Inside(t) /\ inst[t] = h

\* The engine a thread is in works on the thread's own source.
Working(t) ==
  /\ pc[t] = "parsing" => scratch[inst[t]] = request[t].src
  /\ pc[t] = "parsed" => reply[t] = Is(Verdict(request[t].src))

\* Every handle loaded has been counted, the one being inserted among them.
Numbered ==
  /\ loaded \subseteq 1 .. nextID
  /\ \A t \in Threads : pc[t] = "insert" => nextID > 0 /\ nextID \notin loaded

\* The bound leaves a number for every thread about to count one.
Bounded == nextID + Cardinality(Counting) <= MaxHandles

Inv ==
  /\ TypeOK
  /\ \A t \in Threads : Placed(t)
  /\ OneWriter
  /\ OneHolder
  /\ \A t \in Threads : Holding(t)
  /\ \A t \in Threads : Working(t)
  /\ Numbered
  /\ Bounded

-----------------------------------------------------------------------------
(* Calls and replies.                                                      *)

LEMMA RequestTypes ==
  ASSUME NEW r \in Requests, ~Malformed(r)
  PROVE  /\ r.op = "parse" => r.handle \in Handles \cup {0} /\ r.src \in Sources
         /\ r.op = "free" => r.handle \in Handles \cup {0}
BY DEF Requests, Malformed

LEMMA VerdictType == ASSUME NEW src \in Sources PROVE Verdict(src) \in Verdicts
BY AnswerAssumption DEF Verdict, Verdicts, Engine

LEMMA ReplyTypes ==
  /\ \A kind \in {"none", "usage", "unknown", "freed"} \cup Verdicts : Is(kind) \in Replies
  /\ \A h \in Handles : Issued(h) \in Replies
BY DEF Is, Issued, Replies

-----------------------------------------------------------------------------
LEMMA InitInv == Init => Inv
<1> SUFFICES ASSUME Init PROVE Inv
  OBVIOUS
<1>1. NoRequest \in Requests
  BY DEF NoRequest, Requests
<1>2. TypeOK
  BY <1>1, HandlesAssumption, SourcesAssumption, ReplyTypes
     DEF Init, TypeOK, Locations
<1>3. Counting = {}
  BY DEF Init, Counting
<1>4. Bounded
  BY <1>3, FS_EmptySet, HandlesAssumption DEF Init, Bounded
<1> QED
  BY <1>2, <1>4
     DEF Init, Inv, Placed, OneWriter, OneHolder, Holding, Inside, Working, Numbered

\* The part of the invariant that is about the threads and their locks.
LEMMA StepPlaced ==
  ASSUME Inv, NEW t \in Threads, Call(t) \/ Locking(t) \/ Running(t)
  PROVE  (\A u \in Threads : Placed(u))' /\ OneWriter'
<1> USE DEF Inv, TypeOK, Placed, OneWriter, Wants, Move, NoRequest
<1>1. CASE Call(t)
  BY <1>1 DEF Call
<1>2. CASE Refuse(t) \/ Return(t)
  BY <1>2 DEF Refuse, Return
<1>3. CASE LockToLoad(t) \/ LockToFree(t)
  BY <1>3 DEF LockToLoad, LockToFree, WriteLock
<1>4. CASE Count(t) \/ Insert(t) \/ Delete(t)
  BY <1>4 DEF Count, Insert, Delete
<1>5. CASE LockToLookup(t)
  BY <1>5 DEF LockToLookup, ReadLock
<1>6. CASE Lookup(t)
  BY <1>6 DEF Lookup
<1>7. CASE LockInstance(t) \/ ParseStart(t) \/ ParseEnd(t) \/ UnlockInstance(t)
  BY <1>7 DEF LockInstance, ParseStart, ParseEnd, UnlockInstance
<1> QED BY <1>1, <1>2, <1>3, <1>4, <1>5, <1>6, <1>7 DEF Locking, Running

\* The part about the instances: their mutexes and what they work on.
LEMMA StepHolding ==
  ASSUME Inv, NEW t \in Threads, Call(t) \/ Locking(t) \/ Running(t)
  PROVE  OneHolder' /\ (\A u \in Threads : Holding(u))'
<1> USE DEF Inv, TypeOK, Placed, OneHolder, Holding, Inside, Move
<1>1. CASE Call(t) \/ Refuse(t) \/ Return(t)
  BY <1>1 DEF Call, Refuse, Return
<1>2. CASE LockToLoad(t) \/ LockToFree(t) \/ LockToLookup(t)
  BY <1>2 DEF LockToLoad, LockToFree, LockToLookup
<1>3. CASE Count(t) \/ Insert(t) \/ Delete(t)
  BY <1>3 DEF Count, Insert, Delete
<1>4. CASE Lookup(t)
  BY <1>4 DEF Lookup
<1>5. CASE LockInstance(t)
  BY <1>5 DEF LockInstance
<1>6. CASE ParseStart(t) \/ ParseEnd(t)
  BY <1>6 DEF ParseStart, ParseEnd
<1>7. CASE UnlockInstance(t)
  BY <1>7 DEF UnlockInstance
<1> QED BY <1>1, <1>2, <1>3, <1>4, <1>5, <1>6, <1>7 DEF Locking, Running

LEMMA StepWorking ==
  ASSUME Inv, NEW t \in Threads, Call(t) \/ Locking(t) \/ Running(t)
  PROVE  (\A u \in Threads : Working(u))'
<1> USE DEF Inv, TypeOK, Working, Move, Answers
<1>1. CASE Call(t) \/ Refuse(t) \/ Return(t)
  BY <1>1 DEF Call, Refuse, Return
<1>2. CASE LockToLoad(t) \/ LockToFree(t) \/ LockToLookup(t) \/ LockInstance(t)
  BY <1>2 DEF LockToLoad, LockToFree, LockToLookup, LockInstance
<1>3. CASE Count(t) \/ Insert(t) \/ Delete(t)
  BY <1>3 DEF Count, Insert, Delete
<1>4. CASE Lookup(t)
  BY <1>4 DEF Lookup
\* Whoever else is parsing is parsing in another instance.
<1>5. CASE ParseStart(t)
  <2>1. inst[t] \in Handles /\ t \in holders[inst[t]]
    BY <1>5 DEF ParseStart, Placed, Holding, Inside
  <2>2. ASSUME NEW u \in Threads, u # t, pc[u] = "parsing" PROVE inst[u] # inst[t]
    BY <2>1, <2>2 DEF OneHolder, Holding, Inside
  <2> QED BY <1>5, <2>1, <2>2 DEF ParseStart
<1>6. CASE ParseEnd(t)
  BY <1>6 DEF ParseEnd
<1>7. CASE UnlockInstance(t)
  BY <1>7 DEF UnlockInstance
<1> QED BY <1>1, <1>2, <1>3, <1>4, <1>5, <1>6, <1>7 DEF Locking, Running

\* The part about the handles.
LEMMA StepNumbered ==
  ASSUME Inv, NEW t \in Threads, Call(t) \/ Locking(t) \/ Running(t)
  PROVE  Numbered'
<1> USE DEF Inv, TypeOK, Numbered, Move
<1>1. CASE Call(t) \/ Refuse(t) \/ Return(t) \/ Locking(t)
  BY <1>1 DEF Call, Refuse, Return, Locking, LockToLoad, LockToFree, LockToLookup, LockInstance
<1>2. CASE Count(t)
  BY <1>2 DEF Count
<1>3. CASE Insert(t)
  <2>1. \A u \in Threads : pc[u] = "insert" => u = t
    BY <1>3 DEF Insert, Placed, OneWriter
  <2> QED BY <1>3, <2>1 DEF Insert
<1>4. CASE Lookup(t)
  BY <1>4 DEF Lookup
<1>5. CASE ParseStart(t) \/ ParseEnd(t) \/ UnlockInstance(t)
  BY <1>5 DEF ParseStart, ParseEnd, UnlockInstance
<1>6. CASE Delete(t)
  BY <1>6 DEF Delete
<1> QED BY <1>1, <1>2, <1>3, <1>4, <1>5, <1>6 DEF Locking, Running

LEMMA StepBounded ==
  ASSUME Inv, NEW t \in Threads, Call(t) \/ Locking(t) \/ Running(t)
  PROVE  Bounded'
<1> USE DEF Inv, TypeOK, Move, Wants, Malformed
<1>1. IsFiniteSet(Counting) /\ Cardinality(Counting) \in Nat
  BY ThreadsAssumption, FS_Subset, FS_CardinalityType DEF Counting
<1>2. CASE Call(t)
  <2>1. PICK r \in Requests : MayAsk(r) /\ request' = [request EXCEPT ![t] = r]
    BY <1>2 DEF Call
  <2>2. CASE r.op = "grammar" /\ r.ok
    <3>1. Counting' = Counting \cup {t} /\ t \notin Counting
      BY <1>2, <2>1, <2>2 DEF Call, Counting
    <3>2. Cardinality(Counting') = Cardinality(Counting) + 1
      BY <1>1, <3>1, FS_AddElement
    <3> QED BY <1>1, <1>2, <2>1, <2>2, <3>2, HandlesAssumption DEF Call, Bounded, MayAsk
  <2>3. CASE ~(r.op = "grammar" /\ r.ok)
    <3>1. Counting' = Counting
      BY <1>2, <2>1, <2>3 DEF Call, Counting
    <3> QED BY <1>2, <3>1 DEF Call, Bounded
  <2> QED BY <2>2, <2>3
<1>3. CASE Count(t)
  <2>1. Counting' = Counting \ {t} /\ t \in Counting
    BY <1>3 DEF Count, Counting, Placed
  <2>2. Cardinality(Counting') = Cardinality(Counting) - 1
    BY <1>1, <2>1, FS_RemoveElement
  <2> QED BY <1>1, <1>3, <2>2, HandlesAssumption DEF Count, Bounded
<1>4. CASE Locking(t) \/ (Running(t) /\ ~Count(t))
  <2>1. Counting' = Counting
    <3>1. CASE LockToLoad(t) \/ LockToFree(t) \/ LockToLookup(t) \/ LockInstance(t)
      BY <3>1 DEF LockToLoad, LockToFree, LockToLookup, LockInstance, Counting
    <3>2. CASE Refuse(t) \/ Return(t)
      BY <3>2 DEF Refuse, Return, Counting
    <3>3. CASE Insert(t) \/ Delete(t)
      BY <3>3 DEF Insert, Delete, Counting
    <3>4. CASE Lookup(t)
      BY <3>4 DEF Lookup, Counting
    <3>5. CASE ParseStart(t) \/ ParseEnd(t) \/ UnlockInstance(t)
      BY <3>5 DEF ParseStart, ParseEnd, UnlockInstance, Counting
    <3> QED BY <1>4, <3>1, <3>2, <3>3, <3>4, <3>5 DEF Locking, Running
  <2>2. UNCHANGED nextID
    BY <1>4 DEF Locking, Running, LockToLoad, LockToFree, LockToLookup, LockInstance, Refuse,
                Return, Insert, Delete, Lookup, ParseStart, ParseEnd, UnlockInstance
  <2> QED BY <2>1, <2>2 DEF Bounded
<1> QED BY <1>2, <1>3, <1>4 DEF Running

LEMMA StepType ==
  ASSUME Inv, NEW t \in Threads, Call(t) \/ Locking(t) \/ Running(t)
  PROVE  TypeOK'
<1> USE DEF Inv, TypeOK, Move, Answers, Locations
<1>1. CASE Call(t)
  BY <1>1 DEF Call
<1>2. CASE Refuse(t)
  BY <1>2, ReplyTypes DEF Refuse
<1>3. CASE Return(t)
  <2>1. NoRequest \in Requests
    BY DEF NoRequest, Requests
  <2> QED BY <1>3, <2>1, ReplyTypes DEF Return
<1>4. CASE LockToLoad(t) \/ LockToFree(t)
  BY <1>4 DEF LockToLoad, LockToFree, WriteLock
<1>5. CASE LockToLookup(t)
  BY <1>5 DEF LockToLookup, ReadLock
<1>6. CASE Count(t)
  <2>1. t \in Counting /\ IsFiniteSet(Counting)
    BY <1>6, ThreadsAssumption, FS_Subset DEF Count, Counting, Placed
  <2>2. Cardinality(Counting) \in Nat /\ Cardinality(Counting) # 0
    BY <2>1, FS_CardinalityType, FS_EmptySet
  <2>3. nextID + 1 <= MaxHandles
    BY <2>2, HandlesAssumption DEF Bounded
  <2> QED BY <1>6, <2>3, HandlesAssumption DEF Count
<1>7. CASE Insert(t)
  <2>1. nextID \in Handles
    BY <1>7, HandlesAssumption DEF Insert, Numbered, Handles
  <2> QED BY <1>7, <2>1, ReplyTypes DEF Insert
<1>8. CASE Lookup(t)
  BY <1>8, ReplyTypes DEF Lookup
<1>9. CASE LockInstance(t)
  BY <1>9 DEF LockInstance
<1>10. CASE ParseStart(t)
  <2>1. request[t].src \in Sources
    BY <1>10, RequestTypes DEF ParseStart, Placed, Wants
  <2> QED BY <1>10, <2>1 DEF ParseStart
<1>11. CASE ParseEnd(t)
  <2>1. Is(Verdict(scratch[inst[t]])) \in Replies
    BY <1>11, VerdictType, ReplyTypes DEF ParseEnd, Placed
  <2> QED BY <1>11, <2>1 DEF ParseEnd
<1>12. CASE UnlockInstance(t)
  BY <1>12 DEF UnlockInstance
<1>13. CASE Delete(t)
  BY <1>13, ReplyTypes DEF Delete
<1> QED BY <1>1, <1>2, <1>3, <1>4, <1>5, <1>6, <1>7, <1>8, <1>9, <1>10, <1>11, <1>12, <1>13
        DEF Locking, Running

LEMMA StepInv == Inv /\ [Next]_vars => Inv'
<1> SUFFICES ASSUME Inv, [Next]_vars PROVE Inv'
  OBVIOUS
<1>1. ASSUME NEW t \in Threads, Call(t) \/ Locking(t) \/ Running(t) PROVE Inv'
  BY <1>1, StepPlaced, StepHolding, StepWorking, StepNumbered, StepBounded, StepType DEF Inv
<1>2. CASE UNCHANGED vars
  BY <1>2 DEF vars, Inv, TypeOK, Placed, OneWriter, OneHolder, Holding, Inside, Working,
              Numbered, Bounded, Counting, Wants, Is
<1> QED BY <1>1, <1>2 DEF Next

-----------------------------------------------------------------------------
(* The refinement of HandleTable.                                          *)

AbstractCall == [t \in Threads |-> CallOf(t)]

\* A thread's step leaves what the table sees of the other threads alone.
LEMMA OthersKeep ==
  ASSUME TypeOK, NEW t \in Threads, NEW c, CallOf(t)' = c,
         \A u \in Threads \ {t} : /\ pc'[u] = pc[u]
                                 /\ request'[u] = request[u]
                                 /\ reply'[u] = reply[u]
  PROVE  AbstractCall' = [AbstractCall EXCEPT ![t] = c]
<1>1. ASSUME NEW u \in Threads, u # t PROVE CallOf(u)' = CallOf(u)
  BY <1>1 DEF CallOf, Verdict
<1> QED BY <1>1 DEF AbstractCall

\* The handles used change only when one is inserted.
LEMMA UsedKeep ==
  ASSUME UNCHANGED nextID,
         \A u \in Threads : pc'[u] = "insert" <=> pc[u] = "insert"
  PROVE  UNCHANGED UsedHandles
BY DEF UsedHandles

LEMMA InitTable == Init => Table!TableInit
<1> SUFFICES ASSUME Init PROVE Table!TableInit
  OBVIOUS
<1>1. UsedHandles = {}
  BY DEF Init, UsedHandles
<1>2. \A t \in Threads : CallOf(t) = Table!Idle
  BY DEF Init, CallOf, Table!Idle
<1> QED BY <1>1, <1>2 DEF Table!TableInit, Init

\* Each step of a thread takes effect in the table, or does not show there.
LEMMA StepTable ==
  ASSUME Inv, NEW t \in Threads, Call(t) \/ Locking(t) \/ Running(t)
  PROVE  Table!TableNext \/ UNCHANGED <<UsedHandles, loaded, AbstractCall>>
<1> USE DEF Inv, TypeOK, Move, Answers
<1>r. request[t] \in Table!Requests
  BY DEF Table!Requests, Requests, Table!Handles, Handles
<1>1. CASE Call(t)
  <2>1. PICK r \in Requests : request' = [request EXCEPT ![t] = r]
    BY <1>1 DEF Call
  <2>2. CallOf(t) = Table!Idle /\ CallOf(t)' = Table!Pending(r)
    BY <1>1, <2>1 DEF Call, CallOf, Table!Idle, Table!Pending
  <2>3. AbstractCall' = [AbstractCall EXCEPT ![t] = Table!Pending(r)]
    BY <1>1, <2>1, <2>2, OthersKeep DEF Call
  <2>4. UNCHANGED UsedHandles
    BY <1>1, UsedKeep DEF Call
  <2>5. Table!Call(t, r)
    BY <1>1, <2>2, <2>3, <2>4 DEF Call, Table!Call, AbstractCall
  <2> QED BY <2>1, <2>5 DEF Table!TableNext, Table!Requests, Requests, Table!Handles, Handles
<1>2. CASE Refuse(t)
  <2>1. CallOf(t) = Table!Pending(request[t]) /\ CallOf(t)' = Table!Done(Is("usage"))
    BY <1>2 DEF Refuse, CallOf, Table!Pending, Table!Done
  <2>2. AbstractCall' = [AbstractCall EXCEPT ![t] = Table!Done(Is("usage"))]
    BY <1>2, <2>1, OthersKeep DEF Refuse
  <2>3. UNCHANGED UsedHandles
    BY <1>2, UsedKeep DEF Refuse
  <2>4. Table!Refused(t, request[t])
    BY <1>2, <2>1, <2>2, <2>3
       DEF Refuse, Table!Refused, Table!Reply, Table!Is, Is, Table!Malformed, Malformed,
           AbstractCall
  <2> QED BY <1>r, <2>4 DEF Table!TableNext
\* Taking a lock, and a parse under way, show nothing.
<1>3. CASE Locking(t) \/ ParseStart(t) \/ UnlockInstance(t)
  <2>1. CallOf(t)' = CallOf(t)
    <3>1. CASE LockToLoad(t) \/ LockToFree(t) \/ LockToLookup(t)
      BY <3>1 DEF LockToLoad, LockToFree, LockToLookup, CallOf
    <3>2. CASE LockInstance(t) \/ ParseStart(t)
      BY <3>2 DEF LockInstance, ParseStart, CallOf, Verdict
    <3>3. CASE UnlockInstance(t)
      BY <3>3 DEF UnlockInstance, CallOf, Working
    <3> QED BY <1>3, <3>1, <3>2, <3>3 DEF Locking
  <2>2. UNCHANGED nextID /\ UNCHANGED loaded
    BY <1>3 DEF Locking, LockToLoad, LockToFree, LockToLookup, LockInstance, ParseStart,
                UnlockInstance
  <2>3. \A u \in Threads : pc'[u] = "insert" <=> pc[u] = "insert"
    BY <1>3 DEF Locking, LockToLoad, LockToFree, LockToLookup, LockInstance, ParseStart,
                UnlockInstance
  <2>4. \A u \in Threads \ {t} : /\ pc'[u] = pc[u]
                                /\ request'[u] = request[u]
                                /\ reply'[u] = reply[u]
    BY <1>3 DEF Locking, LockToLoad, LockToFree, LockToLookup, LockInstance, ParseStart,
                UnlockInstance
  <2>5. AbstractCall' = [AbstractCall EXCEPT ![t] = CallOf(t)]
    BY <2>1, <2>4, OthersKeep
  <2>6. UNCHANGED AbstractCall
    BY <2>5 DEF AbstractCall
  <2>7. UNCHANGED UsedHandles
    BY <2>2, <2>3, UsedKeep
  <2> QED BY <2>2, <2>6, <2>7
<1>4. CASE Count(t)
  <2>1. CallOf(t)' = CallOf(t)
    BY <1>4 DEF Count, CallOf
  <2>2. AbstractCall' = [AbstractCall EXCEPT ![t] = CallOf(t)]
    BY <1>4, <2>1, OthersKeep DEF Count
  <2>3. \A u \in Threads : pc[u] # "insert"
    BY <1>4 DEF Count, Placed, OneWriter
  <2>4. UsedHandles = 1 .. nextID /\ UsedHandles' = 1 .. nextID
    BY <1>4, <2>3 DEF Count, UsedHandles
  <2> QED BY <1>4, <2>2, <2>4 DEF Count, AbstractCall
<1>5. CASE Insert(t)
  <2>1. CallOf(t) = Table!Pending(request[t]) /\ CallOf(t)' = Table!Done(Issued(nextID))
    BY <1>5 DEF Insert, CallOf, Table!Pending, Table!Done
  <2>2. AbstractCall' = [AbstractCall EXCEPT ![t] = Table!Done(Issued(nextID))]
    BY <1>5, <2>1, OthersKeep DEF Insert
  <2>3. \A u \in Threads : pc'[u] # "insert"
    BY <1>5 DEF Insert, Placed, OneWriter
  <2>4. nextID \in Table!Handles /\ nextID > 0
    BY <1>5, HandlesAssumption DEF Insert, Numbered, Table!Handles
  <2>5. /\ UsedHandles = 1 .. nextID - 1
        /\ UsedHandles' = UsedHandles \cup {nextID}
        /\ nextID \notin UsedHandles
    BY <1>5, <2>3, <2>4 DEF Insert, UsedHandles
  <2>6. request[t].op = "grammar" /\ ~Table!Malformed(request[t])
    BY <1>5 DEF Insert, Placed, Wants, Malformed, Table!Malformed
  <2>7. Table!Load(t, request[t], nextID)
    BY <1>5, <2>1, <2>2, <2>5, <2>6
       DEF Insert, Table!Load, Table!Reply, Table!Issued, Issued, AbstractCall
  <2> QED BY <1>r, <2>4, <2>7 DEF Table!TableNext
\* A parse takes effect when it has read the registry.
<1>6. CASE Lookup(t)
  <2> DEFINE h == request[t].handle
             answer == Is(IF h \in loaded THEN Verdict(request[t].src) ELSE "unknown")
  <2>1. CallOf(t) = Table!Pending(request[t]) /\ CallOf(t)' = Table!Done(answer)
    <3>1. CASE h \in loaded
      BY <1>6, <3>1 DEF Lookup, CallOf, Table!Pending, Table!Done, Verdict, Is
    <3>2. CASE h \notin loaded
      BY <1>6, <3>2 DEF Lookup, CallOf, Table!Pending, Table!Done
    <3> QED BY <3>1, <3>2
  <2>2. AbstractCall' = [AbstractCall EXCEPT ![t] = Table!Done(answer)]
    <3> HIDE DEF answer
    <3>1. \A u \in Threads \ {t} : /\ pc'[u] = pc[u]
                                 /\ request'[u] = request[u]
                                 /\ reply'[u] = reply[u]
      BY <1>6 DEF Lookup
    <3> QED BY <2>1, <3>1, OthersKeep
  <2>3. \A u \in Threads : pc'[u] = "insert" <=> pc[u] = "insert"
    BY <1>6 DEF Lookup
  <2>4. UNCHANGED <<UsedHandles, loaded>>
    BY <1>6, <2>3, UsedKeep DEF Lookup
  <2>5. request[t].op = "parse" /\ ~Table!Malformed(request[t])
    BY <1>6 DEF Lookup, Placed, Wants, Malformed, Table!Malformed
  <2>6. Table!Reply(t, request[t], answer)
    BY <2>1, <2>2 DEF Table!Reply, AbstractCall
  <2>7. answer = Table!Is(IF h \in loaded THEN Table!Verdict(request[t].src) ELSE "unknown")
    BY DEF Is, Table!Is, Verdict, Table!Verdict
  <2>8. Table!Parse(t, request[t])
    <3> HIDE DEF answer
    <3> QED BY <2>4, <2>5, <2>6, <2>7 DEF Table!Parse
  <2> QED BY <1>r, <2>8 DEF Table!TableNext
\* The engine worked on this thread's source.
<1>7. CASE ParseEnd(t)
  <2>1. scratch[inst[t]] = request[t].src
    BY <1>7 DEF ParseEnd, Working
  <2>2. CallOf(t)' = CallOf(t)
    BY <1>7, <2>1 DEF ParseEnd, CallOf, Verdict
  <2>3. AbstractCall' = [AbstractCall EXCEPT ![t] = CallOf(t)]
    BY <1>7, <2>2, OthersKeep DEF ParseEnd
  <2>4. UNCHANGED <<UsedHandles, loaded>>
    BY <1>7, UsedKeep DEF ParseEnd
  <2> QED BY <2>3, <2>4 DEF AbstractCall
<1>8. CASE Delete(t)
  <2>1. CallOf(t) = Table!Pending(request[t]) /\ CallOf(t)' = Table!Done(Is("freed"))
    BY <1>8 DEF Delete, CallOf, Table!Pending, Table!Done
  <2>2. AbstractCall' = [AbstractCall EXCEPT ![t] = Table!Done(Is("freed"))]
    BY <1>8, <2>1, OthersKeep DEF Delete
  <2>3. UNCHANGED UsedHandles
    BY <1>8, UsedKeep DEF Delete
  <2>4. Table!Free(t, request[t])
    BY <1>8, <2>1, <2>2, <2>3
       DEF Delete, Placed, Wants, Table!Free, Table!Reply, Table!Is, Is, AbstractCall
  <2> QED BY <1>r, <2>4 DEF Table!TableNext
<1>9. CASE Return(t)
  <2>1. CallOf(t).phase = "done" /\ CallOf(t)' = Table!Idle
    BY <1>9 DEF Return, CallOf, Table!Idle
  <2>2. AbstractCall' = [AbstractCall EXCEPT ![t] = Table!Idle]
    BY <1>9, <2>1, OthersKeep DEF Return
  <2>3. UNCHANGED UsedHandles
    BY <1>9, UsedKeep DEF Return
  <2>4. Table!Return(t)
    BY <1>9, <2>1, <2>2, <2>3 DEF Return, Table!Return, AbstractCall
  <2> QED BY <2>4 DEF Table!TableNext
<1> QED BY <1>1, <1>2, <1>3, <1>4, <1>5, <1>6, <1>7, <1>8, <1>9 DEF Running

-----------------------------------------------------------------------------
(* Theorems.                                                               *)

\* The variables have their types in every reachable state; in particular a
\* parse never goes on with an instance the registry did not hold.
THEOREM ClibTypes == Spec => []TypeOK
<1>1. Inv => TypeOK
  BY DEF Inv
<1> QED BY InitInv, StepInv, <1>1, PTL DEF Spec

\* However many threads parse under however many handles, no two are inside
\* the engine of one instance.
THEOREM Exclusive == Spec => []OneParsePerEngine
<1>1. ASSUME Inv PROVE OneParsePerEngine
  <2> SUFFICES ASSUME NEW t \in Threads, NEW u \in Threads,
                      Inside(t), Inside(u), inst[t] = inst[u]
               PROVE  t = u
    BY DEF OneParsePerEngine
  <2>1. inst[t] \in Handles
    BY <1>1 DEF Inv, Placed, Inside
  <2> QED BY <1>1, <2>1 DEF Inv, Holding, OneHolder
<1> QED BY InitInv, StepInv, <1>1, PTL DEF Spec

\* The library implements the atomic table of handles: every call from any
\* thread looks as if it had taken effect at one instant (parseWith,
\* loadGrammar and freeGrammar under their locks).
THEOREM Implements == Spec => Linearizable
<1>1. Inv /\ [Next]_vars => [Table!TableNext]_<<UsedHandles, loaded, AbstractCall>>
  <2> SUFFICES ASSUME Inv, [Next]_vars
               PROVE  Table!TableNext \/ UNCHANGED <<UsedHandles, loaded, AbstractCall>>
    OBVIOUS
  <2>1. CASE UNCHANGED vars
    BY <2>1 DEF vars, UsedHandles, AbstractCall, CallOf, Verdict
  <2> QED BY <2>1, StepTable DEF Next
<1>2. [Table!TableNext]_<<UsedHandles, loaded, AbstractCall>> => [Table!TableNext]_(Table!table)
  BY DEF AbstractCall, Table!table
<1> QED BY InitInv, StepInv, InitTable, <1>1, <1>2, PTL DEF Spec, Linearizable, Table!TableSpec
=============================================================================
