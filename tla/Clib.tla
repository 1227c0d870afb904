-------------------------------- MODULE Clib --------------------------------
(***************************************************************************)
(* libtabnasgbnf, the C ABI over the Go front end: go/clib/core.go behind  *)
(* the marshalling shim go/clib/tabnas_c.go. A registry maps handles to    *)
(* parser instances under a readers-writer lock; each instance has a mutex,*)
(* since an engine must not run two parses at once and a host calls from   *)
(* any thread. A parse takes its instance from the registry and goes on    *)
(* without the registry's lock, so its handle may be freed under it.       *)
(*                                                                         *)
(* One action is one step of a goroutine between two points where another  *)
(* may run. External: Go's locks, which never starve a waiter, and the     *)
(* engine, modelled by the one thing the mutex is for: it works in a space *)
(* of its own, where a second parse on the same instance would overwrite   *)
(* the source of the first.                                                *)
(***************************************************************************)
EXTENDS ClibCalls

VARIABLES
  nextID,    \* the last handle counted
  loaded,    \* the registry's keys; the instance under a key is its own
  writers,   \* the threads holding reg for writing
  readers,   \* the threads holding reg for reading
  holders,   \* for each instance, the threads holding its mutex
  scratch,   \* for each instance, the source its engine is working on
  pc,        \* where each thread stands; "idle" outside the library
  request,   \* what each thread called
  inst,      \* parseWith's local g; 0 is nil
  reply      \* the document each thread has ready

vars == <<nextID, loaded, writers, readers, holders, scratch, pc, request, inst, reply>>

Locations ==
  {"idle", "called", "count", "insert", "lookup", "found", "locked", "parsing",
   "parsed", "delete", "done"}

TypeOK ==
  /\ nextID \in 0 .. MaxHandles
  /\ loaded \in SUBSET Handles
  /\ writers \in SUBSET Threads
  /\ readers \in SUBSET Threads
  /\ holders \in [Handles -> SUBSET Threads]
  /\ scratch \in [Handles -> Sources]
  /\ pc \in [Threads -> Locations]
  /\ request \in [Threads -> Requests]
  /\ inst \in [Threads -> Handles \cup {0}]
  /\ reply \in [Threads -> Replies]

NoRequest == [op |-> "free", ok |-> TRUE, handle |-> 0]

Init ==
  /\ nextID = 0
  /\ loaded = {}
  /\ writers = {} /\ readers = {}
  /\ holders = [h \in Handles |-> {}]
  /\ scratch \in [Handles -> {CHOOSE src \in Sources : TRUE}]
  /\ pc = [t \in Threads |-> "idle"]
  /\ request = [t \in Threads |-> NoRequest]
  /\ inst = [t \in Threads |-> 0]
  /\ reply = [t \in Threads |-> Is("none")]

Move(t, from, to) == pc[t] = from /\ pc' = [pc EXCEPT ![t] = to]
Answers(t, document) == reply' = [reply EXCEPT ![t] = document]

Wants(t, op) == request[t].op = op /\ ~Malformed(request[t])

\* reg.Lock() and reg.RLock(); reg.Unlock() is in the step that ends with it.
WriteLock(t) == writers = {} /\ readers = {} /\ writers' = {t} /\ UNCHANGED readers
ReadLock(t) == writers = {} /\ readers' = readers \cup {t} /\ UNCHANGED writers

\* Bound: the host asks for MaxHandles handles at most.
Counting == {t \in Threads : pc[t] \in {"called", "count"} /\ Wants(t, "grammar")}
MayAsk(r) == r.op = "grammar" /\ ~Malformed(r) => nextID + Cardinality(Counting) < MaxHandles

-----------------------------------------------------------------------------
\* A thread of the host enters the library; goBytes copies its buffer.
Call(t) ==
  /\ Move(t, "idle", "called")
  /\ \E r \in Requests : MayAsk(r) /\ request' = [request EXCEPT ![t] = r]
  /\ UNCHANGED <<nextID, loaded, writers, readers, holders, scratch, inst, reply>>

Refuse(t) ==
  /\ Move(t, "called", "done")
  /\ Malformed(request[t])
  /\ Answers(t, Is("usage"))
  /\ UNCHANGED <<nextID, loaded, writers, readers, holders, scratch, request, inst>>

(* tabnas_grammar. newParser only closes over nothing, so safeNew succeeds. *)

\* Not in the code: a handle is counted and stored without the registry's lock.
MLockToLoadUnlocked(t) ==
  /\ Wants(t, "grammar")
  /\ Move(t, "called", "count")
  /\ UNCHANGED <<nextID, loaded, writers, readers, holders, scratch, request, inst, reply>>

LockToLoad(t) ==
  /\ Wants(t, "grammar")
  /\ Move(t, "called", "count")
  /\ WriteLock(t)
  /\ UNCHANGED <<nextID, loaded, holders, scratch, request, inst, reply>>

Count(t) ==
  /\ Move(t, "count", "insert")
  /\ nextID' = nextID + 1
  /\ UNCHANGED <<loaded, writers, readers, holders, scratch, request, inst, reply>>

\* Not in the code: the handle is counted a second time as it is inserted.
MInsertCounts(t) ==
  /\ Move(t, "insert", "done")
  /\ nextID' = nextID + 1
  /\ loaded' = loaded \cup {nextID'}
  /\ writers' = writers \ {t}
  /\ Answers(t, Issued(nextID'))
  /\ UNCHANGED <<readers, holders, scratch, request, inst>>

Insert(t) ==
  /\ Move(t, "insert", "done")
  /\ loaded' = loaded \cup {nextID}
  /\ writers' = writers \ {t}
  /\ Answers(t, Issued(nextID))
  /\ UNCHANGED <<nextID, readers, holders, scratch, request, inst>>

(* tabnas_parse. *)

LockToLookup(t) ==
  /\ Wants(t, "parse")
  /\ Move(t, "called", "lookup")
  /\ ReadLock(t)
  /\ UNCHANGED <<nextID, loaded, holders, scratch, request, inst, reply>>

Lookup(t) ==
  /\ pc[t] = "lookup"
  /\ LET h == request[t].handle IN
       IF h \in loaded
         THEN /\ Move(t, "lookup", "found")
              /\ inst' = [inst EXCEPT ![t] = h]
              /\ UNCHANGED reply
         ELSE /\ Move(t, "lookup", "done")
              /\ Answers(t, Is("unknown"))
              /\ UNCHANGED inst
  /\ readers' = readers \ {t}
  /\ UNCHANGED <<nextID, loaded, writers, holders, scratch, request>>

\* Not in the code: an instance with no mutex.
MLockInstanceFree(t) ==
  /\ Move(t, "found", "locked")
  /\ holders' = [holders EXCEPT ![inst[t]] = @ \cup {t}]
  /\ UNCHANGED <<nextID, loaded, writers, readers, scratch, request, inst, reply>>

LockInstance(t) ==
  /\ Move(t, "found", "locked")
  /\ holders[inst[t]] = {}
  /\ holders' = [holders EXCEPT ![inst[t]] = {t}]
  /\ UNCHANGED <<nextID, loaded, writers, readers, scratch, request, inst, reply>>

ParseStart(t) ==
  /\ Move(t, "locked", "parsing")
  /\ scratch' = [scratch EXCEPT ![inst[t]] = request[t].src]
  /\ UNCHANGED <<nextID, loaded, writers, readers, holders, request, inst, reply>>

\* Not in the code: the panic unwinds past g.mu.Unlock().
MParseEndUnwinds(t) ==
  /\ pc[t] = "parsing"
  /\ pc' = [pc EXCEPT ![t] =
             IF Answer[scratch[inst[t]]] = "panic" THEN "done" ELSE "parsed"]
  /\ Answers(t, Is(Verdict(scratch[inst[t]])))
  /\ UNCHANGED <<nextID, loaded, writers, readers, holders, scratch, request, inst>>

\* safeParse: a panic is recovered here, so the mutex is still released.
ParseEnd(t) ==
  /\ Move(t, "parsing", "parsed")
  /\ Answers(t, Is(Verdict(scratch[inst[t]])))
  /\ UNCHANGED <<nextID, loaded, writers, readers, holders, scratch, request, inst>>

UnlockInstance(t) ==
  /\ Move(t, "parsed", "done")
  /\ holders' = [holders EXCEPT ![inst[t]] = @ \ {t}]
  /\ UNCHANGED <<nextID, loaded, writers, readers, scratch, request, inst, reply>>

(* tabnas_grammar_free. A handle that is not loaded is ignored. *)

LockToFree(t) ==
  /\ Wants(t, "free")
  /\ Move(t, "called", "delete")
  /\ WriteLock(t)
  /\ UNCHANGED <<nextID, loaded, holders, scratch, request, inst, reply>>

Delete(t) ==
  /\ Move(t, "delete", "done")
  /\ loaded' = loaded \ {request[t].handle}
  /\ writers' = writers \ {t}
  /\ Answers(t, Is("freed"))
  /\ UNCHANGED <<nextID, readers, holders, scratch, request, inst>>

\* The call returns its document to the host; the locals go with it.
Return(t) ==
  /\ Move(t, "done", "idle")
  /\ request' = [request EXCEPT ![t] = NoRequest]
  /\ inst' = [inst EXCEPT ![t] = 0]
  /\ Answers(t, Is("none"))
  /\ UNCHANGED <<nextID, loaded, writers, readers, holders, scratch>>

Locking(t) == LockToLoad(t) \/ LockToLookup(t) \/ LockInstance(t) \/ LockToFree(t)

Running(t) ==
  \/ Refuse(t) \/ Count(t) \/ Insert(t) \/ Lookup(t)
  \/ ParseStart(t) \/ ParseEnd(t) \/ UnlockInstance(t) \/ Delete(t) \/ Return(t)

Next == \E t \in Threads : Call(t) \/ Locking(t) \/ Running(t)

Spec == Init /\ [][Next]_vars

\* A goroutine that can run is run, a parse returns, and Go's mutexes hand
\* themselves to the longest waiter after a millisecond.
Fairness ==
  \A t \in Threads :
    /\ WF_vars(Running(t))
    /\ SF_vars(LockToLoad(t)) /\ SF_vars(LockToLookup(t))
    /\ SF_vars(LockInstance(t)) /\ SF_vars(LockToFree(t))

FairSpec == Spec /\ Fairness

-----------------------------------------------------------------------------
(* The abstract table this implements.                                     *)

\* nextID is ahead of the registry between its increment and the insertion.
UsedHandles ==
  IF \E t \in Threads : pc[t] = "insert" THEN 1 .. nextID - 1 ELSE 1 .. nextID

\* A call has taken effect once the registry has been read or written.
CallOf(t) ==
  CASE pc[t] = "idle" -> [phase |-> "idle"]
    [] pc[t] \in {"called", "count", "insert", "lookup", "delete"} ->
         [phase |-> "pending", request |-> request[t]]
    [] pc[t] \in {"found", "locked", "parsing", "parsed"} ->
         [phase |-> "done", reply |-> Is(Verdict(request[t].src))]
    [] pc[t] = "done" -> [phase |-> "done", reply |-> reply[t]]

Table == INSTANCE HandleTable
  WITH used <- UsedHandles, live <- loaded, call <- [t \in Threads |-> CallOf(t)]

-----------------------------------------------------------------------------
(* Properties.                                                             *)

\* Calls from any threads look as if each had taken effect at one instant:
\* no handle is issued twice or comes back to life, a parse answers for its
\* own source whatever else the instance is asked and whether or not its
\* handle is freed meanwhile, and a call that starts after a free sees it.
Linearizable == Table!TableSpec

\* No two threads are inside the engine of one instance (parseWith's g.mu).
Inside(t) == pc[t] \in {"locked", "parsing", "parsed"}
OneParsePerEngine ==
  \A t, u \in Threads : Inside(t) /\ Inside(u) /\ inst[t] = inst[u] => t = u

\* Every call returns: no path, a panic in the engine's included, leaves a
\* lock behind or waits for one it holds.
EveryCallReturns == \A t \in Threads : pc[t] = "called" ~> pc[t] = "idle"
=============================================================================
