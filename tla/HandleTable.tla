----------------------------- MODULE HandleTable -----------------------------
(***************************************************************************)
(* What libtabnasgbnf promises its callers (go/clib/README.md,             *)
(* go/clib/include/tabnas.h): whatever the threads of the host do, each    *)
(* call takes effect at one instant between its start and its return.      *)
(* tabnas_grammar issues a handle no call was ever given, tabnas_parse     *)
(* answers what the engine would answer that source alone, or that the     *)
(* handle is not loaded, and tabnas_grammar_free retires a handle for good.*)
(***************************************************************************)
EXTENDS ClibCalls

Idle == [phase |-> "idle"]
Pending(request) == [phase |-> "pending", request |-> request]
Done(reply) == [phase |-> "done", reply |-> reply]

VARIABLES
  used,   \* the handles ever issued
  live,   \* those not freed
  call    \* what each thread is calling

table == <<used, live, call>>

TableInit == used = {} /\ live = {} /\ call = [t \in Threads |-> Idle]

Call(t, request) ==
  /\ call[t] = Idle
  /\ call' = [call EXCEPT ![t] = Pending(request)]
  /\ UNCHANGED <<used, live>>

Reply(t, request, reply) ==
  /\ call[t] = Pending(request)
  /\ call' = [call EXCEPT ![t] = Done(reply)]

Refused(t, request) ==
  /\ Malformed(request)
  /\ Reply(t, request, Is("usage"))
  /\ UNCHANGED <<used, live>>

Load(t, request, h) ==
  /\ request.op = "grammar" /\ ~Malformed(request)
  /\ h \notin used
  /\ used' = used \cup {h}
  /\ live' = live \cup {h}
  /\ Reply(t, request, Issued(h))

Parse(t, request) ==
  /\ request.op = "parse" /\ ~Malformed(request)
  /\ Reply(t, request,
           Is(IF request.handle \in live THEN Verdict(request.src) ELSE "unknown"))
  /\ UNCHANGED <<used, live>>

Free(t, request) ==
  /\ request.op = "free"
  /\ live' = live \ {request.handle}
  /\ Reply(t, request, Is("freed"))
  /\ UNCHANGED used

Return(t) ==
  /\ call[t].phase = "done"
  /\ call' = [call EXCEPT ![t] = Idle]
  /\ UNCHANGED <<used, live>>

TableNext ==
  \E t \in Threads :
    \/ Return(t)
    \/ \E request \in Requests :
         \/ Call(t, request) \/ Refused(t, request)
         \/ Parse(t, request) \/ Free(t, request)
         \/ \E h \in Handles : Load(t, request, h)

TableSpec == TableInit /\ [][TableNext]_table
=============================================================================
