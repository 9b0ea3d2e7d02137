--------------------------- MODULE EndpointProofs ---------------------------
(***************************************************************************)
(* Proofs about Endpoint, for any number of calls, messages, services,      *)
(* links, hooks and closers: its safety invariants follow from one          *)
(* inductive invariant, and it implements ServiceCall.                      *)
(***************************************************************************)
EXTENDS Endpoint, TLAPS

(* Types, without the claims of TypeOK that need the rest of the invariant, *)
(* and the labels that each kind of thread can reach.                       *)
Types ==
  /\ closed \in BOOLEAN /\ lock \in Threads \cup {Nobody}
  /\ node \in {"live", "freed"} /\ pc \in [Threads -> Labels]
  /\ pending \subseteq Calls /\ waker \in Calls \cup {Nobody}
  /\ queue \in [Calls -> {<<>>, <<"response">>, <<"CLOSED">>}]
  /\ handlers \subseteq Services /\ links \subseteq Links
  /\ outgoing \subseteq Links /\ routing \subseteq Calls
  /\ subscribed \subseteq Services /\ up \subseteq Links
  /\ message \in [Messages -> {"away", "inbox", "taken", "handled", "dropped", "lost"}]
  /\ response \in [Calls -> {"none", "held", "retired"}] /\ onPump \subseteq Nested
  /\ \A r \in Calls : pc[r] \in Finished \cup
       {"idle", "sending", "waiting", "expired", "popped", "accepting"}
  /\ \A h \in Hooks : pc[h] \in {"idle", "run_now", "ran", "registered"}
  /\ \A c \in Closers : pc[c] \in {"idle", "hooks", "join", "free", "returned", "raised"}

(* The lock is held exactly by the thread inside a with_node block; once    *)
(* @closed is set nobody enters one, and only then is the node freed.       *)
Locking ==
  /\ \A t \in Threads : pc[t] \in InNodeLabels => lock = t
  /\ lock # Nobody => ~closed
  /\ \A c \in Closers : pc[c] \in {"hooks", "join", "free", "returned", "raised"} => closed
  /\ node = "freed" => closed

(* Where a call's wake-up can be, and which calls can have one.             *)
Waking ==
  /\ OneWaker
  /\ \A r \in Calls :
       waker = r \/ queue[r] # <<>> => pc[r] \in {"waiting", "expired", "timedout"}

(* A response on its way to a caller is still held by core.                 *)
Holding ==
  \A r \in Calls :
    /\ waker = r \/ queue[r] = <<"response">> \/ r \in routing \cap pending
         => response[r] = "held"
    /\ pc[r] \in {"popped", "accepting"} => response[r] = "held"
    /\ pc[r] = "unaccepted" => closed /\ response[r] = "held"
    /\ r \in routing => response[r] # "none"
    /\ response[r] # "none" => Sent(r)

(* The hooks before hookAt were called, once; the others were not.          *)
Hooking ==
  /\ closers \in Seq(Hooks) /\ hookAt \in 1..(Len(closers) + 1)
  /\ ran \in [Hooks -> Nat]
  /\ \A i, j \in 1..Len(closers) : closers[i] = closers[j] => i = j
  /\ \A i \in 1..Len(closers) : pc[closers[i]] = "registered"
  /\ \A i \in 1..Len(closers) : ran[closers[i]] = IF i < hookAt THEN 1 ELSE 0
  /\ \A h \in Hooks :
       /\ pc[h] = "registered" => \E i \in 1..Len(closers) : closers[i] = h
       /\ pc[h] \in {"idle", "run_now"} => ran[h] = 0
       /\ pc[h] = "ran" => ran[h] = 1

(* After the wake-up of #close no hook is left and nobody is pending.       *)
Emptying ==
  /\ \A c \in Closers : pc[c] \in {"join", "free"} => hookAt > Len(closers) /\ pending = {}
  /\ node = "freed" => hookAt > Len(closers) /\ pending = {}

IInv == Types /\ Locking /\ Waking /\ Holding /\ Hooking /\ Emptying

-----------------------------------------------------------------------------
(* The kinds of threads are disjoint.                                       *)
LEMMA Kinds ==
  /\ Calls \subseteq Threads /\ Messages \subseteq Threads /\ Services \subseteq Threads
  /\ Links \subseteq Threads /\ Hooks \subseteq Threads /\ Closers \subseteq Threads
  /\ Pump \in Threads /\ Nobody \notin Threads
  /\ \A r \in Calls : r \notin Messages \cup Services \cup Links \cup Hooks \cup Closers \cup {Pump}
  /\ \A h \in Hooks : h \notin Messages \cup Services \cup Links \cup Closers \cup {Pump}
  /\ \A c \in Closers : c \notin Messages \cup Services \cup Links \cup {Pump}
BY EndpointAssumption DEF Threads, Others

(* Queues of at most one item.                                              *)
LEMMA OneItem ==
  \A x \in {"response", "CLOSED"} :
    Append(<<>>, x) = <<x>> /\ Head(<<x>>) = x /\ Tail(<<x>>) = <<>> /\ <<x>> # <<>>
OBVIOUS

(* Every step preserves the types; that #close and #pump push to a call only *)
(* while its queue is empty is what OneWaker says.                          *)
LEMMA TypesStep ==
  ASSUME Types, OneWaker, [Next]_vars
  PROVE  Types'
<1> USE Kinds DEF Goto, InNode, WithNode, callVars, mapVars, tearVars, batchVars,
    coreVars, Types, Labels, InNodeLabels, Finished
<1>1. ASSUME NEW t \in Threads, EnterNode(t) PROVE Types' BY <1>1 DEF EnterNode
<1>2. ASSUME NEW r \in Calls, Send(r) PROVE Types' BY <1>2 DEF Send, Enlist
<1>3. ASSUME NEW r \in Calls, SendFails(r) PROVE Types' BY <1>3 DEF SendFails
<1>4. ASSUME NEW r \in Calls, Pop(r) PROVE Types'
  <2>1. PICK x \in {"response", "CLOSED"} : queue[r] = <<x>> BY <1>4 DEF Pop
  <2>2. queue' = [queue EXCEPT ![r] = <<>>] BY <1>4, <2>1, OneItem DEF Pop
  <2>3. Goto(r, "waiting", IF x = "CLOSED" THEN "closed" ELSE "popped")
    BY <1>4, <2>1, OneItem DEF Pop, Popped
  <2>. QED BY <1>4, <2>2, <2>3 DEF Pop
<1>5. ASSUME NEW r \in Calls, Expire(r) PROVE Types' BY <1>5 DEF Expire
<1>6. ASSUME NEW r \in Calls, Unregister(r) PROVE Types'
     BY <1>6 DEF Unregister, Delist
<1>7. ASSUME NEW r \in Calls, Accept(r) PROVE Types' BY <1>7 DEF Accept
<1>8. ASSUME NEW s \in Services, Subscribe(s) PROVE Types'
     BY <1>8 DEF Subscribe
<1>9. ASSUME NEW s \in Services, StoreHandler(s) PROVE Types'
     BY <1>9 DEF StoreHandler
<1>10. ASSUME NEW h \in Hooks, RegisterCloser(h) PROVE Types'
     BY <1>10 DEF RegisterCloser, AppendHook, LateHook
<1>11. ASSUME NEW h \in Hooks, RunHookNow(h) PROVE Types'
     BY <1>11 DEF RunHookNow
<1>12. ASSUME NEW m \in Messages, Reply(m) PROVE Types' BY <1>12 DEF Reply
<1>13. ASSUME NEW l \in Links, RegisterLink(l) PROVE Types'
     BY <1>13 DEF RegisterLink
<1>14. ASSUME NEW l \in Links, Deliver(l) PROVE Types'
     BY <1>14 DEF Deliver, Surface, Sent
<1>15. ASSUME NEW l \in Links, LinkDown(l) PROVE Types' BY <1>15 DEF LinkDown
<1>16. ASSUME NEW c \in Closers, CloseBegin(c) PROVE Types'
     BY <1>16 DEF CloseBegin
<1>17. ASSUME NEW c \in Closers, RunHook(c) PROVE Types' BY <1>17 DEF RunHook
<1>18. ASSUME NEW c \in Closers, WakeWaiters(c) PROVE Types'
  <2>1. \A r \in Calls : Woken(r) \in {<<>>, <<"response">>, <<"CLOSED">>}
    BY OneItem DEF Woken, OneWaker
  <2>. QED BY <1>18, <2>1 DEF WakeWaiters, Cleared
<1>19. ASSUME NEW c \in Closers, Join(c) PROVE Types' BY <1>19 DEF Join, Joined
<1>20. ASSUME NEW c \in Closers, Free(c) PROVE Types' BY <1>20 DEF Free
<1>21. CASE Snapshot BY <1>21 DEF Snapshot, SinkReturns
<1>22. CASE HandlerReturns BY <1>22 DEF HandlerReturns
<1>23. CASE PushResponse BY <1>23, OneItem DEF PushResponse, OneWaker
<1>24. CASE EndPump BY <1>24 DEF EndPump
<1>25. CASE WakeUp BY <1>25 DEF WakeUp, UntilClosed
<1>26. ASSUME NEW l \in Links, CallSendFn(l) PROVE Types'
     BY <1>26 DEF CallSendFn
<1>27. ASSUME NEW m \in Messages, Dispatch(m) PROVE Types'
     BY <1>27 DEF Dispatch, Taken, Mounted
<1>28. ASSUME NEW r \in Calls, RouteResponse(r) PROVE Types'
     BY <1>28 DEF RouteResponse, Delist
<1>29. ASSUME NEW fault \in Faults, Raise(fault) PROVE Types'
     BY <1>29 DEF Raise, Taken
<1>30. CASE UNCHANGED vars BY <1>30 DEF vars
<1>. QED
  BY <1>1, <1>2, <1>3, <1>4, <1>5, <1>6, <1>7, <1>8, <1>9, <1>10, <1>11, <1>12, <1>13,
      <1>14, <1>15, <1>16, <1>17, <1>18, <1>19, <1>20, <1>21, <1>22, <1>23, <1>24, <1>25,
          <1>26, <1>27, <1>28, <1>29, <1>30
  DEF Next, RequestStep, LinkStep, CloseStep, PumpStep
(* Every step preserves the ownership of @node_lock (endpoint.rb:182-188).  *)
LEMMA LockingStep ==
  ASSUME Types, Locking, [Next]_vars
  PROVE  Locking'
<1> USE Kinds DEF Goto, InNode, WithNode, callVars, mapVars, tearVars, batchVars,
    coreVars, Types, Locking, Labels, InNodeLabels, Finished
<1>1. ASSUME NEW t \in Threads, EnterNode(t) PROVE Locking'
     BY <1>1 DEF EnterNode
<1>2. ASSUME NEW r \in Calls, Send(r) PROVE Locking' BY <1>2 DEF Send, Enlist
<1>3. ASSUME NEW r \in Calls, SendFails(r) PROVE Locking' BY <1>3 DEF SendFails
<1>4. ASSUME NEW r \in Calls, Pop(r) PROVE Locking' BY <1>4 DEF Pop, Popped
<1>5. ASSUME NEW r \in Calls, Expire(r) PROVE Locking' BY <1>5 DEF Expire
<1>6. ASSUME NEW r \in Calls, Unregister(r) PROVE Locking'
     BY <1>6 DEF Unregister, Delist
<1>7. ASSUME NEW r \in Calls, Accept(r) PROVE Locking' BY <1>7 DEF Accept
<1>8. ASSUME NEW s \in Services, Subscribe(s) PROVE Locking'
     BY <1>8 DEF Subscribe
<1>9. ASSUME NEW s \in Services, StoreHandler(s) PROVE Locking'
     BY <1>9 DEF StoreHandler
<1>10. ASSUME NEW h \in Hooks, RegisterCloser(h) PROVE Locking'
     BY <1>10 DEF RegisterCloser, AppendHook, LateHook
<1>11. ASSUME NEW h \in Hooks, RunHookNow(h) PROVE Locking'
     BY <1>11 DEF RunHookNow
<1>12. ASSUME NEW m \in Messages, Reply(m) PROVE Locking' BY <1>12 DEF Reply
<1>13. ASSUME NEW l \in Links, RegisterLink(l) PROVE Locking'
     BY <1>13 DEF RegisterLink
<1>14. ASSUME NEW l \in Links, Deliver(l) PROVE Locking'
     BY <1>14 DEF Deliver, Surface, Sent
<1>15. ASSUME NEW l \in Links, LinkDown(l) PROVE Locking' BY <1>15 DEF LinkDown
<1>16. ASSUME NEW c \in Closers, CloseBegin(c) PROVE Locking'
     BY <1>16 DEF CloseBegin
<1>17. ASSUME NEW c \in Closers, RunHook(c) PROVE Locking' BY <1>17 DEF RunHook
<1>18. ASSUME NEW c \in Closers, WakeWaiters(c) PROVE Locking'
     BY <1>18 DEF WakeWaiters, Woken, Cleared
<1>19. ASSUME NEW c \in Closers, Join(c) PROVE Locking' BY <1>19 DEF Join, Joined
<1>20. ASSUME NEW c \in Closers, Free(c) PROVE Locking' BY <1>20 DEF Free
<1>21. CASE Snapshot BY <1>21 DEF Snapshot, SinkReturns
<1>22. CASE HandlerReturns BY <1>22 DEF HandlerReturns
<1>23. CASE PushResponse BY <1>23 DEF PushResponse
<1>24. CASE EndPump BY <1>24 DEF EndPump
<1>25. CASE WakeUp BY <1>25 DEF WakeUp, UntilClosed
<1>26. ASSUME NEW l \in Links, CallSendFn(l) PROVE Locking'
     BY <1>26 DEF CallSendFn
<1>27. ASSUME NEW m \in Messages, Dispatch(m) PROVE Locking'
     BY <1>27 DEF Dispatch, Taken, Mounted
<1>28. ASSUME NEW r \in Calls, RouteResponse(r) PROVE Locking'
     BY <1>28 DEF RouteResponse, Delist
<1>29. ASSUME NEW fault \in Faults, Raise(fault) PROVE Locking'
     BY <1>29 DEF Raise, Taken
<1>30. CASE UNCHANGED vars BY <1>30 DEF vars
<1>. QED
  BY <1>1, <1>2, <1>3, <1>4, <1>5, <1>6, <1>7, <1>8, <1>9, <1>10, <1>11, <1>12, <1>13,
      <1>14, <1>15, <1>16, <1>17, <1>18, <1>19, <1>20, <1>21, <1>22, <1>23, <1>24, <1>25,
          <1>26, <1>27, <1>28, <1>29, <1>30
  DEF Next, RequestStep, LinkStep, CloseStep, PumpStep
(* Every step preserves the single wake-up of each call (endpoint.rb:83-105, *)
(* 159-162, 219-222).                                                       *)
LEMMA WakingStep ==
  ASSUME Types, Waking, [Next]_vars
  PROVE  Waking'
<1> USE Kinds DEF Goto, InNode, WithNode, callVars, mapVars, tearVars, batchVars,
    coreVars, Types, Waking, OneWaker, Finished
<1>1. ASSUME NEW t \in Threads, EnterNode(t) PROVE Waking'
     BY <1>1 DEF EnterNode
<1>2. ASSUME NEW r \in Calls, Send(r) PROVE Waking' BY <1>2 DEF Send, Enlist
<1>3. ASSUME NEW r \in Calls, SendFails(r) PROVE Waking' BY <1>3 DEF SendFails
<1>4. ASSUME NEW r \in Calls, Pop(r) PROVE Waking'
  <2>1. PICK x \in {"response", "CLOSED"} : queue[r] = <<x>> BY <1>4 DEF Pop
  <2>2. queue' = [queue EXCEPT ![r] = <<>>] BY <1>4, <2>1, OneItem DEF Pop
  <2>3. Goto(r, "waiting", IF x = "CLOSED" THEN "closed" ELSE "popped")
    BY <1>4, <2>1, OneItem DEF Pop, Popped
  <2>. QED BY <1>4, <2>2, <2>3 DEF Pop
<1>5. ASSUME NEW r \in Calls, Expire(r) PROVE Waking' BY <1>5 DEF Expire
<1>6. ASSUME NEW r \in Calls, Unregister(r) PROVE Waking'
     BY <1>6 DEF Unregister, Delist
<1>7. ASSUME NEW r \in Calls, Accept(r) PROVE Waking' BY <1>7 DEF Accept
<1>8. ASSUME NEW s \in Services, Subscribe(s) PROVE Waking'
     BY <1>8 DEF Subscribe
<1>9. ASSUME NEW s \in Services, StoreHandler(s) PROVE Waking'
     BY <1>9 DEF StoreHandler
<1>10. ASSUME NEW h \in Hooks, RegisterCloser(h) PROVE Waking'
     BY <1>10 DEF RegisterCloser, AppendHook, LateHook
<1>11. ASSUME NEW h \in Hooks, RunHookNow(h) PROVE Waking'
     BY <1>11 DEF RunHookNow
<1>12. ASSUME NEW m \in Messages, Reply(m) PROVE Waking' BY <1>12 DEF Reply
<1>13. ASSUME NEW l \in Links, RegisterLink(l) PROVE Waking'
     BY <1>13 DEF RegisterLink
<1>14. ASSUME NEW l \in Links, Deliver(l) PROVE Waking'
     BY <1>14 DEF Deliver, Surface, Sent
<1>15. ASSUME NEW l \in Links, LinkDown(l) PROVE Waking' BY <1>15 DEF LinkDown
<1>16. ASSUME NEW c \in Closers, CloseBegin(c) PROVE Waking'
     BY <1>16 DEF CloseBegin
<1>17. ASSUME NEW c \in Closers, RunHook(c) PROVE Waking' BY <1>17 DEF RunHook
<1>18. ASSUME NEW c \in Closers, WakeWaiters(c) PROVE Waking'
  <2>1. pending' = {} /\ waker' = waker BY <1>18 DEF WakeWaiters, Cleared
  <2>2. \A r \in Calls : pc'[r] = pc[r] BY <1>18 DEF WakeWaiters
  <2>3. \A r \in Calls : queue'[r] = Woken(r) BY <1>18 DEF WakeWaiters
  <2>4. \A r \in pending : queue'[r] = <<"CLOSED">> BY <2>3, OneItem DEF Woken
  <2>5. \A r \in Calls \ pending : queue'[r] = queue[r] BY <2>3 DEF Woken
  <2>6. <<"CLOSED">> # <<>> BY OneItem
  <2>7. ASSUME NEW r \in Calls, r \in pending
        PROVE  waker # r /\ pc[r] \in {"waiting", "expired"}
    BY <2>7
  <2>. QED BY <2>1, <2>2, <2>4, <2>5, <2>6, <2>7
<1>19. ASSUME NEW c \in Closers, Join(c) PROVE Waking' BY <1>19 DEF Join, Joined
<1>20. ASSUME NEW c \in Closers, Free(c) PROVE Waking' BY <1>20 DEF Free
<1>21. CASE Snapshot BY <1>21 DEF Snapshot, SinkReturns
<1>22. CASE HandlerReturns BY <1>22 DEF HandlerReturns
<1>23. CASE PushResponse
  <2>1. PICK r \in Calls : waker = r BY <1>23 DEF PushResponse
  <2>2. queue[r] = <<>> /\ r \notin pending /\ pc[r] \in {"waiting", "expired", "timedout"}
    BY <2>1
  <2>3. queue' = [queue EXCEPT ![r] = <<"response">>] BY <1>23, <2>1, <2>2, OneItem DEF PushResponse
  <2>4. waker' = Nobody /\ pc' = pc /\ pending' = pending BY <1>23 DEF PushResponse
  <2>5. <<"response">> # <<>> /\ Nobody \notin Calls BY OneItem
  <2>. QED BY <2>1, <2>2, <2>3, <2>4, <2>5
<1>24. CASE EndPump BY <1>24 DEF EndPump
<1>25. CASE WakeUp
  <2>1. \A r \in Calls : pc'[r] = pc[r] BY <1>25 DEF WakeUp
  <2>2. pending' = pending /\ queue' = queue /\ waker' = waker BY <1>25 DEF WakeUp
  <2>. QED BY <2>1, <2>2
<1>26. ASSUME NEW l \in Links, CallSendFn(l) PROVE Waking'
     BY <1>26 DEF CallSendFn
<1>27. ASSUME NEW m \in Messages, Dispatch(m) PROVE Waking'
     BY <1>27 DEF Dispatch, Taken, Mounted
<1>28. ASSUME NEW r \in Calls, RouteResponse(r) PROVE Waking'
     BY <1>28 DEF RouteResponse, Delist
<1>29. ASSUME NEW fault \in Faults, Raise(fault) PROVE Waking'
     BY <1>29 DEF Raise, Taken
<1>30. CASE UNCHANGED vars BY <1>30 DEF vars
<1>. QED
  BY <1>1, <1>2, <1>3, <1>4, <1>5, <1>6, <1>7, <1>8, <1>9, <1>10, <1>11, <1>12, <1>13,
      <1>14, <1>15, <1>16, <1>17, <1>18, <1>19, <1>20, <1>21, <1>22, <1>23, <1>24, <1>25,
          <1>26, <1>27, <1>28, <1>29, <1>30
  DEF Next, RequestStep, LinkStep, CloseStep, PumpStep
(* Every step preserves that responses under way are held by core           *)
(* (endpoint.rb:98-99, ffi.rb:142-150).                                     *)
LEMMA HoldingStep ==
  ASSUME Types, Locking, Waking, Holding, [Next]_vars
  PROVE  Holding'
<1> USE Kinds DEF Goto, InNode, WithNode, callVars, mapVars, tearVars, batchVars,
    coreVars, Types, Waking, OneWaker, Holding, Sent
<1>1. ASSUME NEW t \in Threads, EnterNode(t) PROVE Holding'
     BY <1>1 DEF EnterNode
<1>2. ASSUME NEW r \in Calls, Send(r) PROVE Holding' BY <1>2 DEF Send, Enlist
<1>3. ASSUME NEW r \in Calls, SendFails(r) PROVE Holding' BY <1>3 DEF SendFails
<1>4. ASSUME NEW r \in Calls, Pop(r) PROVE Holding'
     BY <1>4, OneItem DEF Pop, Popped
<1>5. ASSUME NEW r \in Calls, Expire(r) PROVE Holding' BY <1>5 DEF Expire
<1>6. ASSUME NEW r \in Calls, Unregister(r) PROVE Holding'
     BY <1>6 DEF Unregister, Delist
<1>7. ASSUME NEW r \in Calls, Accept(r) PROVE Holding' BY <1>7 DEF Accept
<1>8. ASSUME NEW s \in Services, Subscribe(s) PROVE Holding'
     BY <1>8 DEF Subscribe
<1>9. ASSUME NEW s \in Services, StoreHandler(s) PROVE Holding'
     BY <1>9 DEF StoreHandler
<1>10. ASSUME NEW h \in Hooks, RegisterCloser(h) PROVE Holding'
     BY <1>10 DEF RegisterCloser, AppendHook, LateHook
<1>11. ASSUME NEW h \in Hooks, RunHookNow(h) PROVE Holding'
     BY <1>11 DEF RunHookNow
<1>12. ASSUME NEW m \in Messages, Reply(m) PROVE Holding' BY <1>12 DEF Reply
<1>13. ASSUME NEW l \in Links, RegisterLink(l) PROVE Holding'
     BY <1>13 DEF RegisterLink
<1>14. ASSUME NEW l \in Links, Deliver(l) PROVE Holding'
     BY <1>14 DEF Deliver, Surface, Sent
<1>15. ASSUME NEW l \in Links, LinkDown(l) PROVE Holding' BY <1>15 DEF LinkDown
<1>16. ASSUME NEW c \in Closers, CloseBegin(c) PROVE Holding'
     BY <1>16 DEF CloseBegin
<1>17. ASSUME NEW c \in Closers, RunHook(c) PROVE Holding' BY <1>17 DEF RunHook
<1>18. ASSUME NEW c \in Closers, WakeWaiters(c) PROVE Holding'
     BY <1>18, OneItem DEF WakeWaiters, Woken, Cleared
<1>19. ASSUME NEW c \in Closers, Join(c) PROVE Holding' BY <1>19 DEF Join, Joined
<1>20. ASSUME NEW c \in Closers, Free(c) PROVE Holding' BY <1>20 DEF Free
<1>21. CASE Snapshot BY <1>21 DEF Snapshot, SinkReturns
<1>22. CASE HandlerReturns BY <1>22 DEF HandlerReturns
<1>23. CASE PushResponse BY <1>23, OneItem DEF PushResponse
<1>24. CASE EndPump BY <1>24 DEF EndPump
<1>25. CASE WakeUp BY <1>25 DEF WakeUp, UntilClosed
<1>26. ASSUME NEW l \in Links, CallSendFn(l) PROVE Holding'
     BY <1>26 DEF CallSendFn
<1>27. ASSUME NEW m \in Messages, Dispatch(m) PROVE Holding'
     BY <1>27 DEF Dispatch, Taken, Mounted
<1>28. ASSUME NEW r \in Calls, RouteResponse(r) PROVE Holding'
     BY <1>28 DEF RouteResponse, Delist
<1>29. ASSUME NEW fault \in Faults, Raise(fault) PROVE Holding'
     BY <1>29 DEF Raise, Taken
<1>30. CASE UNCHANGED vars BY <1>30 DEF vars
<1>. QED
  BY <1>1, <1>2, <1>3, <1>4, <1>5, <1>6, <1>7, <1>8, <1>9, <1>10, <1>11, <1>12, <1>13,
      <1>14, <1>15, <1>16, <1>17, <1>18, <1>19, <1>20, <1>21, <1>22, <1>23, <1>24, <1>25,
          <1>26, <1>27, <1>28, <1>29, <1>30
  DEF Next, RequestStep, LinkStep, CloseStep, PumpStep
(* Every step preserves how often each hook ran (endpoint.rb:129-132, 157). *)
LEMMA HookingStep ==
  ASSUME Types, Hooking, [Next]_vars
  PROVE  Hooking'
<1> USE Kinds DEF Goto, InNode, WithNode, callVars, mapVars, tearVars, batchVars,
    coreVars, Types, Hooking
<1>1. ASSUME NEW t \in Threads, EnterNode(t) PROVE Hooking'
     BY <1>1 DEF EnterNode
<1>2. ASSUME NEW r \in Calls, Send(r) PROVE Hooking' BY <1>2 DEF Send, Enlist
<1>3. ASSUME NEW r \in Calls, SendFails(r) PROVE Hooking' BY <1>3 DEF SendFails
<1>4. ASSUME NEW r \in Calls, Pop(r) PROVE Hooking' BY <1>4 DEF Pop, Popped
<1>5. ASSUME NEW r \in Calls, Expire(r) PROVE Hooking' BY <1>5 DEF Expire
<1>6. ASSUME NEW r \in Calls, Unregister(r) PROVE Hooking'
     BY <1>6 DEF Unregister, Delist
<1>7. ASSUME NEW r \in Calls, Accept(r) PROVE Hooking' BY <1>7 DEF Accept
<1>8. ASSUME NEW s \in Services, Subscribe(s) PROVE Hooking'
     BY <1>8 DEF Subscribe
<1>9. ASSUME NEW s \in Services, StoreHandler(s) PROVE Hooking'
     BY <1>9 DEF StoreHandler
<1>10. ASSUME NEW h \in Hooks, RegisterCloser(h) PROVE Hooking'
     BY <1>10 DEF RegisterCloser, AppendHook, LateHook
<1>11. ASSUME NEW h \in Hooks, RunHookNow(h) PROVE Hooking'
     BY <1>11 DEF RunHookNow
<1>12. ASSUME NEW m \in Messages, Reply(m) PROVE Hooking' BY <1>12 DEF Reply
<1>13. ASSUME NEW l \in Links, RegisterLink(l) PROVE Hooking'
     BY <1>13 DEF RegisterLink
<1>14. ASSUME NEW l \in Links, Deliver(l) PROVE Hooking'
     BY <1>14 DEF Deliver, Surface, Sent
<1>15. ASSUME NEW l \in Links, LinkDown(l) PROVE Hooking' BY <1>15 DEF LinkDown
<1>16. ASSUME NEW c \in Closers, CloseBegin(c) PROVE Hooking'
     BY <1>16 DEF CloseBegin
<1>17. ASSUME NEW c \in Closers, RunHook(c) PROVE Hooking' BY <1>17 DEF RunHook
<1>18. ASSUME NEW c \in Closers, WakeWaiters(c) PROVE Hooking'
     BY <1>18 DEF WakeWaiters, Woken, Cleared
<1>19. ASSUME NEW c \in Closers, Join(c) PROVE Hooking' BY <1>19 DEF Join, Joined
<1>20. ASSUME NEW c \in Closers, Free(c) PROVE Hooking' BY <1>20 DEF Free
<1>21. CASE Snapshot BY <1>21 DEF Snapshot, SinkReturns
<1>22. CASE HandlerReturns
  <2>1. \A h \in Hooks : pc'[h] = pc[h] BY <1>22 DEF HandlerReturns
  <2>2. closers' = closers /\ hookAt' = hookAt /\ ran' = ran BY <1>22 DEF HandlerReturns
  <2>3. \A i \in 1..Len(closers) : closers[i] \in Hooks OBVIOUS
  <2>. QED BY <2>1, <2>2, <2>3
<1>23. CASE PushResponse BY <1>23 DEF PushResponse
<1>24. CASE EndPump BY <1>24 DEF EndPump
<1>25. CASE WakeUp BY <1>25 DEF WakeUp, UntilClosed
<1>26. ASSUME NEW l \in Links, CallSendFn(l) PROVE Hooking'
     BY <1>26 DEF CallSendFn
<1>27. ASSUME NEW m \in Messages, Dispatch(m) PROVE Hooking'
     BY <1>27 DEF Dispatch, Taken, Mounted
<1>28. ASSUME NEW r \in Calls, RouteResponse(r) PROVE Hooking'
     BY <1>28 DEF RouteResponse, Delist
<1>29. ASSUME NEW fault \in Faults, Raise(fault) PROVE Hooking'
     BY <1>29 DEF Raise, Taken
<1>30. CASE UNCHANGED vars BY <1>30 DEF vars
<1>. QED
  BY <1>1, <1>2, <1>3, <1>4, <1>5, <1>6, <1>7, <1>8, <1>9, <1>10, <1>11, <1>12, <1>13,
      <1>14, <1>15, <1>16, <1>17, <1>18, <1>19, <1>20, <1>21, <1>22, <1>23, <1>24, <1>25,
          <1>26, <1>27, <1>28, <1>29, <1>30
  DEF Next, RequestStep, LinkStep, CloseStep, PumpStep
(* Every step preserves what the wake-up of #close has emptied.             *)
LEMMA EmptyingStep ==
  ASSUME Types, Locking, Hooking, Emptying, [Next]_vars
  PROVE  Emptying'
<1> USE Kinds DEF Goto, InNode, WithNode, callVars, mapVars, tearVars, batchVars,
    coreVars, Types, Locking, Hooking, Emptying, InNodeLabels
<1>1. ASSUME NEW t \in Threads, EnterNode(t) PROVE Emptying'
     BY <1>1 DEF EnterNode
<1>2. ASSUME NEW r \in Calls, Send(r) PROVE Emptying' BY <1>2 DEF Send, Enlist
<1>3. ASSUME NEW r \in Calls, SendFails(r) PROVE Emptying'
     BY <1>3 DEF SendFails
<1>4. ASSUME NEW r \in Calls, Pop(r) PROVE Emptying' BY <1>4 DEF Pop, Popped
<1>5. ASSUME NEW r \in Calls, Expire(r) PROVE Emptying' BY <1>5 DEF Expire
<1>6. ASSUME NEW r \in Calls, Unregister(r) PROVE Emptying'
     BY <1>6 DEF Unregister, Delist
<1>7. ASSUME NEW r \in Calls, Accept(r) PROVE Emptying' BY <1>7 DEF Accept
<1>8. ASSUME NEW s \in Services, Subscribe(s) PROVE Emptying'
     BY <1>8 DEF Subscribe
<1>9. ASSUME NEW s \in Services, StoreHandler(s) PROVE Emptying'
     BY <1>9 DEF StoreHandler
<1>10. ASSUME NEW h \in Hooks, RegisterCloser(h) PROVE Emptying'
     BY <1>10 DEF RegisterCloser, AppendHook, LateHook
<1>11. ASSUME NEW h \in Hooks, RunHookNow(h) PROVE Emptying'
     BY <1>11 DEF RunHookNow
<1>12. ASSUME NEW m \in Messages, Reply(m) PROVE Emptying' BY <1>12 DEF Reply
<1>13. ASSUME NEW l \in Links, RegisterLink(l) PROVE Emptying'
     BY <1>13 DEF RegisterLink
<1>14. ASSUME NEW l \in Links, Deliver(l) PROVE Emptying'
     BY <1>14 DEF Deliver, Surface, Sent
<1>15. ASSUME NEW l \in Links, LinkDown(l) PROVE Emptying' BY <1>15 DEF LinkDown
<1>16. ASSUME NEW c \in Closers, CloseBegin(c) PROVE Emptying'
     BY <1>16 DEF CloseBegin
<1>17. ASSUME NEW c \in Closers, RunHook(c) PROVE Emptying' BY <1>17 DEF RunHook
<1>18. ASSUME NEW c \in Closers, WakeWaiters(c) PROVE Emptying'
     BY <1>18 DEF WakeWaiters, Woken, Cleared
<1>19. ASSUME NEW c \in Closers, Join(c) PROVE Emptying' BY <1>19 DEF Join, Joined
<1>20. ASSUME NEW c \in Closers, Free(c) PROVE Emptying' BY <1>20 DEF Free
<1>21. CASE Snapshot BY <1>21 DEF Snapshot, SinkReturns
<1>22. CASE HandlerReturns BY <1>22 DEF HandlerReturns
<1>23. CASE PushResponse BY <1>23 DEF PushResponse
<1>24. CASE EndPump BY <1>24 DEF EndPump
<1>25. CASE WakeUp BY <1>25 DEF WakeUp, UntilClosed
<1>26. ASSUME NEW l \in Links, CallSendFn(l) PROVE Emptying'
     BY <1>26 DEF CallSendFn
<1>27. ASSUME NEW m \in Messages, Dispatch(m) PROVE Emptying'
     BY <1>27 DEF Dispatch, Taken, Mounted
<1>28. ASSUME NEW r \in Calls, RouteResponse(r) PROVE Emptying'
     BY <1>28 DEF RouteResponse, Delist
<1>29. ASSUME NEW fault \in Faults, Raise(fault) PROVE Emptying'
     BY <1>29 DEF Raise, Taken
<1>30. CASE UNCHANGED vars BY <1>30 DEF vars
<1>. QED
  BY <1>1, <1>2, <1>3, <1>4, <1>5, <1>6, <1>7, <1>8, <1>9, <1>10, <1>11, <1>12, <1>13,
      <1>14, <1>15, <1>16, <1>17, <1>18, <1>19, <1>20, <1>21, <1>22, <1>23, <1>24, <1>25,
          <1>26, <1>27, <1>28, <1>29, <1>30
  DEF Next, RequestStep, LinkStep, CloseStep, PumpStep

-----------------------------------------------------------------------------
(* The inductive invariant holds when #initialize has returned.             *)
LEMMA InitIInv == Init => IInv
<1> SUFFICES ASSUME Init PROVE IInv OBVIOUS
<1> USE Kinds DEF Init
<1>1. Types BY DEF Types, Labels, InNodeLabels, Finished
<1>2. Locking BY DEF Locking, InNodeLabels
<1>3. Waking BY DEF Waking, OneWaker
<1>4. Holding BY DEF Holding, Sent
<1>5. Hooking BY DEF Hooking
<1>6. Emptying BY DEF Emptying
<1>. QED BY <1>1, <1>2, <1>3, <1>4, <1>5, <1>6 DEF IInv

(* Every step preserves the inductive invariant.                            *)
LEMMA StepIInv == IInv /\ [Next]_vars => IInv'
BY TypesStep, LockingStep, WakingStep, HoldingStep, HookingStep, EmptyingStep DEF IInv,
    Waking

(* The inductive invariant holds throughout.                                *)
LEMMA Invariance == Spec => []IInv
BY InitIInv, StepIInv, PTL DEF Spec

(* Types are correct, and no call is ever pushed to twice.                  *)
THEOREM TypeCorrect == Spec => []TypeOK
<1>1. IInv => TypeOK BY DEF IInv, Types, Hooking, TypeOK
<1>. QED BY <1>1, Invariance, PTL

(* No libhop call is made on a node that #close has freed or is freeing     *)
(* (endpoint.rb:164-171, 180-188).                                          *)
THEOREM NoUseAfterFree == Spec => []NodeSafety
<1>1. IInv => NodeSafety BY Kinds DEF IInv, Types, Locking, NodeSafety
<1>. QED BY <1>1, Invariance, PTL

(* A blocked caller has exactly one pending wake-up, and a returned one no  *)
(* entry in @pending (endpoint.rb:83-105, 159-162, 219-222).                *)
THEOREM ExactlyOneWaker == Spec => []OneWaker
<1>1. IInv => OneWaker BY DEF IInv, Waking
<1>. QED BY <1>1, Invariance, PTL

(* "service response acceptance failed" (endpoint.rb:99) is raised only after *)
(* #close.                                                                  *)
THEOREM AcceptanceCannotFail == Spec => []HeldUntilAccepted
<1>1. IInv => HeldUntilAccepted BY DEF IInv, Holding, HeldUntilAccepted
<1>. QED BY <1>1, Invariance, PTL

(* No teardown hook is called twice, and the node is freed after every hook *)
(* ran and every caller was woken (endpoint.rb:127-132, 151-173).           *)
THEOREM OrderlyTeardown == Spec => []TeardownOrder
<1>1. ASSUME IInv, NEW h \in Hooks PROVE ran[h] <= 1
  <2>1. CASE pc[h] = "registered" BY <1>1, <2>1 DEF IInv, Hooking
  <2>2. CASE pc[h] # "registered" BY <1>1, <2>2 DEF IInv, Types, Hooking
  <2>. QED BY <2>1, <2>2
<1>2. ASSUME IInv, node = "freed"
      PROVE  /\ closed /\ pending = {}
             /\ \A h \in Hooks : pc[h] \in {"registered", "ran"} => ran[h] = 1
             /\ \A r \in Calls : pc[r] = "waiting" => queue[r] # <<>> \/ waker = r
  <2>1. closed /\ pending = {} /\ hookAt > Len(closers)
    BY <1>2 DEF IInv, Locking, Emptying
  <2>2. ASSUME NEW h \in Hooks, pc[h] = "registered" PROVE ran[h] = 1
    <3>1. PICK i \in 1..Len(closers) : closers[i] = h BY <1>2, <2>2 DEF IInv, Hooking
    <3>2. i < hookAt BY <1>2, <2>1 DEF IInv, Hooking
    <3>. QED BY <1>2, <3>1, <3>2 DEF IInv, Hooking
  <2>3. \A h \in Hooks : pc[h] = "ran" => ran[h] = 1 BY <1>2 DEF IInv, Hooking
  <2>4. \A r \in Calls : pc[r] = "waiting" => queue[r] # <<>> \/ waker = r
    BY <1>2, <2>1 DEF IInv, Waking, OneWaker
  <2>. QED BY <2>1, <2>2, <2>3, <2>4
<1>3. IInv => TeardownOrder BY <1>1, <1>2 DEF TeardownOrder
<1>. QED BY <1>3, Invariance, PTL

(* A step of a call from one label to another is a step of ServiceCall's    *)
(* call, or a stutter.                                                      *)
LEMMA CallMoves ==
  ASSUME Types, NEW r \in Calls, NEW from, NEW to, Goto(r, from, to)
  PROVE  /\ Outcome(from) # Outcome(to) => Abstract!Moves(r, Outcome(from), Outcome(to))
         /\ Outcome(from) = Outcome(to) => UNCHANGED [x \in Calls |-> Outcome(pc[x])]
<1>1. [x \in Calls |-> Outcome(pc[x])]' = [[x \in Calls |-> Outcome(pc[x])] EXCEPT ![r] = Outcome(to)]
  BY Kinds DEF Types, Goto
<1>2. from = pc[r] BY DEF Goto
<1>. QED BY <1>1, <1>2 DEF Abstract!Moves

(* A step of any other thread leaves every call where it is.                *)
LEMMA CallStays ==
  ASSUME Types, NEW t \in Threads \ Calls, NEW from, NEW to, Goto(t, from, to)
  PROVE  UNCHANGED [x \in Calls |-> Outcome(pc[x])]
BY Kinds DEF Types, Goto

(* Every step of Endpoint is a step of ServiceCall or a stutter.            *)
LEMMA CallStep ==
  ASSUME IInv, [Next]_vars
  PROVE  [Abstract!Next]_(Abstract!vars)
<1> USE Kinds DEF InNode, WithNode, callVars, mapVars, tearVars, batchVars, coreVars,
    IInv, Abstract!vars
<1>1. ASSUME NEW t \in Threads, EnterNode(t) PROVE [Abstract!Next]_(Abstract!vars)
  <2>1. CASE \E from \in {"reply", "running", "tick"} : pc[t] = from
    <3>1. t \notin Calls BY <2>1 DEF Types, Finished
    <3>. QED BY <1>1, <3>1, CallStays DEF EnterNode
  <2>2. CASE t \in Calls /\ pc[t] = "idle"
    BY <1>1, <2>2, CallMoves DEF EnterNode, Goto, Outcome, Abstract!Next, Abstract!Refuse
  <2>3. CASE t \in Calls /\ pc[t] = "popped"
    BY <1>1, <2>3, CallMoves DEF EnterNode, Goto, Outcome, Abstract!Next, Abstract!Abandon
  <2>4. CASE t \notin Calls BY <1>1, <2>4, CallStays DEF EnterNode
  <2>. QED BY <1>1, <2>1, <2>2, <2>3, <2>4 DEF EnterNode, Goto
<1>2. ASSUME NEW r \in Calls, Send(r) PROVE [Abstract!Next]_(Abstract!vars)
  <2>1. ~closed BY <1>2 DEF Send, Goto, Locking, InNodeLabels, Types
  <2>. QED BY <1>2, <2>1, CallMoves DEF Send, Outcome, Abstract!Next, Abstract!Issue
<1>3. ASSUME NEW r \in Calls, SendFails(r) PROVE [Abstract!Next]_(Abstract!vars)
  BY <1>3, CallMoves DEF SendFails, Outcome, Abstract!Next, Abstract!Refuse
<1>4. ASSUME NEW r \in Calls, Pop(r) PROVE [Abstract!Next]_(Abstract!vars)
  <2>1. CASE Head(queue[r]) = "CLOSED"
    BY <1>4, <2>1, CallMoves DEF Pop, Popped, Outcome, Abstract!Next, Abstract!Abandon
  <2>2. CASE Head(queue[r]) # "CLOSED" BY <1>4, <2>2, CallMoves DEF Pop, Popped, Outcome
  <2>. QED BY <2>1, <2>2
<1>5. ASSUME NEW r \in Calls, Expire(r) PROVE [Abstract!Next]_(Abstract!vars)
  BY <1>5, CallMoves DEF Expire, Outcome
<1>6. ASSUME NEW r \in Calls, Unregister(r) PROVE [Abstract!Next]_(Abstract!vars)
  BY <1>6, CallMoves DEF Unregister, Outcome, Abstract!Next, Abstract!Abandon
<1>7. ASSUME NEW r \in Calls, Accept(r) PROVE [Abstract!Next]_(Abstract!vars)
  <2>1. ~closed /\ response[r] = "held"
    BY <1>7 DEF Accept, Goto, Locking, Holding, InNodeLabels, Types
  <2>2. Goto(r, "accepting", "answered") BY <1>7, <2>1 DEF Accept
  <2>3. response' = [response EXCEPT ![r] = "retired"] BY <1>7, <2>1 DEF Accept
  <2>4. Abstract!Moves(r, "open", "answered") BY <2>2, CallMoves DEF Outcome
  <2>. QED BY <1>7, <2>1, <2>3, <2>4 DEF Accept, Abstract!Next, Abstract!Answer
<1>8. ASSUME NEW s \in Services, Subscribe(s) PROVE [Abstract!Next]_(Abstract!vars)
     BY <1>8, CallStays DEF Subscribe
<1>9. ASSUME NEW s \in Services, StoreHandler(s) PROVE [Abstract!Next]_(Abstract!vars)
     BY <1>9, CallStays DEF StoreHandler
<1>10. ASSUME NEW h \in Hooks, RegisterCloser(h) PROVE [Abstract!Next]_(Abstract!vars)
     BY <1>10, CallStays DEF RegisterCloser, AppendHook, LateHook
<1>11. ASSUME NEW h \in Hooks, RunHookNow(h) PROVE [Abstract!Next]_(Abstract!vars)
     BY <1>11, CallStays DEF RunHookNow
<1>12. ASSUME NEW m \in Messages, Reply(m) PROVE [Abstract!Next]_(Abstract!vars)
     BY <1>12, CallStays DEF Reply
<1>13. ASSUME NEW l \in Links, RegisterLink(l) PROVE [Abstract!Next]_(Abstract!vars)
     BY <1>13, CallStays DEF RegisterLink
<1>14. ASSUME NEW l \in Links, Deliver(l) PROVE [Abstract!Next]_(Abstract!vars)
  <2>1. CASE UNCHANGED response BY <1>14, <2>1, CallStays DEF Deliver
  <2>2. CASE response' # response
    <3>1. PICK r \in Calls : /\ response[r] = "none" /\ Sent(r)
                             /\ response' = [response EXCEPT ![r] = "held"]
      BY <1>14, <2>2 DEF Deliver, Surface
    <3>2. Outcome(pc[r]) \notin {"idle", "refused"} BY <3>1 DEF Sent, Outcome
    <3>. QED BY <1>14, <3>1, <3>2, CallStays DEF Deliver, Abstract!Next, Abstract!Arrive
  <2>. QED BY <2>1, <2>2
<1>15. ASSUME NEW l \in Links, LinkDown(l) PROVE [Abstract!Next]_(Abstract!vars)
     BY <1>15, CallStays DEF LinkDown
<1>16. ASSUME NEW c \in Closers, CloseBegin(c) PROVE [Abstract!Next]_(Abstract!vars)
     BY <1>16, CallStays DEF CloseBegin, Abstract!Next, Abstract!Shut
<1>17. ASSUME NEW c \in Closers, RunHook(c) PROVE [Abstract!Next]_(Abstract!vars)
     BY <1>17, CallStays DEF RunHook
<1>18. ASSUME NEW c \in Closers, WakeWaiters(c) PROVE [Abstract!Next]_(Abstract!vars)
     BY <1>18, CallStays DEF WakeWaiters, Woken, Cleared
<1>19. ASSUME NEW c \in Closers, Join(c) PROVE [Abstract!Next]_(Abstract!vars)
     BY <1>19, CallStays DEF Join, Joined
<1>20. ASSUME NEW c \in Closers, Free(c) PROVE [Abstract!Next]_(Abstract!vars)
     BY <1>20, CallStays DEF Free
<1>21. CASE Snapshot
  <2>1. response' = response BY <1>21 DEF Snapshot, SinkReturns, Types
  <2>. QED BY <1>21, <2>1, CallStays DEF Snapshot
<1>22. CASE HandlerReturns BY <1>22, CallStays DEF HandlerReturns
<1>23. CASE PushResponse BY <1>23, CallStays DEF PushResponse
<1>24. CASE EndPump BY <1>24, CallStays DEF EndPump
<1>25. CASE WakeUp BY <1>25, CallStays DEF WakeUp, UntilClosed
<1>26. ASSUME NEW l \in Links, CallSendFn(l) PROVE [Abstract!Next]_(Abstract!vars)
     BY <1>26, CallStays DEF CallSendFn
<1>27. ASSUME NEW m \in Messages, Dispatch(m) PROVE [Abstract!Next]_(Abstract!vars)
  BY <1>27 DEF Dispatch, Types
<1>28. ASSUME NEW r \in Calls, RouteResponse(r) PROVE [Abstract!Next]_(Abstract!vars)
     BY <1>28 DEF RouteResponse, Delist
<1>29. ASSUME NEW fault \in Faults, Raise(fault) PROVE [Abstract!Next]_(Abstract!vars)
     BY <1>29, CallStays DEF Raise, Taken
<1>30. CASE UNCHANGED vars BY <1>30 DEF vars
<1>. QED
  BY <1>1, <1>2, <1>3, <1>4, <1>5, <1>6, <1>7, <1>8, <1>9, <1>10, <1>11, <1>12, <1>13,
      <1>14, <1>15, <1>16, <1>17, <1>18, <1>19, <1>20, <1>21, <1>22, <1>23, <1>24, <1>25,
          <1>26, <1>27, <1>28, <1>29, <1>30
  DEF Next, RequestStep, LinkStep, CloseStep, PumpStep

(* #request implements ServiceCall (endpoint.rb:82-105): an answered caller *)
(* and a retired response are the same event, and only while open.          *)
THEOREM CallIsImplemented == Spec => ImplementsCall
<1>1. Init => Abstract!Init
  BY Kinds DEF Init, Abstract!Init, Outcome
<1>2. IInv /\ [Next]_vars => [Abstract!Next]_(Abstract!vars) BY CallStep
<1>. QED BY <1>1, <1>2, Invariance, PTL DEF Spec, ImplementsCall, Abstract!Safety
=============================================================================
