------------------------------ MODULE Endpoint ------------------------------
(***************************************************************************)
(* Hop::Endpoint (lib/hop/endpoint.rb): one libhop node shared by the pump  *)
(* thread, the threads that call #request, #on, #register_closer and        *)
(* #close, the threads that reply to a request, and the bearer threads.     *)
(*                                                                          *)
(* Every libhop call runs inside #with_node.  The model splits each         *)
(* #with_node into taking @node_lock (WithNode) and the block run under it  *)
(* (InNode), so that what other threads do in between is explored.  Core    *)
(* itself is external: only what the endpoint can observe of it is kept.    *)
(***************************************************************************)
EXTENDS Naturals, Sequences, FiniteSets

CONSTANTS
  Calls,      (* Invocations of #request; core gives each a fresh id.       *)
  Messages,   (* Service requests that peers address to this endpoint.      *)
  Services,   (* Services given to #on, one invocation each.                *)
  ServiceOf,  (* The service a message is addressed to.                     *)
  Links,      (* Bearer threads, each carrying one link.                    *)
  Hooks,      (* Invocations of #register_closer.                           *)
  Closers,    (* Invocations of #close.                                     *)
  Nested,     (* The calls and closes that a handler may make.              *)
  Faults,     (* What application code may raise out of #pump.              *)
  Pump,       (* The pump thread.                                           *)
  Nobody      (* No thread, no waiter.                                      *)

Others == Calls \cup Messages \cup Services \cup Links \cup Hooks \cup Closers
Threads == Others \cup {Pump}

ASSUME EndpointAssumption ==
  /\ Calls \cap (Messages \cup Services \cup Links \cup Hooks \cup Closers) = {}
  /\ Messages \cap (Services \cup Links \cup Hooks \cup Closers) = {}
  /\ Services \cap (Links \cup Hooks \cup Closers) = {}
  /\ Links \cap (Hooks \cup Closers) = {} /\ Hooks \cap Closers = {}
  /\ Pump \notin Others /\ Nobody \notin Threads
  /\ ServiceOf \in [Messages -> Services]
  /\ Nested \subseteq Calls \cup Closers
  /\ Faults \subseteq {"standard", "fatal"}

VARIABLES
  closed, lock, node,     (* @closed, the owner of @node_lock, and @node    *)
  pc,                     (* where each thread is                           *)
  pending, queue, waker,  (* @pending, each call's q, and the q that #pump  *)
                          (* took out of @pending and is about to push to   *)
  handlers, links,        (* @handlers and @links, as their key sets        *)
  closers, hookAt, ran,   (* @closers, the position of #close in it, and    *)
                          (* how often each hook was called                 *)
  outgoing, routing,      (* what is left of #pump's snapshot; its requests *)
                          (* are the messages that are "taken"              *)
  subscribed, up,         (* core: subscribed services, links it has up     *)
  message, response,      (* core: fate of each request and response        *)
  onPump                  (* the calls and closes of Nested that a handler  *)
                          (* makes, on the pump thread; fixed at the start  *)

callVars  == <<pending, queue, waker>>
mapVars   == <<handlers, links>>
tearVars  == <<closed, node, closers, hookAt, ran>>
batchVars == <<outgoing, routing>>
coreVars  == <<subscribed, up, message, response>>
vars == <<lock, pc, callVars, mapVars, tearVars, batchVars, coreVars, onPump>>

-----------------------------------------------------------------------------
(* Control: a thread moves between labels; those in InNodeLabels are inside *)
(* a #with_node block, those in Finished have returned to their caller.     *)

InNodeLabels == {"sending", "accepting", "replying", "subscribing",
                 "connecting", "receiving", "disconnecting", "snapshot"}
Finished == {"answered", "timedout", "closed", "refused", "failed",
             "unaccepted", "returned", "raised"}
Labels == InNodeLabels \cup Finished \cup
  {"idle", "waiting", "expired", "popped", "reply", "replied", "lost",
   "running", "gone", "storing", "mounted", "registered", "run_now", "ran",
   "hooks", "join", "free", "tick", "batch", "handler", "sleep", "stopped",
   "died"}

Goto(t, from, to) == pc[t] = from /\ pc' = [pc EXCEPT ![t] = to]

(* Mutant: with_node does not test @closed.                                 *)
WithNodeUnchecked(t, from, block, nil) ==
  lock = Nobody /\ Goto(t, from, block) /\ lock' = t
(* with_node: take the lock, or give nil when the endpoint is closed.       *)
WithNode(t, from, block, nil) ==
  /\ lock = Nobody
  /\ \/ ~closed /\ Goto(t, from, block) /\ lock' = t
     \/ closed /\ Goto(t, from, nil) /\ UNCHANGED lock

(* The block of a with_node, which ends by releasing the lock.              *)
InNode(t, block, next) == Goto(t, block, next) /\ lock' = Nobody

(* What a handler invoked and still waits for, on the pump thread.          *)
Inner == {t \in onPump : pc[t] \notin Finished \cup {"idle"}}
MayStart(t) == t \in onPump => pc[Pump] = "handler" /\ Inner = {}

-----------------------------------------------------------------------------
(* Every entry into a with_node block: where the thread comes from, the     *)
(* block it enters, and where it goes on when the endpoint is closed.       *)
EnterNode(t) ==
  /\ \/ t \in Calls /\ MayStart(t) /\ WithNode(t, "idle", "sending", "refused")
     \/ WithNode(t, "popped", "accepting", "unaccepted")
     \/ WithNode(t, "reply", "replying", "lost")
     \/ t \in Services /\ WithNode(t, "idle", "subscribing", "storing")
     \/ t \in Links /\ WithNode(t, "idle", "connecting", "running")
     \/ WithNode(t, "running", "receiving", "running")
     \/ WithNode(t, "running", "disconnecting", "gone")
     \/ WithNode(t, "tick", "snapshot", "sleep")
  /\ UNCHANGED <<callVars, mapVars, tearVars, batchVars, coreVars, onPump>>

-----------------------------------------------------------------------------
(* @pending[id] = q and @pending.delete(id), and what #request does with    *)
(* the item that it popped.                                                 *)
Forgotten(r) == pending                                          (* mutant  *)
Enlist(r) == pending \cup {r}
Kept(r) == pending                                               (* mutant  *)
Delist(r) == pending \ {r}
Unchecked(item) == IF item = "CLOSED" THEN "closed" ELSE "answered"  (* mutant *)
Popped(item) == IF item = "CLOSED" THEN "closed" ELSE "popped"

(* #request *)

(* hop_send_service_request, then @pending[id] = q under the same lock.     *)
Send(r) ==
  /\ InNode(r, "sending", "waiting")
  /\ pending' = Enlist(r)
  /\ UNCHANGED <<queue, waker, mapVars, tearVars, batchVars, coreVars, onPump>>

SendFails(r) ==
  /\ InNode(r, "sending", "failed")
  /\ UNCHANGED <<callVars, mapVars, tearVars, batchVars, coreVars, onPump>>

Pop(r) ==
  /\ queue[r] # <<>>
  /\ Goto(r, "waiting", Popped(Head(queue[r])))
  /\ queue' = [queue EXCEPT ![r] = Tail(@)]
  /\ UNCHANGED <<lock, pending, waker, mapVars, tearVars, batchVars, coreVars, onPump>>

(* Timeout::Error may win over a value that is already in the queue.        *)
Expire(r) ==
  /\ Goto(r, "waiting", "expired")
  /\ UNCHANGED <<lock, callVars, mapVars, tearVars, batchVars, coreVars, onPump>>

(* Mutant: a timeout waits once more instead of raising.                    *)
WaitAgain(r) ==
  /\ Goto(r, "expired", "waiting")
  /\ UNCHANGED <<lock, callVars, mapVars, tearVars, batchVars, coreVars, onPump>>

Unregister(r) ==
  /\ Goto(r, "expired", "timedout")
  /\ pending' = Delist(r)
  /\ UNCHANGED <<lock, queue, waker, mapVars, tearVars, batchVars, coreVars, onPump>>

(* hop_accept_service_response retires the response that core still holds.  *)
Accept(r) ==
  /\ InNode(r, "accepting", IF response[r] = "held" THEN "answered" ELSE "unaccepted")
  /\ response' = [response EXCEPT ![r] = IF @ = "held" THEN "retired" ELSE @]
  /\ UNCHANGED <<callVars, mapVars, tearVars, batchVars, subscribed, up, message, onPump>>

-----------------------------------------------------------------------------
(* #on, #register_closer, and the reply lambda of a dispatched request *)

Subscribe(s) ==
  /\ InNode(s, "subscribing", "storing")
  /\ subscribed' = subscribed \cup {s}
  /\ UNCHANGED <<callVars, mapVars, tearVars, batchVars, up, message, response, onPump>>

StoreHandler(s) ==
  /\ Goto(s, "storing", "mounted")
  /\ handlers' = handlers \cup {s}
  /\ UNCHANGED <<lock, callVars, links, tearVars, batchVars, coreVars, onPump>>

(* A hook that comes after @closed was set is run and not appended.         *)
AppendHook(h) == IF closed THEN closers ELSE Append(closers, h)
IgnoreLate == "registered"                                       (* mutant  *)
LateHook == IF closed THEN "run_now" ELSE "registered"
RegisterCloser(h) ==
  /\ lock = Nobody
  /\ Goto(h, "idle", LateHook)
  /\ closers' = AppendHook(h)
  /\ UNCHANGED <<lock, callVars, mapVars, closed, node, hookAt, ran, batchVars, coreVars, onPump>>

RunHookNow(h) ==
  /\ Goto(h, "run_now", "ran")
  /\ ran' = [ran EXCEPT ![h] = @ + 1]
  /\ UNCHANGED <<lock, callVars, mapVars, closed, node, closers, hookAt, batchVars, coreVars, onPump>>

Reply(m) ==
  /\ InNode(m, "replying", "replied")
  /\ UNCHANGED <<callVars, mapVars, tearVars, batchVars, coreVars, onPump>>

-----------------------------------------------------------------------------
(* The bearer seam: #register_link, #deliver, #link_down *)

RegisterLink(l) ==
  /\ InNode(l, "connecting", "running")
  /\ links' = links \cup {l} /\ up' = up \cup {l}
  /\ UNCHANGED <<callVars, handlers, tearVars, batchVars, subscribed, message, response, onPump>>

(* Core: bytes on a link that is up may complete a request to a subscribed  *)
(* service, or the response to a call that was sent.                        *)
Sent(r) == pc[r] \notin {"idle", "sending", "refused", "failed"}
Surface ==
  \/ \E m \in Messages :
       /\ message[m] = "away" /\ ServiceOf[m] \in subscribed
       /\ message' = [message EXCEPT ![m] = "inbox"] /\ UNCHANGED response
  \/ \E r \in Calls :
       /\ response[r] = "none" /\ Sent(r)
       /\ response' = [response EXCEPT ![r] = "held"] /\ UNCHANGED message
  \/ UNCHANGED <<message, response>>

Deliver(l) ==
  /\ InNode(l, "receiving", "running")
  /\ IF l \in up THEN Surface ELSE UNCHANGED <<message, response>>
  /\ UNCHANGED <<callVars, mapVars, tearVars, batchVars, subscribed, up, onPump>>

LinkDown(l) ==
  /\ InNode(l, "disconnecting", "gone")
  /\ links' = links \ {l} /\ up' = up \ {l}
  /\ UNCHANGED <<callVars, handlers, tearVars, batchVars, subscribed, message, response, onPump>>

-----------------------------------------------------------------------------
(* #close *)

CloseBegin(c) ==
  /\ MayStart(c) /\ lock = Nobody
  /\ Goto(c, "idle", IF closed THEN "returned" ELSE "hooks")
  /\ closed' = TRUE
  /\ UNCHANGED <<lock, callVars, mapVars, node, closers, hookAt, ran, batchVars, coreVars, onPump>>

RunHook(c) ==
  /\ pc[c] = "hooks" /\ hookAt <= Len(closers)
  /\ ran' = [ran EXCEPT ![closers[hookAt]] = @ + 1]
  /\ hookAt' = hookAt + 1
  /\ UNCHANGED <<lock, pc, callVars, mapVars, closed, node, closers, batchVars, coreVars, onPump>>

NotWoken(r) == queue[r]                                          (* mutant  *)
Woken(r) == IF r \in pending THEN Append(queue[r], "CLOSED") ELSE queue[r]
NotCleared == pending                                            (* mutant  *)
Cleared == {}

(* All hooks were called: wake every pending caller with CLOSED.            *)
WakeWaiters(c) ==
  /\ hookAt > Len(closers)
  /\ Goto(c, "hooks", "join")
  /\ queue' = [r \in Calls |-> Woken(r)]
  /\ pending' = Cleared
  /\ UNCHANGED <<lock, waker, mapVars, tearVars, batchVars, coreVars, onPump>>

(* @thread.join(1), unless on the pump: it gives up after a second, so that *)
(* it may find the pump at any label, and raises the exception that killed  *)
(* it, if one did.  Then #close ends here, and the node is never freed: the *)
(* next #close returns at once.                                             *)
JoinsItself(c) == IF c \in onPump \/ pc[Pump] = "died" THEN "raised" ELSE "free"  (* mutant *)
Joined(c) == IF c \notin onPump /\ pc[Pump] = "died" THEN "raised" ELSE "free"
Join(c) ==
  /\ Goto(c, "join", Joined(c))
  /\ UNCHANGED <<lock, callVars, mapVars, tearVars, batchVars, coreVars, onPump>>

Free(c) ==
  /\ lock = Nobody
  /\ Goto(c, "free", "returned")
  /\ node' = "freed"
  /\ UNCHANGED <<lock, callVars, mapVars, closed, closers, hookAt, ran, batchVars, coreVars, onPump>>

-----------------------------------------------------------------------------
(* #pump_loop and #pump *)

Taken == {m \in Messages : message[m] = "taken"}

(* Core hands over any packets for links it has up, and every request; it   *)
(* keeps a response until it is accepted, unless the sink returns 1.        *)
SinkReturnsOne == 1                                              (* mutant  *)
SinkReturns == 0
Snapshot ==
  /\ InNode(Pump, "snapshot", "batch")
  /\ \E packets \in SUBSET up : outgoing' = packets \cap links
  /\ routing' = {r \in Calls : response[r] = "held"}
  /\ response' = [r \in Calls |->
       IF response[r] = "held" /\ SinkReturns = 1 THEN "retired" ELSE response[r]]
  /\ message' = [m \in Messages |-> IF message[m] = "inbox" THEN "taken" ELSE message[m]]
  /\ UNCHANGED <<callVars, mapVars, tearVars, subscribed, up, onPump>>

CallSendFn(l) ==
  /\ pc[Pump] = "batch" /\ l \in outgoing
  /\ outgoing' = outgoing \ {l}
  /\ UNCHANGED <<lock, pc, callVars, mapVars, tearVars, routing, coreVars, onPump>>

Mounted(m) == ServiceOf[m] \in handlers

Dispatch(m) ==
  /\ pc[Pump] = "batch" /\ outgoing = {} /\ m \in Taken
  /\ IF Mounted(m)
     THEN /\ message' = [message EXCEPT ![m] = "handled"]
          /\ pc' = [pc EXCEPT ![Pump] = "handler", ![m] = "reply"]
     ELSE message' = [message EXCEPT ![m] = "dropped"] /\ UNCHANGED pc
  /\ UNCHANGED <<lock, callVars, mapVars, tearVars, batchVars, subscribed, up, response, onPump>>

HandlerReturns ==
  /\ Inner = {} /\ Goto(Pump, "handler", "batch")
  /\ UNCHANGED <<lock, callVars, mapVars, tearVars, batchVars, coreVars, onPump>>

(* A StandardError out of a handler or a send_fn ends #pump, which loses    *)
(* the rest of the snapshot; any other exception ends the pump thread.      *)
Raise(fault) ==
  /\ \/ pc[Pump] = "handler" /\ Inner = {}
     \/ pc[Pump] = "batch" /\ outgoing # {} /\ fault = "standard"
  /\ pc' = [pc EXCEPT ![Pump] = IF fault = "standard" THEN "sleep" ELSE "died"]
  /\ outgoing' = {} /\ routing' = {}
  /\ message' = [m \in Messages |-> IF m \in Taken THEN "lost" ELSE message[m]]
  /\ UNCHANGED <<lock, callVars, mapVars, tearVars, subscribed, up, response, onPump>>

RouteResponse(r) ==
  /\ pc[Pump] = "batch" /\ outgoing = {} /\ Taken = {}
  /\ waker = Nobody /\ r \in routing
  /\ routing' = routing \ {r}
  /\ waker' = IF r \in pending THEN r ELSE Nobody
  /\ pending' = Delist(r)
  /\ UNCHANGED <<lock, pc, queue, mapVars, tearVars, outgoing, coreVars, onPump>>

PushResponse ==
  /\ waker # Nobody
  /\ queue' = [queue EXCEPT ![waker] = Append(@, "response")]
  /\ waker' = Nobody
  /\ UNCHANGED <<lock, pc, pending, mapVars, tearVars, batchVars, coreVars, onPump>>

EndPump ==
  /\ outgoing = {} /\ Taken = {} /\ routing = {} /\ waker = Nobody
  /\ Goto(Pump, "batch", "sleep")
  /\ UNCHANGED <<lock, callVars, mapVars, tearVars, batchVars, coreVars, onPump>>

UntilClosed == IF closed THEN "stopped" ELSE "tick"

(* sleep(dt), then the test of `until @closed`, which takes no lock.        *)
WakeUp ==
  /\ Goto(Pump, "sleep", UntilClosed)
  /\ UNCHANGED <<lock, callVars, mapVars, tearVars, batchVars, coreVars, onPump>>

-----------------------------------------------------------------------------
(* #initialize has returned: the node is live and the pump was started.     *)
Init ==
  /\ closed = FALSE /\ lock = Nobody /\ node = "live"
  /\ pc = [t \in Threads |-> IF t = Pump THEN "tick" ELSE "idle"]
  /\ pending = {} /\ queue = [r \in Calls |-> <<>>] /\ waker = Nobody
  /\ handlers = {} /\ links = {}
  /\ closers = <<>> /\ hookAt = 1 /\ ran = [h \in Hooks |-> 0]
  /\ outgoing = {} /\ routing = {}
  /\ subscribed = {} /\ up = {}
  /\ message = [m \in Messages |-> "away"]
  /\ response = [r \in Calls |-> "none"] /\ onPump \in SUBSET Nested

RequestStep(r) == Send(r) \/ SendFails(r) \/ Pop(r) \/ Unregister(r) \/ Accept(r)
CloseStep(c) == RunHook(c) \/ WakeWaiters(c) \/ Join(c) \/ Free(c)
LinkStep(l) == RegisterLink(l) \/ Deliver(l) \/ LinkDown(l)
PumpStep ==
  \/ Snapshot \/ HandlerReturns \/ PushResponse \/ EndPump \/ WakeUp
  \/ \E l \in Links : CallSendFn(l)
  \/ \E m \in Messages : Dispatch(m)
  \/ \E r \in Calls : RouteResponse(r)

Next ==
  \/ \E t \in Threads : EnterNode(t)
  \/ \E r \in Calls : RequestStep(r) \/ Expire(r)
  \/ \E s \in Services : Subscribe(s) \/ StoreHandler(s)
  \/ \E h \in Hooks : RegisterCloser(h) \/ RunHookNow(h)
  \/ \E m \in Messages : Reply(m)
  \/ \E l \in Links : LinkStep(l)
  \/ \E c \in Closers : CloseBegin(c) \/ CloseStep(c)
  \/ PumpStep
  \/ \E fault \in Faults : Raise(fault)

Spec == Init /\ [][Next]_vars

(* Fairness: a thread that holds the lock, or needs none, goes on; one that *)
(* waits for the lock gets it, since it is free over and over (the pump     *)
(* sleeps between ticks).  Applications may stop, and timers are not fair.  *)
Resume(t) == pc[t] \in {"popped", "tick"} /\ EnterNode(t)
FairSpec ==
  /\ Spec /\ WF_vars(PumpStep)
  /\ \A t \in Calls \cup {Pump} : SF_vars(Resume(t))
  /\ \A r \in Calls : WF_vars(RequestStep(r))
  /\ \A s \in Services : WF_vars(Subscribe(s) \/ StoreHandler(s))
  /\ \A h \in Hooks : WF_vars(RunHookNow(h))
  /\ \A m \in Messages : WF_vars(Reply(m))
  /\ \A l \in Links : WF_vars(pc[l] \in InNodeLabels /\ LinkStep(l))
  /\ \A c \in Closers : SF_vars(CloseStep(c))

(* The timer of every call fires in the end.                                *)
Timers == \A r \in Calls : WF_vars(Expire(r))
TimedSpec == FairSpec /\ Timers

-----------------------------------------------------------------------------
(* Properties *)

(* Every variable has its type; a call's queue never holds more than one    *)
(* item, so neither #close nor #pump ever pushes to a call twice.           *)
TypeOK ==
  /\ closed \in BOOLEAN /\ lock \in Threads \cup {Nobody}
  /\ node \in {"live", "freed"} /\ pc \in [Threads -> Labels]
  /\ pending \subseteq Calls /\ waker \in Calls \cup {Nobody}
  /\ queue \in [Calls -> {<<>>, <<"response">>, <<"CLOSED">>}]
  /\ handlers \subseteq Services /\ links \subseteq Links
  /\ closers \in Seq(Hooks) /\ hookAt \in Nat \ {0} /\ ran \in [Hooks -> Nat]
  /\ outgoing \subseteq Links /\ routing \subseteq Calls
  /\ subscribed \subseteq Services /\ up \subseteq Links
  /\ message \in [Messages -> {"away", "inbox", "taken", "handled", "dropped", "lost"}]
  /\ response \in [Calls -> {"none", "held", "retired"}] /\ onPump \subseteq Nested

(* No use after free (endpoint.rb:164-171, 180-188): whoever is inside a    *)
(* with_node block owns the lock, alone, and its node is live and not being *)
(* closed, whatever #close does meanwhile.                                  *)
NodeSafety ==
  \A t \in Threads : pc[t] \in InNodeLabels => lock = t /\ node = "live" /\ ~closed

(* A waiting call has exactly one thing that will wake it, wherever #pump   *)
(* and #close are in handing it over (endpoint.rb:159-162, 219-222): its    *)
(* entry in @pending, the pump that took the entry out, or the item in its  *)
(* queue.  A call that returned left no entry in @pending.                  *)
OneWaker ==
  \A r \in Calls :
    /\ r \in pending => waker # r /\ queue[r] = <<>> /\ pc[r] \in {"waiting", "expired"}
    /\ waker = r => queue[r] = <<>>
    /\ pc[r] = "waiting" => r \in pending \/ waker = r \/ queue[r] # <<>>
    /\ pc[r] \in {"popped", "accepting"} => queue[r] = <<>>

(* A response handed to a caller is still held by core, so that its         *)
(* acceptance (endpoint.rb:98-99) can fail only because of #close.          *)
HeldUntilAccepted ==
  \A r \in Calls :
    /\ pc[r] \in {"popped", "accepting"} => response[r] = "held"
    /\ pc[r] = "unaccepted" => closed /\ response[r] = "held"

(* No hook is called twice, by #close and by a registration that came late  *)
(* (endpoint.rb:127-132, 157), and when the node is freed                   *)
(* (endpoint.rb:151-173) every registered hook was called, no call is       *)
(* registered as waiting, and each one that still waits has been woken or   *)
(* is about to be.                                                          *)
TeardownOrder ==
  /\ \A h \in Hooks : ran[h] <= 1
  /\ node = "freed" =>
       /\ closed /\ pending = {}
       /\ \A h \in Hooks : pc[h] \in {"registered", "ran"} => ran[h] = 1
       /\ \A r \in Calls : pc[r] = "waiting" => queue[r] # <<>> \/ waker = r

(* #request is an implementation of ServiceCall.                            *)
Outcome(label) ==
  CASE label \in {"idle", "sending"} -> "idle"
    [] label \in {"waiting", "expired", "popped", "accepting"} -> "open"
    [] label \in {"refused", "failed"} -> "refused"
    [] label = "answered" -> "answered"
    [] OTHER -> "raised"
Abstract == INSTANCE ServiceCall
  WITH open <- ~closed, call <- [r \in Calls |-> Outcome(pc[r])]

(* Every issued call is answered only while open, in the step that retires  *)
(* its response.                                                            *)
ImplementsCall == Abstract!Safety
(* ... and, given the timers, does return (endpoint.rb:96-103).             *)
TimedCallReturns == Timers => Abstract!Fairness

(* #close wakes a waiting caller without the help of its timer, also one    *)
(* that blocks the pump from within a handler (endpoint.rb:158-162).        *)
CloseFailsFast == \A r \in Calls : closed /\ pc[r] = "waiting" ~> pc[r] # "waiting"

(* After #close the pump ends and the node is freed (endpoint.rb:151-173,   *)
(* 190-199), also when #close runs on the pump; unless an exception of a    *)
(* handler has killed the pump, which #close then raises to its caller.     *)
TeardownEnds ==
  closed ~> \/ node = "freed" /\ pc[Pump] \in {"stopped", "died"}
            \/ pc[Pump] = "died" /\ \E c \in Closers : pc[c] = "raised"

(* A caller gets a response that arrived without its timer                  *)
(* (endpoint.rb:82), also when a handler or a send function has raised and  *)
(* the snapshot with the response was lost: core still holds it, and it     *)
(* comes with a later one, when they no longer raise at every tick.  Only a *)
(* call made on the pump, or the death of the pump, may keep it waiting.    *)
NoMoreRaised == <>[][\A fault \in Faults : ~Raise(fault)]_vars
AnswerArrives ==
  NoMoreRaised => \A r \in Calls :
    response[r] = "held" /\ pc[r] = "waiting" ~>
      pc[r] # "waiting" \/ Inner # {} \/ pc[Pump] = "died"


(* "Held, never dropped" (README.md:21).                                    *)
NeverDropped == \A m \in Messages : message[m] # "dropped"
=============================================================================
