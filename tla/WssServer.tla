----------------------------- MODULE WssServer -----------------------------
(***************************************************************************)
(* The server of WssBearer.serve (lib/hop/wss_bearer.rb): an acceptor that  *)
(* takes a lease for every connection and queues it, a fixed pool of        *)
(* handshake workers, one thread per upgraded link, and close_server, the   *)
(* hook that Endpoint#close runs.                                           *)
(*                                                                          *)
(* A socket and the TLS socket that wraps it (SocketLease#replace) are one  *)
(* connection here: sync_close makes them close together.  What a peer      *)
(* sends is reduced to how the step that reads it ends.                     *)
(***************************************************************************)
EXTENDS Naturals, Sequences, FiniteSets

CONSTANTS
  Conns,     (* TCP connections that clients make.                          *)
  Workers,   (* HANDSHAKE_WORKERS threads.                                  *)
  Limit,     (* Permits of Admission (MAX_PENDING_CONNECTIONS).             *)
  QueueCap,  (* Capacity of the SizedQueue (MAX_PENDING_CONNECTIONS).       *)
  Acceptor, Closer,  (* The accepting thread; the thread in close_server.   *)
  None       (* No thread, no connection.                                   *)

Threads == Workers \cup {Acceptor, Closer}

ASSUME WssAssumption ==
  /\ IsFiniteSet(Conns) /\ Limit \in Nat /\ QueueCap \in Nat \ {0}
  /\ Acceptor \notin Workers /\ Closer \notin Workers /\ Acceptor # Closer
  /\ None \notin Conns \cup Threads

VARIABLES
  listener,           (* the TCPServer: "open", "shutdown" or "closed"      *)
  closing, closeLock, (* closing, and the owner of close_lock               *)
  queue, queueClosed, (* pending                                            *)
  leases,             (* the connections that Admission counts              *)
  doomed,             (* what close_all still has to close                  *)
  sock,               (* the server's side of each connection               *)
  link,               (* the link thread of each connection                 *)
  hand,               (* the connection that each thread works on           *)
  pc

serverVars == <<listener, closing, closeLock>>
queueVars  == <<queue, queueClosed>>
connVars   == <<sock, link>>
vars == <<serverVars, queueVars, leases, doomed, connVars, hand, pc>>

Goto(t, from, to) == pc[t] = from /\ pc' = [pc EXCEPT ![t] = to]
Take(t, c) == hand' = [hand EXCEPT ![t] = c]
CloseSock(c) == sock' = [sock EXCEPT ![c] = "closed"]
Release(c) == leases' = leases \ {c}                  (* SocketLease#release *)

-----------------------------------------------------------------------------
(* Clients and the application *)

Connect(c) ==
  /\ sock[c] = "none" /\ listener = "open"
  /\ sock' = [sock EXCEPT ![c] = "backlog"]
  /\ UNCHANGED <<serverVars, queueVars, leases, doomed, link, hand, pc>>

(* The application calls #shutdown on the server that #attach returned.     *)
Shutdown ==
  /\ listener = "open" /\ listener' = "shutdown"
  /\ UNCHANGED <<closing, closeLock, queueVars, leases, doomed, connVars, hand, pc>>

-----------------------------------------------------------------------------
(* The acceptor *)

Accept(c) ==
  /\ listener = "open" /\ sock[c] = "backlog"
  /\ Goto(Acceptor, "accept", "acquire") /\ Take(Acceptor, c)
  /\ sock' = [sock EXCEPT ![c] = "open"]
  /\ UNCHANGED <<serverVars, queueVars, leases, doomed, link>>

(* Accepting may fail at any time (a connection aborted in the backlog, no  *)
(* descriptor left), and does when the server was shut down (EINVAL); these *)
(* errors ask whether to go on.  IOError and EBADF end the loop.            *)
AcceptFails ==
  /\ listener = "open" /\ Goto(Acceptor, "accept", "rescue")
  /\ UNCHANGED <<serverVars, queueVars, leases, doomed, connVars, hand>>
AcceptRaises ==
  /\ listener # "open"
  /\ Goto(Acceptor, "accept", IF listener = "closed" THEN "stopped" ELSE "rescue")
  /\ UNCHANGED <<serverVars, queueVars, leases, doomed, connVars, hand>>

Rescue ==
  /\ closeLock = None /\ Goto(Acceptor, "rescue", IF closing THEN "stopped" ELSE "accept")
  /\ UNCHANGED <<serverVars, queueVars, leases, doomed, connVars, hand>>

AlmostFull == Cardinality(leases) > Limit                        (* mutant  *)
Full == Cardinality(leases) >= Limit
Acquire(c) ==
  /\ hand[Acceptor] = c
  /\ IF Full
     THEN Goto(Acceptor, "acquire", "accept") /\ Take(Acceptor, None)
          /\ CloseSock(c) /\ UNCHANGED leases
     ELSE Goto(Acceptor, "acquire", "push") /\ UNCHANGED <<hand, sock>>
          /\ leases' = leases \cup {c}
  /\ UNCHANGED <<serverVars, queueVars, doomed, link>>

Push(c) ==
  /\ hand[Acceptor] = c /\ ~queueClosed /\ Len(queue) < QueueCap
  /\ Goto(Acceptor, "push", "accept") /\ Take(Acceptor, None)
  /\ queue' = Append(queue, c)
  /\ UNCHANGED <<serverVars, queueClosed, leases, doomed, connVars>>

KeepLease(c) == leases' = leases                                 (* mutant  *)
Reject(c) == Release(c)
PushFull(c) ==
  /\ hand[Acceptor] = c /\ ~queueClosed /\ Len(queue) >= QueueCap
  /\ Goto(Acceptor, "push", "accept") /\ Take(Acceptor, None)
  /\ CloseSock(c) /\ Reject(c)
  /\ UNCHANGED <<serverVars, queueVars, doomed, link>>

(* ClosedQueueError is no ThreadError: the outer rescue handles it, and     *)
(* nobody closes or releases the connection.                                *)
PushClosed(c) ==
  /\ hand[Acceptor] = c /\ queueClosed
  /\ Goto(Acceptor, "push", "rescue") /\ Take(Acceptor, None)
  /\ UNCHANGED <<serverVars, queueVars, leases, doomed, connVars>>

-----------------------------------------------------------------------------
(* A handshake worker *)

TestClosing(w) ==
  /\ closeLock = None
  /\ Goto(w, "test", IF closing /\ queue = <<>> THEN "stopped" ELSE "pop")
  /\ UNCHANGED <<serverVars, queueVars, leases, doomed, connVars, hand>>

(* pending.pop gives what is left of a closed queue before it gives nil.    *)
PopLease(w) ==
  /\ queue # <<>>
  /\ Goto(w, "pop", "handshake") /\ Take(w, Head(queue))
  /\ queue' = Tail(queue)
  /\ UNCHANGED <<serverVars, queueClosed, leases, doomed, connVars>>

PopNothing(w) ==
  /\ queue = <<>> /\ queueClosed /\ Goto(w, "pop", "stopped")
  /\ UNCHANGED <<serverVars, queueVars, leases, doomed, connVars, hand>>

(* ssl_accept returned, and lease.replace: on to handle_conn.               *)
Handshaken(w) ==
  /\ Goto(w, "handshake", "serve") /\ sock[hand[w]] = "open"
  /\ UNCHANGED <<serverVars, queueVars, leases, doomed, connVars, hand>>

(* An error or a deadline; or a response other than 101, fully written.     *)
OnlyServing == {"serve"}                                         (* mutant  *)
UnderDeadline == {"handshake", "serve"}
NotTransferred(w) ==
  /\ pc[w] \in UnderDeadline /\ pc' = [pc EXCEPT ![w] = "cleanup"]
  /\ UNCHANGED <<serverVars, queueVars, leases, doomed, connVars, hand>>

KeepInHand(w) == Goto(w, "serve", "test") /\ UNCHANGED hand      (* mutant  *)
ReleaseTwice(w) == Goto(w, "serve", "cleanup") /\ UNCHANGED hand (* mutant  *)
HandOver(w) == Goto(w, "serve", "test") /\ Take(w, None)
(* 101 was written; the link thread owns the lease from here on.            *)
Transfer(w) ==
  /\ HandOver(w) /\ sock[hand[w]] = "open"
  /\ link' = [link EXCEPT ![hand[w]] = "running"]
  /\ UNCHANGED <<serverVars, queueVars, leases, doomed, sock>>

ReleaseOnly(c) == UNCHANGED sock /\ Release(c)                   (* mutant  *)
CleanUp(c) == CloseSock(c) /\ Release(c)
Ensure(w) ==
  /\ Goto(w, "cleanup", "test") /\ Take(w, None) /\ CleanUp(hand[w])
  /\ UNCHANGED <<serverVars, queueVars, doomed, link>>

-----------------------------------------------------------------------------
(* The link thread of a connection: run_link, then lease.release *)

(* A close frame, the end of the stream, an error or the read deadline.     *)
LinkEnds(c) ==
  /\ link[c] = "running" /\ link' = [link EXCEPT ![c] = "ending"]
  /\ CloseSock(c)
  /\ UNCHANGED <<serverVars, queueVars, leases, doomed, hand, pc>>

LinkReleases(c) ==
  /\ link[c] = "ending" /\ link' = [link EXCEPT ![c] = "done"]
  /\ Release(c)
  /\ UNCHANGED <<serverVars, queueVars, doomed, sock, hand, pc>>

-----------------------------------------------------------------------------
(* close_server *)

CloseBegin ==
  /\ closeLock = None /\ closeLock' = Closer /\ closing' = TRUE
  /\ Goto(Closer, "idle", "tcp")
  /\ UNCHANGED <<listener, queueVars, leases, doomed, connVars, hand>>

StayOpen == UNCHANGED <<listener, sock>>                         (* mutant  *)
(* The kernel resets what is left in the backlog.                           *)
CloseTcp ==
  /\ listener' = "closed"
  /\ sock' = [c \in Conns |-> IF sock[c] = "backlog" THEN "closed" ELSE sock[c]]
CloseListener ==
  /\ Goto(Closer, "tcp", "snapshot") /\ CloseTcp
  /\ UNCHANGED <<closing, closeLock, queueVars, leases, doomed, link, hand>>

CloseSnapshot ==
  /\ Goto(Closer, "snapshot", "sockets") /\ doomed' = leases
  /\ UNCHANGED <<serverVars, queueVars, leases, connVars, hand>>

CloseLeased(c) ==
  /\ pc[Closer] = "sockets" /\ c \in doomed /\ doomed' = doomed \ {c}
  /\ CloseSock(c)
  /\ UNCHANGED <<serverVars, queueVars, leases, link, hand, pc>>

CloseQueue ==
  /\ doomed = {} /\ Goto(Closer, "sockets", "done")
  /\ queueClosed' = TRUE /\ closeLock' = None
  /\ UNCHANGED <<listener, closing, queue, leases, doomed, connVars, hand>>

-----------------------------------------------------------------------------
Init ==
  /\ listener = "open" /\ closing = FALSE /\ closeLock = None
  /\ queue = <<>> /\ queueClosed = FALSE /\ leases = {} /\ doomed = {}
  /\ sock = [c \in Conns |-> "none"] /\ link = [c \in Conns |-> "none"]
  /\ hand = [t \in Threads |-> None]
  /\ pc = [t \in Threads |-> IF t = Acceptor THEN "accept"
                             ELSE IF t = Closer THEN "idle" ELSE "test"]

AcceptorStep ==
  \/ AcceptRaises \/ Rescue
  \/ \E c \in Conns : Accept(c) \/ Acquire(c) \/ Push(c) \/ PushFull(c) \/ PushClosed(c)
WorkerStep(w) ==
  TestClosing(w) \/ PopLease(w) \/ PopNothing(w) \/ NotTransferred(w) \/ Ensure(w)
CloserStep == CloseListener \/ CloseSnapshot \/ CloseQueue \/ \E c \in Conns : CloseLeased(c)

Next ==
  \/ AcceptorStep \/ AcceptFails \/ CloseBegin \/ CloserStep \/ Shutdown
  \/ \E w \in Workers : WorkerStep(w) \/ Handshaken(w) \/ Transfer(w)
  \/ \E c \in Conns : Connect(c) \/ LinkEnds(c) \/ LinkReleases(c)

Spec == Init /\ [][Next]_vars

(* Threads run; what a peer must help with (Handshaken, Transfer, the end   *)
(* of a link) may never come, but every handshake ends by its deadline and  *)
(* every link whose socket was closed does end.                             *)
FairSpec ==
  /\ Spec /\ WF_vars(AcceptorStep) /\ WF_vars(CloserStep)
  /\ \A w \in Workers : WF_vars(WorkerStep(w))
  /\ \A c \in Conns : WF_vars(sock[c] = "closed" /\ LinkEnds(c)) /\ WF_vars(LinkReleases(c))

-----------------------------------------------------------------------------
(* Properties *)

(* Who is responsible for closing and releasing a leased connection.        *)
InQueue(c) == \E i \in 1..Len(queue) : queue[i] = c
InHand(t, c) == hand[t] = c /\ (t = Acceptor => pc[t] = "push")
OnLink(c) == link[c] \in {"running", "ending"}
Owned(c) == InQueue(c) \/ OnLink(c) \/ \E t \in Threads : InHand(t, c)

(* Types; a worker has a connection in hand exactly while it works on one.  *)
TypeOK ==
  /\ listener \in {"open", "shutdown", "closed"} /\ closing \in BOOLEAN
  /\ closeLock \in {None, Closer} /\ queueClosed \in BOOLEAN
  /\ queue \in Seq(Conns) /\ leases \subseteq Conns /\ doomed \subseteq Conns
  /\ sock \in [Conns -> {"none", "backlog", "open", "closed"}]
  /\ link \in [Conns -> {"none", "running", "ending", "done"}]
  /\ hand \in [Threads -> Conns \cup {None}]
  /\ \A w \in Workers : hand[w] # None <=> pc[w] \in {"handshake", "serve", "cleanup"}
  /\ pc \in [Threads -> {"accept", "acquire", "push", "rescue", "test", "pop", "handshake",
       "serve", "cleanup", "idle", "tcp", "snapshot", "sockets", "done", "stopped"}]

(* Every connection with a lease has one owner, and only those with a lease *)
(* have one (wss_bearer.rb:311-322, 331-341, 363-371): nothing is released  *)
(* twice or served by two threads.                                          *)
OneOwner ==
  \A c \in Conns :
    /\ Owned(c) => c \in leases
    /\ \A i, j \in 1..Len(queue) : queue[i] = c /\ queue[j] = c => i = j
    /\ \A t, u \in Threads : InHand(t, c) /\ InHand(u, c) => t = u
    /\ InQueue(c) => ~OnLink(c) /\ \A t \in Threads : ~InHand(t, c)
    /\ OnLink(c) => \A t \in Threads : ~InHand(t, c)

(* A permit is lost only to the race with #close (wss_bearer.rb:336-347).   *)
NoLostPermit == \A c \in leases : Owned(c) \/ queueClosed

(* The cap (wss_bearer.rb:188-196) bounds all connections together: in the  *)
(* queue, in a worker and on a link; and a socket is open only under it.    *)
WithinLimit ==
  /\ Cardinality(leases) <= Limit
  /\ \A c \in Conns : sock[c] = "open" => c \in leases \/ hand[Acceptor] = c

(* With a queue as large as the cap the queue is never full at a push, so   *)
(* the branch of wss_bearer.rb:338-340 is never taken.                      *)
RoomInQueue == QueueCap >= Limit /\ pc[Acceptor] = "push" => Len(queue) < QueueCap

(* close_server closes every socket but the one that the acceptor may have  *)
(* had in its hand (wss_bearer.rb:295-297, 330-337).                        *)
OneEscapes == pc[Closer] = "done" => Cardinality({c \in Conns : sock[c] = "open"}) <= 1

(* #close stops the acceptor and every worker (wss_bearer.rb:295-297, 306,  *)
(* 342-347), also when the listener was shut down before; and while nobody  *)
(* has closed or shut down the listener no error of accept stops the        *)
(* acceptor, which would leave an open server that nobody can reach.        *)
PoolStops ==
  /\ [](pc[Acceptor] = "stopped" => closing \/ listener = "shutdown")
  /\ closing ~> \A t \in Workers \cup {Acceptor} : pc[t] = "stopped"

(* "Returns the server (call #shutdown to stop)" (endpoint.rb:111): a       *)
(* server that was shut down stops to accept.                               *)
ShutdownStops == listener = "shutdown" ~> pc[Acceptor] = "stopped"

(* A queued connection does not wait forever for a worker, although stalled *)
(* peers occupy them (test_hop.rb:149-150): it becomes a link or is closed. *)
QueueMoves == \A c \in Conns : InQueue(c) ~> OnLink(c) \/ sock[c] = "closed"

(* "#close runs these before freeing the node so bearer threads unblock and *)
(* exit" (endpoint.rb:127-128).                                             *)
BearerThreadsExit ==
  closing ~> /\ \A t \in Workers \cup {Acceptor} : pc[t] = "stopped"
             /\ \A c \in Conns : ~OnLink(c)
=============================================================================
