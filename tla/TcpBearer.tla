----------------------------- MODULE TcpBearer -----------------------------
(***************************************************************************)
(* The raw-TCP bearer (lib/hop/tcp_bearer.rb): the accept thread and the    *)
(* hook of TcpBearer.listen, TcpBearer.dial, and one recv_loop thread per   *)
(* link.  Of the endpoint only what the bearer calls is kept: whether it is *)
(* open, the links it registered, and the hooks that #close runs.           *)
(***************************************************************************)
EXTENDS Naturals, FiniteSets

CONSTANTS
  Incoming,  (* Connections that peers make to the listener.                *)
  Dialled,   (* Invocations of TcpBearer.dial, one connection each.         *)
  Errors,    (* TRUE: accept and read may also fail for transient reasons   *)
             (* that the code does not name (ECONNABORTED, ETIMEDOUT).      *)
  Nobody     (* Nobody holds sockets_mutex.                                 *)

Conns == Incoming \cup Dialled
ASSUME TcpAssumption ==
  Incoming \cap Dialled = {} /\ Nobody \notin Conns \cup {"hook"} /\ Errors \in BOOLEAN

VARIABLES
  open,             (* the endpoint was not closed                          *)
  up, hooks,        (* its links; the dialled sockets it will close         *)
  closer,           (* where Endpoint#close is                              *)
  listening,        (* the TCPServer is open                                *)
  closing, mutex,   (* closing, and the owner of sockets_mutex              *)
  sockets,          (* the accepted sockets that the hook would close       *)
  acceptor, hand,   (* the accept thread, and the connection it accepted    *)
  sock, thread      (* each connection's socket, and who runs it            *)

endpointVars == <<open, up, hooks, closer>>
listenVars   == <<listening, closing, mutex, sockets>>
acceptVars   == <<acceptor, hand>>
vars == <<endpointVars, listenVars, acceptVars, sock, thread>>

Set(f, c, v) == f' = [f EXCEPT ![c] = v]
Moves(c, from, to) == thread[c] = from /\ Set(thread, c, to)
Register(c) == up' = IF open THEN up \cup {c} ELSE up     (* #register_link *)
LinkDown(c) == up' = IF open THEN up \ {c} ELSE up        (* #link_down     *)

-----------------------------------------------------------------------------
(* The accept thread *)

Connect(c) ==
  /\ listening /\ sock[c] = "none" /\ Set(sock, c, "backlog")
  /\ UNCHANGED <<endpointVars, listenVars, acceptVars, thread>>

Accept(c) ==
  /\ acceptor = "accept" /\ listening /\ sock[c] = "backlog"
  /\ acceptor' = "insert" /\ hand' = c /\ Set(sock, c, "open")
  /\ UNCHANGED <<endpointVars, listenVars, thread>>

(* Any StandardError ends the loop, not only that of a closed listener.     *)
AcceptBreaks ==
  /\ acceptor = "accept" /\ (listening => Errors) /\ acceptor' = "stopped"
  /\ UNCHANGED <<endpointVars, listenVars, hand, sock, thread>>

NeverRejects == FALSE                                            (* mutant  *)
Rejects == closing
Insert(c) ==
  /\ acceptor = "insert" /\ hand = c /\ mutex = Nobody
  /\ IF Rejects
     THEN acceptor' = "reject" /\ UNCHANGED sockets
     ELSE acceptor' = "register" /\ sockets' = sockets \cup {c}
  /\ UNCHANGED <<endpointVars, listening, closing, mutex, hand, sock, thread>>

KeepInHand(c) ==                                                 (* mutant  *)
  /\ acceptor = "reject" /\ hand = c /\ acceptor' = "accept" /\ Set(sock, c, "closed")
  /\ UNCHANGED <<endpointVars, listenVars, hand, thread>>
Reject(c) ==
  /\ acceptor = "reject" /\ hand = c
  /\ acceptor' = "accept" /\ hand' = Nobody /\ Set(sock, c, "closed")
  /\ UNCHANGED <<endpointVars, listenVars, thread>>

(* register_link, with a link id of its own for every connection.           *)
RegisterAccepted(c) ==
  /\ acceptor = "register" /\ hand = c /\ Register(c) /\ acceptor' = "spawn"
  /\ UNCHANGED <<open, hooks, closer, listenVars, hand, sock, thread>>

ServeInline(c) ==                                                (* mutant  *)
  /\ acceptor = "spawn" /\ hand = c
  /\ acceptor' = "serving" /\ hand' = Nobody /\ Moves(c, "none", "reading")
  /\ UNCHANGED <<endpointVars, listenVars, sock>>
Spawn(c) ==
  /\ acceptor = "spawn" /\ hand = c
  /\ acceptor' = "accept" /\ hand' = Nobody /\ Moves(c, "none", "reading")
  /\ UNCHANGED <<endpointVars, listenVars, sock>>

-----------------------------------------------------------------------------
(* TcpBearer.dial, on the caller's thread *)

Dial(c) ==
  /\ Moves(c, "none", "dialled") /\ Set(sock, c, "open")
  /\ UNCHANGED <<endpointVars, listenVars, acceptVars>>

RegisterDialled(c) ==
  /\ Moves(c, "dialled", "linked") /\ Register(c)
  /\ UNCHANGED <<open, hooks, closer, listenVars, acceptVars, sock>>

(* register_closer: a closed endpoint runs the hook at once.                *)
LateHookIgnored(c) == UNCHANGED <<hooks, sock>>                  (* mutant  *)
LateHook(c) == Set(sock, c, "closed") /\ UNCHANGED hooks
RegisterHook(c) ==
  /\ Moves(c, "linked", "hooked")
  /\ IF open THEN hooks' = hooks \cup {c} /\ UNCHANGED sock ELSE LateHook(c)
  /\ UNCHANGED <<open, up, closer, listenVars, acceptVars>>

SpawnDialled(c) ==
  /\ Moves(c, "hooked", "reading")
  /\ UNCHANGED <<endpointVars, listenVars, acceptVars, sock>>

-----------------------------------------------------------------------------
(* recv_loop: every frame is delivered; how the loop ends is what matters.  *)

(* End of stream, an oversized frame, IOError, ECONNRESET or EBADF.         *)
ReadEnds(c) ==
  /\ Moves(c, "reading", "ending")
  /\ UNCHANGED <<endpointVars, listenVars, acceptVars, sock>>

(* Any other exception also runs the ensure, and ends the thread.           *)
ReadRaises(c) ==
  /\ Errors /\ sock[c] = "open" /\ Moves(c, "reading", "dying")
  /\ UNCHANGED <<endpointVars, listenVars, acceptVars, sock>>

CloseOnly(c) == Set(sock, c, "closed") /\ UNCHANGED up           (* mutant  *)
Down(c) == Set(sock, c, "closed") /\ LinkDown(c)
AfterEnsure(c) == IF c \in Incoming THEN "delete" ELSE "done"
Ensure(c) ==
  /\ Down(c)
  /\ \/ Moves(c, "ending", AfterEnsure(c))
     \/ Moves(c, "dying", "died")
  /\ UNCHANGED <<open, hooks, closer, listenVars, acceptVars>>

Without(c) == sockets \ {c}
Delete(c) ==
  /\ mutex = Nobody /\ Moves(c, "delete", "done") /\ sockets' = Without(c)
  /\ UNCHANGED <<endpointVars, listening, closing, mutex, acceptVars, sock>>

-----------------------------------------------------------------------------
(* Endpoint#close: @closed, then the hooks, here the listener's first       *)

Close ==
  /\ open /\ open' = FALSE /\ closer' = "listener"
  /\ UNCHANGED <<up, hooks, listenVars, acceptVars, sock, thread>>

(* The hook of listen holds sockets_mutex until it closed every socket.     *)
HookBegins ==
  /\ closer = "listener" /\ mutex = Nobody /\ mutex' = "hook"
  /\ closing' = TRUE /\ listening' = FALSE /\ closer' = "sockets"
  /\ sock' = [c \in Conns |-> IF sock[c] = "backlog" THEN "closed" ELSE sock[c]]
  /\ UNCHANGED <<open, up, hooks, sockets, acceptVars, thread>>

HookCloses(c) ==
  /\ closer = "sockets" /\ c \in sockets /\ sock[c] = "open" /\ Set(sock, c, "closed")
  /\ UNCHANGED <<endpointVars, listenVars, acceptVars, thread>>

HookEnds ==
  /\ closer = "sockets" /\ \A c \in sockets : sock[c] = "closed"
  /\ mutex' = Nobody /\ closer' = "dialled"
  /\ UNCHANGED <<open, up, hooks, listening, closing, sockets, acceptVars, sock, thread>>

(* The hook of dial.                                                        *)
CloseDialled(c) ==
  /\ closer = "dialled" /\ c \in hooks /\ hooks' = hooks \ {c} /\ Set(sock, c, "closed")
  /\ UNCHANGED <<open, up, closer, listenVars, acceptVars, thread>>

-----------------------------------------------------------------------------
Init ==
  /\ open = TRUE /\ up = {} /\ hooks = {} /\ closer = "none"
  /\ listening = TRUE /\ closing = FALSE /\ mutex = Nobody /\ sockets = {}
  /\ acceptor = "accept" /\ hand = Nobody
  /\ sock = [c \in Conns |-> "none"] /\ thread = [c \in Conns |-> "none"]

AcceptStep(c) == Accept(c) \/ Insert(c) \/ Reject(c) \/ RegisterAccepted(c) \/ Spawn(c)
DialStep(c) == RegisterDialled(c) \/ RegisterHook(c) \/ SpawnDialled(c)
ReadStep(c) == Ensure(c) \/ Delete(c)
CloseStep ==
  \/ HookBegins \/ HookEnds
  \/ \E c \in Incoming : HookCloses(c)
  \/ \E c \in Dialled : CloseDialled(c)

Next ==
  \/ AcceptBreaks \/ Close \/ CloseStep
  \/ \E c \in Incoming : Connect(c) \/ AcceptStep(c)
  \/ \E c \in Dialled : Dial(c) \/ DialStep(c)
  \/ \E c \in Conns : ReadEnds(c) \/ ReadRaises(c) \/ ReadStep(c)

Spec == Init /\ [][Next]_vars

(* Threads run; a read ends for sure only on a closed socket.               *)
FairSpec ==
  /\ Spec /\ WF_vars(CloseStep)
  /\ WF_vars(~listening /\ AcceptBreaks) /\ WF_vars(\E c \in Incoming : AcceptStep(c))
  /\ \A c \in Conns :
       WF_vars(DialStep(c)) /\ WF_vars(ReadStep(c)) /\ WF_vars(sock[c] = "closed" /\ ReadEnds(c))

-----------------------------------------------------------------------------
(* Properties *)

(* Types; the accept thread has a connection in hand exactly while it       *)
(* works on one.                                                            *)
TypeOK ==
  /\ open \in BOOLEAN /\ up \subseteq Conns /\ hooks \subseteq Dialled
  /\ closer \in {"none", "listener", "sockets", "dialled"}
  /\ listening \in BOOLEAN /\ closing \in BOOLEAN /\ mutex \in {Nobody, "hook"}
  /\ sockets \subseteq Incoming /\ hand \in Incoming \cup {Nobody}
  /\ acceptor \in {"accept", "insert", "reject", "register", "spawn", "stopped"}
  /\ hand # Nobody <=> acceptor \in {"insert", "reject", "register", "spawn"}
  /\ sock \in [Conns -> {"none", "backlog", "open", "closed"}]
  /\ thread \in [Conns -> {"none", "dialled", "linked", "hooked", "reading", "ending",
                           "dying", "delete", "done", "died"}]

(* A link that core takes to be up has a thread that will take it down or   *)
(* is about to get one (tcp_bearer.rb:45-51, 85-91, 98-101).                *)
LinkHasThread ==
  open => \A c \in up :
    \/ thread[c] \in {"linked", "hooked", "reading", "ending", "dying"}
    \/ hand = c /\ acceptor = "spawn"

(* After the hook of listen (tcp_bearer.rb:59-65) the only open socket of   *)
(* the listener is the one that the accept thread will reject.              *)
NothingEscapes ==
  closing /\ mutex = Nobody =>
    \A c \in Incoming : sock[c] = "open" => hand = c /\ acceptor \in {"insert", "reject"}

(* "#close runs these before freeing the node so bearer threads unblock and *)
(* exit" (endpoint.rb:127-128): all of them, accepted or dialled at any     *)
(* moment of #close.                                                        *)
BearerThreadsExit ==
  ~open ~> /\ acceptor = "stopped"
           /\ \A c \in Conns : thread[c] \in {"none", "done", "died"} /\ sock[c] # "open"

(* While the endpoint is open a connection does not stay in the backlog,    *)
(* whatever its predecessors do, unless an error of accept ended the accept *)
(* thread, for good (tcp_bearer.rb:68-72, 87-91).                           *)
Reachable ==
  \A c \in Incoming :
    sock[c] = "backlog" ~> sock[c] # "backlog" \/ ~open \/ acceptor = "stopped"
=============================================================================
