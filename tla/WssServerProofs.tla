-------------------------- MODULE WssServerProofs --------------------------
(***************************************************************************)
(* Proofs about WssServer, for any number of connections and workers and    *)
(* any cap: leases are owned by exactly one thread and stay under the cap.  *)
(***************************************************************************)
EXTENDS WssServer, FiniteSetTheorems, TLAPS

(* What each connection that nobody serves yet, or any more, looks like.    *)
Hands ==
  /\ hand[Acceptor] # None <=> pc[Acceptor] \in {"acquire", "push"}
  /\ hand[Closer] = None
  /\ \A c \in Conns :
       /\ pc[Acceptor] = "acquire" /\ hand[Acceptor] = c => c \notin leases
       /\ sock[c] \in {"none", "backlog"} =>
            c \notin leases /\ \A t \in Threads : hand[t] # c
       /\ sock[c] = "open" => c \in leases \/ hand[Acceptor] = c
       /\ link[c] = "ending" => sock[c] = "closed"

Capped == IsFiniteSet(leases) /\ Cardinality(leases) <= Limit

(* From the closing of the listener on no socket is opened, and from the    *)
(* snapshot on all that are open, but one, are about to be closed.          *)
Shut ==
  /\ pc[Closer] \in {"snapshot", "sockets", "done"} =>
       listener = "closed" /\ \A c \in Conns : sock[c] # "backlog"
  /\ pc[Closer] \in {"sockets", "done"} =>
       \E e \in Conns \cup {None} : \A c \in Conns : sock[c] = "open" => c \in doomed \/ c = e
  /\ pc[Closer] = "done" => doomed = {}

IInv == TypeOK /\ Hands /\ OneOwner /\ NoLostPermit /\ Capped /\ Shut

-----------------------------------------------------------------------------
(* The threads of the server are distinct.                                  *)
LEMMA Kinds ==
  /\ Workers \subseteq Threads /\ Acceptor \in Threads /\ Closer \in Threads
  /\ Acceptor \notin Workers /\ Closer \notin Workers /\ Acceptor # Closer
  /\ None \notin Conns /\ \A t \in Threads : t # None
  /\ \A t \in Threads : t \in Workers \/ t = Acceptor \/ t = Closer
BY WssAssumption DEF Threads

(* Every step preserves the types.                                          *)
LEMMA TypeStep ==
  ASSUME TypeOK, Hands, [Next]_vars
  PROVE  TypeOK'
<1> USE Kinds DEF Goto, Take, CloseSock, Release, serverVars, queueVars, connVars,
    TypeOK, Hands
<1>1. ASSUME NEW c \in Conns, Connect(c) PROVE TypeOK' BY <1>1 DEF Connect
<1>2. CASE Shutdown BY <1>2 DEF Shutdown
<1>3. ASSUME NEW c \in Conns, Accept(c) PROVE TypeOK' BY <1>3 DEF Accept
<1>4. CASE AcceptFails BY <1>4 DEF AcceptFails
<1>5. CASE AcceptRaises BY <1>5 DEF AcceptRaises
<1>6. CASE Rescue BY <1>6 DEF Rescue
<1>7. ASSUME NEW c \in Conns, Acquire(c) PROVE TypeOK'
     BY <1>7 DEF Acquire, Full
<1>8. ASSUME NEW c \in Conns, Push(c) PROVE TypeOK' BY <1>8 DEF Push
<1>9. ASSUME NEW c \in Conns, PushFull(c) PROVE TypeOK'
     BY <1>9 DEF PushFull, Reject
<1>10. ASSUME NEW c \in Conns, PushClosed(c) PROVE TypeOK'
     BY <1>10 DEF PushClosed
<1>11. ASSUME NEW w \in Workers, TestClosing(w) PROVE TypeOK'
     BY <1>11 DEF TestClosing
<1>12. ASSUME NEW w \in Workers, PopLease(w) PROVE TypeOK' BY <1>12 DEF PopLease
<1>13. ASSUME NEW w \in Workers, PopNothing(w) PROVE TypeOK'
     BY <1>13 DEF PopNothing
<1>14. ASSUME NEW w \in Workers, Handshaken(w) PROVE TypeOK'
     BY <1>14 DEF Handshaken
<1>15. ASSUME NEW w \in Workers, NotTransferred(w) PROVE TypeOK'
     BY <1>15 DEF NotTransferred, UnderDeadline
<1>16. ASSUME NEW w \in Workers, Transfer(w) PROVE TypeOK'
     BY <1>16 DEF Transfer, HandOver
<1>17. ASSUME NEW w \in Workers, Ensure(w) PROVE TypeOK'
     BY <1>17 DEF Ensure, CleanUp
<1>18. ASSUME NEW c \in Conns, LinkEnds(c) PROVE TypeOK' BY <1>18 DEF LinkEnds
<1>19. ASSUME NEW c \in Conns, LinkReleases(c) PROVE TypeOK'
     BY <1>19 DEF LinkReleases
<1>20. CASE CloseBegin BY <1>20 DEF CloseBegin
<1>21. CASE CloseListener BY <1>21 DEF CloseListener, CloseTcp
<1>22. CASE CloseSnapshot BY <1>22 DEF CloseSnapshot
<1>23. ASSUME NEW c \in Conns, CloseLeased(c) PROVE TypeOK'
     BY <1>23 DEF CloseLeased
<1>24. CASE CloseQueue BY <1>24 DEF CloseQueue
<1>25. CASE UNCHANGED vars BY <1>25 DEF vars
<1>. QED
  BY <1>1, <1>2, <1>3, <1>4, <1>5, <1>6, <1>7, <1>8, <1>9, <1>10, <1>11, <1>12, <1>13,
      <1>14, <1>15, <1>16, <1>17, <1>18, <1>19, <1>20, <1>21, <1>22, <1>23, <1>24, <1>25
  DEF Next, AcceptorStep, WorkerStep, CloserStep
(* Every step preserves what hands, sockets and links can be.               *)
LEMMA HandsStep ==
  ASSUME TypeOK, Hands, OneOwner, [Next]_vars
  PROVE  Hands'
<1> USE Kinds DEF Goto, Take, CloseSock, Release, serverVars, queueVars, connVars,
    TypeOK, Hands, OneOwner, Owned, InQueue, InHand, OnLink
<1>1. ASSUME NEW c \in Conns, Connect(c) PROVE Hands' BY <1>1 DEF Connect
<1>2. CASE Shutdown BY <1>2 DEF Shutdown
<1>3. ASSUME NEW c \in Conns, Accept(c) PROVE Hands' BY <1>3 DEF Accept
<1>4. CASE AcceptFails BY <1>4 DEF AcceptFails
<1>5. CASE AcceptRaises BY <1>5 DEF AcceptRaises
<1>6. CASE Rescue BY <1>6 DEF Rescue
<1>7. ASSUME NEW c \in Conns, Acquire(c) PROVE Hands' BY <1>7 DEF Acquire, Full
<1>8. ASSUME NEW c \in Conns, Push(c) PROVE Hands' BY <1>8 DEF Push
<1>9. ASSUME NEW c \in Conns, PushFull(c) PROVE Hands'
     BY <1>9 DEF PushFull, Reject
<1>10. ASSUME NEW c \in Conns, PushClosed(c) PROVE Hands'
     BY <1>10 DEF PushClosed
<1>11. ASSUME NEW w \in Workers, TestClosing(w) PROVE Hands'
     BY <1>11 DEF TestClosing
<1>12. ASSUME NEW w \in Workers, PopLease(w) PROVE Hands' BY <1>12 DEF PopLease
<1>13. ASSUME NEW w \in Workers, PopNothing(w) PROVE Hands'
     BY <1>13 DEF PopNothing
<1>14. ASSUME NEW w \in Workers, Handshaken(w) PROVE Hands'
     BY <1>14 DEF Handshaken
<1>15. ASSUME NEW w \in Workers, NotTransferred(w) PROVE Hands'
     BY <1>15 DEF NotTransferred, UnderDeadline
<1>16. ASSUME NEW w \in Workers, Transfer(w) PROVE Hands'
     BY <1>16 DEF Transfer, HandOver
<1>17. ASSUME NEW w \in Workers, Ensure(w) PROVE Hands'
     BY <1>17 DEF Ensure, CleanUp
<1>18. ASSUME NEW c \in Conns, LinkEnds(c) PROVE Hands' BY <1>18 DEF LinkEnds
<1>19. ASSUME NEW c \in Conns, LinkReleases(c) PROVE Hands'
     BY <1>19 DEF LinkReleases
<1>20. CASE CloseBegin BY <1>20 DEF CloseBegin
<1>21. CASE CloseListener BY <1>21 DEF CloseListener, CloseTcp
<1>22. CASE CloseSnapshot BY <1>22 DEF CloseSnapshot
<1>23. ASSUME NEW c \in Conns, CloseLeased(c) PROVE Hands'
     BY <1>23 DEF CloseLeased
<1>24. CASE CloseQueue BY <1>24 DEF CloseQueue
<1>25. CASE UNCHANGED vars BY <1>25 DEF vars
<1>. QED
  BY <1>1, <1>2, <1>3, <1>4, <1>5, <1>6, <1>7, <1>8, <1>9, <1>10, <1>11, <1>12, <1>13,
      <1>14, <1>15, <1>16, <1>17, <1>18, <1>19, <1>20, <1>21, <1>22, <1>23, <1>24, <1>25
  DEF Next, AcceptorStep, WorkerStep, CloserStep
(* Every step keeps the owners of a connection apart.                       *)
LEMMA OwnerStep ==
  ASSUME TypeOK, Hands, OneOwner, [Next]_vars
  PROVE  OneOwner'
<1> USE Kinds DEF Goto, Take, CloseSock, Release, serverVars, queueVars, connVars,
    TypeOK, Hands, OneOwner, Owned, InQueue, InHand, OnLink
<1>1. ASSUME NEW c \in Conns, Connect(c) PROVE OneOwner' BY <1>1 DEF Connect
<1>2. CASE Shutdown BY <1>2 DEF Shutdown
<1>3. ASSUME NEW c \in Conns, Accept(c) PROVE OneOwner' BY <1>3 DEF Accept
<1>4. CASE AcceptFails BY <1>4 DEF AcceptFails
<1>5. CASE AcceptRaises BY <1>5 DEF AcceptRaises
<1>6. CASE Rescue BY <1>6 DEF Rescue
<1>7. ASSUME NEW c \in Conns, Acquire(c) PROVE OneOwner'
     BY <1>7 DEF Acquire, Full
<1>8. ASSUME NEW c \in Conns, Push(c) PROVE OneOwner' BY <1>8 DEF Push
<1>9. ASSUME NEW c \in Conns, PushFull(c) PROVE OneOwner'
     BY <1>9 DEF PushFull, Reject
<1>10. ASSUME NEW c \in Conns, PushClosed(c) PROVE OneOwner'
     BY <1>10 DEF PushClosed
<1>11. ASSUME NEW w \in Workers, TestClosing(w) PROVE OneOwner'
     BY <1>11 DEF TestClosing
<1>12. ASSUME NEW w \in Workers, PopLease(w) PROVE OneOwner'
     BY <1>12 DEF PopLease
<1>13. ASSUME NEW w \in Workers, PopNothing(w) PROVE OneOwner'
     BY <1>13 DEF PopNothing
<1>14. ASSUME NEW w \in Workers, Handshaken(w) PROVE OneOwner'
     BY <1>14 DEF Handshaken
<1>15. ASSUME NEW w \in Workers, NotTransferred(w) PROVE OneOwner'
     BY <1>15 DEF NotTransferred, UnderDeadline
<1>16. ASSUME NEW w \in Workers, Transfer(w) PROVE OneOwner'
     BY <1>16 DEF Transfer, HandOver
<1>17. ASSUME NEW w \in Workers, Ensure(w) PROVE OneOwner'
     BY <1>17 DEF Ensure, CleanUp
<1>18. ASSUME NEW c \in Conns, LinkEnds(c) PROVE OneOwner' BY <1>18 DEF LinkEnds
<1>19. ASSUME NEW c \in Conns, LinkReleases(c) PROVE OneOwner'
     BY <1>19 DEF LinkReleases
<1>20. CASE CloseBegin BY <1>20 DEF CloseBegin
<1>21. CASE CloseListener BY <1>21 DEF CloseListener, CloseTcp
<1>22. CASE CloseSnapshot BY <1>22 DEF CloseSnapshot
<1>23. ASSUME NEW c \in Conns, CloseLeased(c) PROVE OneOwner'
     BY <1>23 DEF CloseLeased
<1>24. CASE CloseQueue BY <1>24 DEF CloseQueue
<1>25. CASE UNCHANGED vars BY <1>25 DEF vars
<1>. QED
  BY <1>1, <1>2, <1>3, <1>4, <1>5, <1>6, <1>7, <1>8, <1>9, <1>10, <1>11, <1>12, <1>13,
      <1>14, <1>15, <1>16, <1>17, <1>18, <1>19, <1>20, <1>21, <1>22, <1>23, <1>24, <1>25
  DEF Next, AcceptorStep, WorkerStep, CloserStep
(* Every step preserves that a lease has an owner, up to the race with #close. *)
LEMMA PermitStep ==
  ASSUME TypeOK, Hands, NoLostPermit, [Next]_vars
  PROVE  NoLostPermit'
<1> USE Kinds DEF Goto, Take, CloseSock, Release, serverVars, queueVars, connVars,
    TypeOK, Hands, NoLostPermit, Owned, InQueue, InHand, OnLink
<1>1. ASSUME NEW c \in Conns, Connect(c) PROVE NoLostPermit'
     BY <1>1 DEF Connect
<1>2. CASE Shutdown BY <1>2 DEF Shutdown
<1>3. ASSUME NEW c \in Conns, Accept(c) PROVE NoLostPermit' BY <1>3 DEF Accept
<1>4. CASE AcceptFails BY <1>4 DEF AcceptFails
<1>5. CASE AcceptRaises BY <1>5 DEF AcceptRaises
<1>6. CASE Rescue BY <1>6 DEF Rescue
<1>7. ASSUME NEW c \in Conns, Acquire(c) PROVE NoLostPermit'
     BY <1>7 DEF Acquire, Full
<1>8. ASSUME NEW c \in Conns, Push(c) PROVE NoLostPermit' BY <1>8 DEF Push
<1>9. ASSUME NEW c \in Conns, PushFull(c) PROVE NoLostPermit'
     BY <1>9 DEF PushFull, Reject
<1>10. ASSUME NEW c \in Conns, PushClosed(c) PROVE NoLostPermit'
     BY <1>10 DEF PushClosed
<1>11. ASSUME NEW w \in Workers, TestClosing(w) PROVE NoLostPermit'
     BY <1>11 DEF TestClosing
<1>12. ASSUME NEW w \in Workers, PopLease(w) PROVE NoLostPermit'
  <2>1. \A i \in 1..Len(queue) : i # 1 =>
          i - 1 \in 1..Len(Tail(queue)) /\ Tail(queue)[i - 1] = queue[i]
    BY <1>12 DEF PopLease
  <2>2. ASSUME NEW c \in Conns, InQueue(c), c # hand'[w] PROVE InQueue(c)'
    <3>1. hand'[w] = queue[1] /\ queue' = Tail(queue) BY <1>12 DEF PopLease
    <3>2. PICK i \in 1..Len(queue) : queue[i] = c BY <2>2
    <3>. QED BY <2>1, <2>2, <3>1, <3>2
  <2>. QED BY <1>12, <2>2 DEF PopLease
<1>13. ASSUME NEW w \in Workers, PopNothing(w) PROVE NoLostPermit'
     BY <1>13 DEF PopNothing
<1>14. ASSUME NEW w \in Workers, Handshaken(w) PROVE NoLostPermit'
     BY <1>14 DEF Handshaken
<1>15. ASSUME NEW w \in Workers, NotTransferred(w) PROVE NoLostPermit'
     BY <1>15 DEF NotTransferred, UnderDeadline
<1>16. ASSUME NEW w \in Workers, Transfer(w) PROVE NoLostPermit'
     BY <1>16 DEF Transfer, HandOver
<1>17. ASSUME NEW w \in Workers, Ensure(w) PROVE NoLostPermit'
     BY <1>17 DEF Ensure, CleanUp
<1>18. ASSUME NEW c \in Conns, LinkEnds(c) PROVE NoLostPermit'
     BY <1>18 DEF LinkEnds
<1>19. ASSUME NEW c \in Conns, LinkReleases(c) PROVE NoLostPermit'
     BY <1>19 DEF LinkReleases
<1>20. CASE CloseBegin BY <1>20 DEF CloseBegin
<1>21. CASE CloseListener BY <1>21 DEF CloseListener, CloseTcp
<1>22. CASE CloseSnapshot BY <1>22 DEF CloseSnapshot
<1>23. ASSUME NEW c \in Conns, CloseLeased(c) PROVE NoLostPermit'
     BY <1>23 DEF CloseLeased
<1>24. CASE CloseQueue BY <1>24 DEF CloseQueue
<1>25. CASE UNCHANGED vars BY <1>25 DEF vars
<1>. QED
  BY <1>1, <1>2, <1>3, <1>4, <1>5, <1>6, <1>7, <1>8, <1>9, <1>10, <1>11, <1>12, <1>13,
      <1>14, <1>15, <1>16, <1>17, <1>18, <1>19, <1>20, <1>21, <1>22, <1>23, <1>24, <1>25
  DEF Next, AcceptorStep, WorkerStep, CloserStep

(* Only Acquire adds a lease, and only below the cap.                       *)
LEMMA CappedStep ==
  ASSUME TypeOK, Capped, [Next]_vars
  PROVE  Capped'
<1> USE WssAssumption DEF Capped, Release, Take, Goto
<1>1. CASE leases' = leases BY <1>1
<1>2. ASSUME NEW c \in Conns, leases' = leases \ {c} PROVE Capped'
  <2>1. /\ IsFiniteSet(leases \ {c})
        /\ Cardinality(leases \ {c}) =
             IF c \in leases THEN Cardinality(leases) - 1 ELSE Cardinality(leases)
    BY FS_RemoveElement
  <2>2. Cardinality(leases) \in Nat BY FS_CardinalityType
  <2>. QED BY <1>2, <2>1, <2>2
<1>3. ASSUME NEW c \in Conns, Acquire(c) PROVE Capped'
  <2>1. CASE Full BY <2>1, <1>3 DEF Acquire
  <2>2. CASE ~Full
    <3>1. leases' = leases \cup {c} BY <1>3, <2>2 DEF Acquire
    <3>2. /\ IsFiniteSet(leases \cup {c})
          /\ Cardinality(leases \cup {c}) =
               IF c \in leases THEN Cardinality(leases) ELSE Cardinality(leases) + 1
      BY FS_AddElement
    <3>3. Cardinality(leases) \in Nat BY FS_CardinalityType
    <3>. QED BY <2>2, <3>1, <3>2, <3>3 DEF Full
  <2>. QED BY <2>1, <2>2
<1>4. ASSUME NEW w \in Workers, Ensure(w) PROVE \E c \in Conns : leases' = leases \ {c}
  BY <1>4, Kinds DEF Ensure, CleanUp, TypeOK
<1>. QED
  BY <1>1, <1>2, <1>3, <1>4
  DEF Next, AcceptorStep, WorkerStep, CloserStep, vars, serverVars, queueVars, connVars,
      Connect, Shutdown, Accept, AcceptFails, AcceptRaises, Rescue, Push, PushFull, Reject,
      PushClosed, TestClosing, PopLease, PopNothing, Handshaken, NotTransferred, Transfer,
      LinkEnds, LinkReleases, CloseBegin, CloseListener, CloseSnapshot, CloseLeased,
          CloseQueue

(* Every step of close_server brings the open sockets closer to one.        *)
LEMMA ShutStep ==
  ASSUME TypeOK, Hands, Shut, [Next]_vars
  PROVE  Shut'
<1> USE Kinds DEF Goto, CloseSock, serverVars, queueVars, connVars
<1>1. CASE CloseBegin BY <1>1 DEF CloseBegin, Shut, TypeOK
<1>2. CASE CloseListener BY <1>2 DEF CloseListener, CloseTcp, Shut, TypeOK
<1>3. CASE CloseSnapshot
  <2>1. \A c \in Conns : sock[c] = "open" => c \in leases \/ c = hand[Acceptor] BY DEF Hands
  <2>2. hand[Acceptor] \in Conns \cup {None} BY DEF TypeOK
  <2>3. doomed' = leases /\ sock' = sock /\ listener' = listener /\ pc[Closer] = "snapshot" /\ pc'[Closer] = "sockets"
    BY <1>3 DEF CloseSnapshot, TypeOK
  <2>. QED BY <2>1, <2>2, <2>3 DEF Shut
<1>4. ASSUME NEW c \in Conns, CloseLeased(c) PROVE Shut'
  <2>1. /\ pc[Closer] = "sockets" /\ pc' = pc /\ listener' = listener /\ doomed' = doomed \ {c}
        /\ sock' = [sock EXCEPT ![c] = "closed"] /\ sock \in [Conns -> {"none", "backlog", "open", "closed"}]
    BY <1>4 DEF CloseLeased, TypeOK
  <2>2. PICK e \in Conns \cup {None} : \A d \in Conns : sock[d] = "open" => d \in doomed \/ d = e
    BY <2>1 DEF Shut
  <2>3. \A d \in Conns : sock'[d] = "open" => d \in doomed' \/ d = e BY <2>1, <2>2
  <2>4. \A d \in Conns : sock'[d] # "backlog" BY <2>1 DEF Shut
  <2>. QED BY <2>1, <2>3, <2>4 DEF Shut
<1>5. CASE CloseQueue BY <1>5 DEF CloseQueue, Shut, TypeOK
<1>6. CASE UNCHANGED vars BY <1>6 DEF vars, Shut
<1>7. ASSUME NEW c \in Conns, Connect(c) \/ Accept(c) \/ Acquire(c) \/ Push(c) \/ PushFull(c)
              \/ PushClosed(c) \/ LinkEnds(c) \/ LinkReleases(c)
      PROVE  Shut'
  <2>1. pc'[Closer] = pc[Closer] /\ doomed' = doomed /\ listener' = listener
    BY <1>7 DEF Connect, Accept, Acquire, Push, PushFull, PushClosed, LinkEnds, LinkReleases, TypeOK
  <2>2. listener # "open" => \A d \in Conns : sock'[d] = sock[d] \/ sock'[d] = "closed"
    BY <1>7 DEF Connect, Accept, Acquire, Push, PushFull, PushClosed, LinkEnds, LinkReleases, TypeOK
  <2>. QED BY <2>1, <2>2 DEF Shut
<1>8. CASE Shutdown \/ AcceptFails \/ AcceptRaises \/ Rescue
  <2>1. pc'[Closer] = pc[Closer] /\ doomed' = doomed /\ sock' = sock
        /\ (listener' = listener \/ (listener' = "shutdown" /\ listener = "open"))
    <3>1. CASE Shutdown BY <3>1 DEF Shutdown
    <3>2. CASE AcceptFails BY <3>2 DEF AcceptFails, TypeOK
    <3>3. CASE AcceptRaises BY <3>3 DEF AcceptRaises, TypeOK
    <3>4. CASE Rescue BY <3>4 DEF Rescue, TypeOK
    <3>. QED BY <1>8, <3>1, <3>2, <3>3, <3>4
  <2>. QED BY <2>1 DEF Shut
<1>9. ASSUME NEW w \in Workers, WorkerStep(w) \/ Handshaken(w) \/ Transfer(w) PROVE Shut'
  <2>1. pc'[Closer] = pc[Closer] /\ doomed' = doomed /\ listener' = listener
    BY <1>9 DEF WorkerStep, TestClosing, PopLease, PopNothing, NotTransferred, Ensure, Handshaken,
        Transfer, HandOver, TypeOK
  <2>2. pc[Closer] \in {"snapshot", "sockets", "done"} =>
          \A d \in Conns : sock'[d] = sock[d] \/ sock'[d] = "closed"
    BY <1>9 DEF WorkerStep, TestClosing, PopLease, PopNothing, NotTransferred, Ensure, CleanUp, Handshaken,
        Transfer, TypeOK
  <2>3. listener' = listener \/ (listener' = "shutdown" /\ listener = "open") BY <2>1
  <2>. QED BY <2>1, <2>2, <2>3 DEF Shut
<1>. QED BY <1>1, <1>2, <1>3, <1>4, <1>5, <1>6, <1>7, <1>8, <1>9 DEF Next, AcceptorStep, CloserStep

(* The inductive invariant holds when the server starts.                    *)
LEMMA InitIInv == Init => IInv
<1> SUFFICES ASSUME Init PROVE IInv OBVIOUS
<1> USE Kinds, WssAssumption DEF Init
<1>1. TypeOK
  <2>1. \A w \in Workers : hand[w] = None /\ pc[w] = "test" OBVIOUS
  <2>2. /\ pc \in [Threads -> {"accept", "idle", "test"}]
        /\ hand \in [Threads -> Conns \cup {None}] /\ queue \in Seq(Conns)
        /\ sock \in [Conns -> {"none"}] /\ link \in [Conns -> {"none"}]
    OBVIOUS
  <2>. QED BY <2>1, <2>2 DEF TypeOK
<1>2. Hands BY DEF Hands
<1>3. OneOwner BY DEF OneOwner, Owned, InQueue, InHand, OnLink
<1>4. NoLostPermit BY DEF NoLostPermit
<1>5. Capped BY FS_EmptySet DEF Capped
<1>6. Shut BY DEF Shut
<1>. QED BY <1>1, <1>2, <1>3, <1>4, <1>5, <1>6 DEF IInv

(* Every step preserves the inductive invariant.                            *)
LEMMA StepIInv == IInv /\ [Next]_vars => IInv'
BY TypeStep, HandsStep, OwnerStep, PermitStep, CappedStep, ShutStep DEF IInv

(* The inductive invariant holds throughout.                                *)
LEMMA Invariance == Spec => []IInv
BY InitIInv, StepIInv, PTL DEF Spec

(* Types are correct.                                                       *)
THEOREM TypeCorrect == Spec => []TypeOK
<1>1. IInv => TypeOK BY DEF IInv
<1>. QED BY <1>1, Invariance, PTL

(* A connection is never in two hands, so it is released and closed once    *)
(* (wss_bearer.rb:311-322, 331-341, 363-371).                               *)
THEOREM SingleOwner == Spec => []OneOwner
<1>1. IInv => OneOwner BY DEF IInv
<1>. QED BY <1>1, Invariance, PTL

(* Before #close no permit is lost: every lease has an owner that will release *)
(* it (wss_bearer.rb:330-347).                                              *)
THEOREM PermitsReturn == Spec => []NoLostPermit
<1>1. IInv => NoLostPermit BY DEF IInv
<1>. QED BY <1>1, Invariance, PTL

(* Queue, workers and links together never hold more than the cap of        *)
(* MAX_PENDING_CONNECTIONS (wss_bearer.rb:188-196).                         *)
THEOREM AdmissionBound == Spec => []WithinLimit
<1>1. IInv => WithinLimit BY DEF IInv, Hands, Capped, WithinLimit
<1>. QED BY <1>1, Invariance, PTL

(* With a queue as large as the cap a push always finds room: the queue     *)
(* holds distinct leased connections, and the one to be pushed is not among *)
(* them (wss_bearer.rb:331-341).                                            *)
THEOREM QueueHasRoom == Spec => []RoomInQueue
<1>1. ASSUME IInv, QueueCap >= Limit, pc[Acceptor] = "push" PROVE Len(queue) < QueueCap
  <2> DEFINE c == hand[Acceptor]  others == leases \ {c}
  <2>1. c \in Conns /\ InHand(Acceptor, c) /\ queue \in Seq(Conns)
    BY <1>1, Kinds DEF IInv, Hands, TypeOK, InHand
  <2>2. c \in leases BY <1>1, <2>1, Kinds DEF IInv, OneOwner, Owned
  <2>3. ASSUME NEW i \in 1..Len(queue) PROVE queue[i] \in others
    <3>1. queue[i] \in Conns /\ InQueue(queue[i]) BY <2>1 DEF InQueue
    <3>2. queue[i] \in leases BY <1>1, <3>1 DEF IInv, OneOwner, Owned
    <3>3. queue[i] # c BY <1>1, <2>1, <3>1, Kinds DEF IInv, OneOwner
    <3>. QED BY <3>2, <3>3
  <2>4. /\ IsFiniteSet(others) /\ Cardinality(others) \in Nat
        /\ Cardinality(others) + 1 <= Limit
    <3>1. IsFiniteSet(leases) /\ Cardinality(leases) <= Limit BY <1>1 DEF IInv, Capped
    <3>2. Cardinality(leases) \in Nat BY <3>1, FS_CardinalityType
    <3>3. IsFiniteSet(others) /\ Cardinality(others) = Cardinality(leases) - 1
      BY <2>2, <3>1, FS_RemoveElement
    <3>4. Cardinality(others) \in Nat BY <3>3, FS_CardinalityType
    <3>. QED BY <3>1, <3>2, <3>3, <3>4, WssAssumption
  <2>5. Len(queue) \in Nat /\ IsFiniteSet(1..Len(queue)) /\ Cardinality(1..Len(queue)) = Len(queue)
    <3>1. Len(queue) \in Nat BY <2>1
    <3>2. IsFiniteSet(1..Len(queue)) /\ Cardinality(1..Len(queue)) = IF 1 > Len(queue) THEN 0 ELSE Len(queue) - 1 + 1
      BY <3>1, FS_Interval
    <3>. QED BY <3>1, <3>2
  <2>6. Len(queue) <= Cardinality(others)
    <3>1. SUFFICES ASSUME Cardinality(others) < Len(queue) PROVE FALSE BY <2>4, <2>5
    <3>2. [i \in 1..Len(queue) |-> queue[i]] \in [1..Len(queue) -> others] BY <2>3
    <3>3. \E i, j \in 1..Len(queue) : i # j /\ queue[i] = queue[j]
      <4> DEFINE S == 1..Len(queue)  f == [k \in S |-> queue[k]]
      <4>1. IsFiniteSet(S) /\ Cardinality(others) < Cardinality(S) /\ f \in [S -> others]
        BY <2>5, <3>1, <3>2
      <4> HIDE DEF S, f, others
      <4>2. \E i, j \in S : i # j /\ f[i] = f[j] BY <2>4, <4>1, FS_PigeonHole
      <4>. QED BY <4>2 DEF S, f
    <3>4. PICK i, j \in 1..Len(queue) : i # j /\ queue[i] = queue[j] BY <3>3
    <3>5. queue[i] \in Conns BY <2>1, <3>4
    <3>. QED BY <1>1, <3>4, <3>5 DEF IInv, OneOwner
  <2>. QED BY <1>1, <2>4, <2>5, <2>6, WssAssumption
<1>2. IInv => RoomInQueue BY <1>1 DEF RoomInQueue
<1>. QED BY <1>2, Invariance, PTL

(* close_server leaves at most one socket open, which the acceptor had in   *)
(* its hand (wss_bearer.rb:295-297, 330-337).                               *)
THEOREM AtMostOneEscapes == Spec => []OneEscapes
<1>1. ASSUME IInv, pc[Closer] = "done" PROVE Cardinality({c \in Conns : sock[c] = "open"}) <= 1
  <2>1. PICK e \in Conns \cup {None} : \A c \in Conns : sock[c] = "open" => c = e
    BY <1>1 DEF IInv, Shut
  <2>2. {c \in Conns : sock[c] = "open"} \in SUBSET {e} BY <2>1
  <2>3. IsFiniteSet({e}) /\ Cardinality({e}) = 1 BY FS_Singleton
  <2>. QED BY <2>2, <2>3, FS_Subset
<1>2. IInv => OneEscapes BY <1>1 DEF OneEscapes
<1>. QED BY <1>2, Invariance, PTL
=============================================================================
