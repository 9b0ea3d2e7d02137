--------------------------- MODULE TcpBearerProofs ---------------------------
(***************************************************************************)
(* Proofs about TcpBearer, for any number of accepted and dialled           *)
(* connections: links have threads, and no accepted socket escapes #close.    *)
(***************************************************************************)
EXTENDS TcpBearer, TLAPS

(* What ties the hook of listen, the table, the hand and the threads.       *)
Custody ==
  /\ open <=> closer = "none"
  /\ mutex = "hook" <=> closer = "sockets"
  /\ closing <=> closer \in {"sockets", "dialled"}
  /\ closing => ~listening
  /\ closer = "dialled" => \A c \in sockets : sock[c] = "closed"
  /\ \A c \in Incoming :
       /\ sock[c] \in {"none", "backlog"} => thread[c] = "none" /\ hand # c
       /\ hand = c => thread[c] = "none"
       /\ thread[c] \in {"delete", "done", "died"} => sock[c] = "closed"
       /\ sock[c] = "open" => 
            c \in sockets \/ (hand = c /\ acceptor \in {"insert", "reject"})

IInv == TypeOK /\ Custody /\ LinkHasThread /\ NothingEscapes

-----------------------------------------------------------------------------
(* Accepted and dialled connections are apart, and Nobody is none of them.  *)
LEMMA Apart ==
  /\ Incoming \subseteq Conns /\ Dialled \subseteq Conns
  /\ \A c \in Incoming : c \notin Dialled /\ c # Nobody
  /\ \A c \in Conns : c \in Incoming \/ c \in Dialled
  /\ Nobody # "hook" /\ Nobody \notin Conns
BY TcpAssumption DEF Conns

(* Every step preserves the types.                                           *)
LEMMA TypeStep ==
  ASSUME TypeOK, [Next]_vars
  PROVE  TypeOK'
<1> USE Apart DEF Set, Moves, endpointVars, listenVars, acceptVars, TypeOK
<1>1. ASSUME NEW c \in Incoming, Connect(c) PROVE TypeOK' BY <1>1 DEF Connect
<1>2. ASSUME NEW c \in Incoming, Accept(c) PROVE TypeOK' BY <1>2 DEF Accept
<1>3. CASE AcceptBreaks BY <1>3 DEF AcceptBreaks
<1>4. ASSUME NEW c \in Incoming, Insert(c) PROVE TypeOK'
     BY <1>4 DEF Insert, Rejects
<1>5. ASSUME NEW c \in Incoming, Reject(c) PROVE TypeOK' BY <1>5 DEF Reject
<1>6. ASSUME NEW c \in Incoming, RegisterAccepted(c) PROVE TypeOK'
     BY <1>6 DEF RegisterAccepted, Register
<1>7. ASSUME NEW c \in Incoming, Spawn(c) PROVE TypeOK' BY <1>7 DEF Spawn
<1>8. ASSUME NEW c \in Dialled, Dial(c) PROVE TypeOK' BY <1>8 DEF Dial
<1>9. ASSUME NEW c \in Dialled, RegisterDialled(c) PROVE TypeOK'
     BY <1>9 DEF RegisterDialled, Register
<1>10. ASSUME NEW c \in Dialled, RegisterHook(c) PROVE TypeOK'
     BY <1>10 DEF RegisterHook, LateHook
<1>11. ASSUME NEW c \in Dialled, SpawnDialled(c) PROVE TypeOK'
     BY <1>11 DEF SpawnDialled
<1>12. ASSUME NEW c \in Conns, ReadEnds(c) PROVE TypeOK' BY <1>12 DEF ReadEnds
<1>13. ASSUME NEW c \in Conns, ReadRaises(c) PROVE TypeOK' BY <1>13 DEF ReadRaises
<1>14. ASSUME NEW c \in Conns, Ensure(c) PROVE TypeOK'
     BY <1>14 DEF Ensure, Down, LinkDown, AfterEnsure
<1>15. ASSUME NEW c \in Conns, Delete(c) PROVE TypeOK'
     BY <1>15 DEF Delete, Without
<1>16. CASE Close BY <1>16 DEF Close
<1>17. CASE HookBegins BY <1>17 DEF HookBegins
<1>18. ASSUME NEW c \in Incoming, HookCloses(c) PROVE TypeOK'
     BY <1>18 DEF HookCloses
<1>19. CASE HookEnds BY <1>19 DEF HookEnds
<1>20. ASSUME NEW c \in Dialled, CloseDialled(c) PROVE TypeOK'
     BY <1>20 DEF CloseDialled
<1>21. CASE UNCHANGED vars BY <1>21 DEF vars
<1>. QED
  BY <1>1, <1>2, <1>3, <1>4, <1>5, <1>6, <1>7, <1>8, <1>9, <1>10, <1>11, <1>12, <1>13,
      <1>14, <1>15, <1>16, <1>17, <1>18, <1>19, <1>20, <1>21
  DEF Next, AcceptStep, DialStep, ReadStep, CloseStep, Conns

(* Every step preserves what ties them.                                      *)
LEMMA CustodyStep ==
  ASSUME TypeOK, Custody, [Next]_vars
  PROVE  Custody'
<1> USE Apart DEF Set, Moves, endpointVars, listenVars, acceptVars, TypeOK, Custody
<1>1. ASSUME NEW c \in Incoming, Connect(c) PROVE Custody' BY <1>1 DEF Connect
<1>2. ASSUME NEW c \in Incoming, Accept(c) PROVE Custody' BY <1>2 DEF Accept
<1>3. CASE AcceptBreaks BY <1>3 DEF AcceptBreaks
<1>4. ASSUME NEW c \in Incoming, Insert(c) PROVE Custody'
  <2>1. CASE closing BY <1>4, <2>1 DEF Insert, Rejects
  <2>2. CASE ~closing
    <3>1. closer \notin {"sockets", "dialled"} BY <2>2
    <3>2. sockets' = sockets \cup {c} /\ acceptor' = "register"
        BY <1>4, <2>2 DEF Insert, Rejects
    <3>3. UNCHANGED <<open, closer, listening, closing, mutex, hand, sock, thread>>
      BY <1>4, <2>2 DEF Insert, Rejects
    <3>. QED BY <1>4, <3>1, <3>2, <3>3 DEF Insert
  <2>. QED BY <2>1, <2>2
<1>5. ASSUME NEW c \in Incoming, Reject(c) PROVE Custody'
  <2>1. /\ hand = c /\ hand' = Nobody /\ sock' = [sock EXCEPT ![c] = "closed"]
        /\ UNCHANGED <<open, closer, listening, closing, mutex, sockets, thread>>
    BY <1>5 DEF Reject
  <2>2. \A d \in Incoming : d # c => sock'[d] = sock[d] BY <2>1
  <2>3. sock'[c] = "closed" BY <2>1
  <2>. QED BY <2>1, <2>2, <2>3
<1>6. ASSUME NEW c \in Incoming, RegisterAccepted(c) PROVE Custody'
     BY <1>6 DEF RegisterAccepted, Register
<1>7. ASSUME NEW c \in Incoming, Spawn(c) PROVE Custody' BY <1>7 DEF Spawn
<1>8. ASSUME NEW c \in Dialled, Dial(c) PROVE Custody' BY <1>8 DEF Dial
<1>9. ASSUME NEW c \in Dialled, RegisterDialled(c) PROVE Custody'
     BY <1>9 DEF RegisterDialled, Register
<1>10. ASSUME NEW c \in Dialled, RegisterHook(c) PROVE Custody'
     BY <1>10 DEF RegisterHook, LateHook
<1>11. ASSUME NEW c \in Dialled, SpawnDialled(c) PROVE Custody'
     BY <1>11 DEF SpawnDialled
<1>12. ASSUME NEW c \in Conns, ReadEnds(c) PROVE Custody' BY <1>12 DEF ReadEnds
<1>13. ASSUME NEW c \in Conns, ReadRaises(c) PROVE Custody'
     BY <1>13 DEF ReadRaises
<1>14. ASSUME NEW c \in Conns, Ensure(c) PROVE Custody'
     BY <1>14 DEF Ensure, Down, LinkDown, AfterEnsure
<1>15. ASSUME NEW c \in Conns, Delete(c) PROVE Custody'
     BY <1>15 DEF Delete, Without
<1>16. CASE Close BY <1>16 DEF Close
<1>17. CASE HookBegins BY <1>17 DEF HookBegins
<1>18. ASSUME NEW c \in Incoming, HookCloses(c) PROVE Custody'
     BY <1>18 DEF HookCloses
<1>19. CASE HookEnds BY <1>19 DEF HookEnds
<1>20. ASSUME NEW c \in Dialled, CloseDialled(c) PROVE Custody'
     BY <1>20 DEF CloseDialled
<1>21. CASE UNCHANGED vars BY <1>21 DEF vars
<1>. QED
  BY <1>1, <1>2, <1>3, <1>4, <1>5, <1>6, <1>7, <1>8, <1>9, <1>10, <1>11, <1>12, <1>13,
      <1>14, <1>15, <1>16, <1>17, <1>18, <1>19, <1>20, <1>21
  DEF Next, AcceptStep, DialStep, ReadStep, CloseStep, Conns

(* A link that is up keeps a thread.                                         *)
LEMMA LinkStep ==
  ASSUME TypeOK, Custody, LinkHasThread, [Next]_vars
  PROVE  LinkHasThread'
<1> USE Apart DEF Set, Moves, endpointVars, listenVars, acceptVars, TypeOK, Custody,
    LinkHasThread
<1>1. ASSUME NEW c \in Incoming, Connect(c) PROVE LinkHasThread'
     BY <1>1 DEF Connect
<1>2. ASSUME NEW c \in Incoming, Accept(c) PROVE LinkHasThread' BY <1>2 DEF Accept
<1>3. CASE AcceptBreaks BY <1>3 DEF AcceptBreaks
<1>4. ASSUME NEW c \in Incoming, Insert(c) PROVE LinkHasThread'
     BY <1>4 DEF Insert, Rejects
<1>5. ASSUME NEW c \in Incoming, Reject(c) PROVE LinkHasThread' BY <1>5 DEF Reject
<1>6. ASSUME NEW c \in Incoming, RegisterAccepted(c) PROVE LinkHasThread'
     BY <1>6 DEF RegisterAccepted, Register
<1>7. ASSUME NEW c \in Incoming, Spawn(c) PROVE LinkHasThread' BY <1>7 DEF Spawn
<1>8. ASSUME NEW c \in Dialled, Dial(c) PROVE LinkHasThread' BY <1>8 DEF Dial
<1>9. ASSUME NEW c \in Dialled, RegisterDialled(c) PROVE LinkHasThread'
     BY <1>9 DEF RegisterDialled, Register
<1>10. ASSUME NEW c \in Dialled, RegisterHook(c) PROVE LinkHasThread'
     BY <1>10 DEF RegisterHook, LateHook
<1>11. ASSUME NEW c \in Dialled, SpawnDialled(c) PROVE LinkHasThread'
     BY <1>11 DEF SpawnDialled
<1>12. ASSUME NEW c \in Conns, ReadEnds(c) PROVE LinkHasThread'
     BY <1>12 DEF ReadEnds
<1>13. ASSUME NEW c \in Conns, ReadRaises(c) PROVE LinkHasThread'
     BY <1>13 DEF ReadRaises
<1>14. ASSUME NEW c \in Conns, Ensure(c) PROVE LinkHasThread'
     BY <1>14 DEF Ensure, Down, LinkDown, AfterEnsure
<1>15. ASSUME NEW c \in Conns, Delete(c) PROVE LinkHasThread'
     BY <1>15 DEF Delete, Without
<1>16. CASE Close BY <1>16 DEF Close
<1>17. CASE HookBegins BY <1>17 DEF HookBegins
<1>18. ASSUME NEW c \in Incoming, HookCloses(c) PROVE LinkHasThread'
     BY <1>18 DEF HookCloses
<1>19. CASE HookEnds BY <1>19 DEF HookEnds
<1>20. ASSUME NEW c \in Dialled, CloseDialled(c) PROVE LinkHasThread'
     BY <1>20 DEF CloseDialled
<1>21. CASE UNCHANGED vars BY <1>21 DEF vars
<1>. QED
  BY <1>1, <1>2, <1>3, <1>4, <1>5, <1>6, <1>7, <1>8, <1>9, <1>10, <1>11, <1>12, <1>13,
      <1>14, <1>15, <1>16, <1>17, <1>18, <1>19, <1>20, <1>21
  DEF Next, AcceptStep, DialStep, ReadStep, CloseStep, Conns

(* The conjunction is an inductive invariant.                              *)
LEMMA Inductive == Spec => []IInv
<1>1. Init => IInv
  BY TcpAssumption DEF Init, IInv, TypeOK, Custody, LinkHasThread, NothingEscapes,
      Conns
<1>2. ASSUME IInv, [Next]_vars PROVE IInv'
  <2>1. TypeOK' BY <1>2, TypeStep DEF IInv
  <2>2. Custody' BY <1>2, CustodyStep DEF IInv
  <2>3. LinkHasThread' BY <1>2, LinkStep DEF IInv
  <2>4. ASSUME TypeOK', Custody' PROVE NothingEscapes'
    BY <2>4, Apart DEF TypeOK, Custody, NothingEscapes
  <2>. QED BY <2>1, <2>2, <2>3, <2>4 DEF IInv
<1>. QED BY <1>1, <1>2, PTL DEF Spec

(* The bearer's state always has its types.                                 *)
THEOREM TypeCorrect == Spec => []TypeOK
BY Inductive, PTL DEF IInv

(* A link that core takes to be up has a thread that will take it down.     *)
THEOREM LinksHaveThreads == Spec => []LinkHasThread
BY Inductive, PTL DEF IInv

(* After the hook of listen no accepted socket is open, but the one that    *)
(* the accept thread is about to reject.                                    *)
THEOREM NoSocketEscapes == Spec => []NothingEscapes
BY Inductive, PTL DEF IInv
=============================================================================
