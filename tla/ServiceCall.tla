---------------------------- MODULE ServiceCall ----------------------------
(***************************************************************************)
(* What Endpoint#request promises its callers (lib/hop/endpoint.rb:82-105): *)
(* a call that was issued is answered or raises, it is answered only while  *)
(* the endpoint is open, and core gives up ("retires") its durable copy of  *)
(* the response in the very step in which the caller is answered.  Endpoint *)
(* implements this specification.                                           *)
(***************************************************************************)
CONSTANT Calls

VARIABLES
  open,     (* the endpoint was not closed                                  *)
  call,     (* what the caller of each request has seen so far              *)
  response  (* core's copy of the response to each request                  *)

vars == <<open, call, response>>

Init ==
  /\ open = TRUE
  /\ call = [r \in Calls |-> "idle"]
  /\ response = [r \in Calls |-> "none"]

Moves(r, from, to) == call[r] = from /\ call' = [call EXCEPT ![r] = to]

Issue(r) == open /\ Moves(r, "idle", "open") /\ UNCHANGED <<open, response>>

Refuse(r) == Moves(r, "idle", "refused") /\ UNCHANGED <<open, response>>

Arrive(r) ==
  /\ call[r] \notin {"idle", "refused"} /\ response[r] = "none"
  /\ response' = [response EXCEPT ![r] = "held"]
  /\ UNCHANGED <<open, call>>

Answer(r) ==
  /\ open /\ response[r] = "held" /\ Moves(r, "open", "answered")
  /\ response' = [response EXCEPT ![r] = "retired"]
  /\ UNCHANGED open

Abandon(r) == Moves(r, "open", "raised") /\ UNCHANGED <<open, response>>

Shut == open' = FALSE /\ UNCHANGED <<call, response>>

Next == Shut \/ \E r \in Calls : Issue(r) \/ Refuse(r) \/ Arrive(r) \/ Answer(r) \/ Abandon(r)

Safety == Init /\ [][Next]_vars

(* The caller is not left waiting: an issued call is answered or raises.    *)
Fairness == \A r \in Calls : WF_vars(Answer(r) \/ Abandon(r))
Spec == Safety /\ Fairness
=============================================================================
