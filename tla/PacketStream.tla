----------------------------- MODULE PacketStream -----------------------------
(***************************************************************************)
(* What one direction of a link promises (wss_bearer.rb:5-6,                *)
(* tcp_bearer.rb:6-7): packets arrive whole and in the order in which they  *)
(* were drained.  A packet whose write fails is lost; what follows it still *)
(* arrives, unless the stream is no longer whole.                           *)
(***************************************************************************)
EXTENDS Sequences, SequencesExt

CONSTANTS Packet, PayloadOf(_)
VARIABLES queue, got, whole      (* Under way; delivered; frames line up.     *)

Send == \E p \in Packet : queue' = Append(queue, p) /\ UNCHANGED <<got, whole>>
Receive ==
  /\ queue # <<>> /\ whole
  /\ got' = Append(got, PayloadOf(queue[1])) /\ queue' = Tail(queue) /\ UNCHANGED whole
Lose == queue # <<>> /\ queue' = Front(queue) /\ whole' \in {whole, FALSE} /\ UNCHANGED got
Break == whole' = FALSE /\ UNCHANGED <<queue, got>>
Garble == ~whole /\ got' # <<>> /\ got = Front(got') /\ UNCHANGED <<queue, whole>>

Init == queue = <<>> /\ got = <<>> /\ whole = TRUE
Next == Send \/ Receive \/ Lose \/ Break \/ Garble
Spec == Init /\ [][Next]_<<queue, got, whole>>
=============================================================================
