----------------------------- MODULE MCEndpoint -----------------------------
(* Instances of Endpoint for TLC: every message is for the one service.     *)
EXTENDS Endpoint, TLC
ToFirstService == [m \in Messages |-> CHOOSE s \in Services : TRUE]
Interchangeable == Permutations(Calls) \cup Permutations(Closers) \cup Permutations(Hooks)
=============================================================================
