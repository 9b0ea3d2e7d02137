---------------------------- MODULE MCWssServer ----------------------------
(* Instances of WssServer for TLC; its worker threads are interchangeable.  *)
EXTENDS WssServer, TLC
Interchangeable == Permutations(Workers) \cup Permutations(Conns)
=============================================================================
