---------------------------- MODULE MCSocketPool ----------------------------
(* Threads and sockets are interchangeable. *)
EXTENDS SocketPool, TLC

Symmetry == Permutations(Threads) \cup Permutations(Sockets)
=============================================================================
