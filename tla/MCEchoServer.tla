--------------------------- MODULE MCEchoServer ---------------------------
(* Model checking instance of EchoServer. *)
EXTENDS EchoServer, TLC

Symmetry == Permutations(Clients)
=============================================================================
