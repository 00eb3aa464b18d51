--------------------------- MODULE MCMqReceiver ---------------------------
(* Model checking instance of MqReceiver. *)
EXTENDS MqReceiver, TLC

Symmetry == Permutations(Clients)
=============================================================================
