------------------------------- MODULE MCMapView -------------------------------
(* The view of the map alone, for TLC. *)
EXTENDS MapView
===============================================================================
