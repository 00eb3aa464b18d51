----------------------------- MODULE TileReads -----------------------------
(***************************************************************************)
(* What the map service promises a client that asks for tiles: the image   *)
(* it is given may be old, but successive answers to the same kind of      *)
(* request never go back to an older image.                                *)
(*                                                                         *)
(* rows   the version of each tile in the database; 0 when there is none   *)
(* view   the latest version each reader has been given of each tile       *)
(***************************************************************************)
EXTENDS Naturals

CONSTANTS Readers, Tiles

VARIABLES rows, view
rvars == <<rows, view>>

RInit ==
    /\ rows = [t \in Tiles |-> 0]
    /\ view = [r \in Readers |-> [t \in Tiles |-> 0]]

\* The owner of the database adds a tile or replaces its image.
Write(t) ==
    /\ rows' = [rows EXCEPT ![t] = @ + 1]
    /\ UNCHANGED view

\* A reader is given a version it may have missed, never an older one.
Read(r, t) ==
    /\ \E v \in view[r][t] .. rows[t] : view' = [view EXCEPT ![r][t] = v]
    /\ UNCHANGED rows

RNext ==
    \E t \in Tiles : Write(t) \/ \E r \in Readers : Read(r, t)

RSpec == RInit /\ [][RNext]_rvars
=============================================================================
