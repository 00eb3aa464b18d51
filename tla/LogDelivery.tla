---------------------------- MODULE LogDelivery ----------------------------
(***************************************************************************)
(* What the log collector promises its producers: at-least-once handling.  *)
(* Records are settled in any order and any number of times; the           *)
(* acknowledged prefix only grows, and only over settled records.          *)
(***************************************************************************)
EXTENDS Naturals

VARIABLES total,    \* records produced so far
          acked,    \* records 1..acked are never delivered again
          settled   \* records somebody has dealt with

dvars == <<total, acked, settled>>

DInit == total = 0 /\ acked = 0 /\ settled = {}

Produce == total' = total + 1 /\ UNCHANGED <<acked, settled>>

Settle ==
    /\ \E S \in SUBSET (1..total) : settled' = settled \cup S
    /\ UNCHANGED <<total, acked>>

Acknowledge ==
    /\ acked' \in acked..total
    /\ 1..acked' \subseteq settled
    /\ UNCHANGED <<total, settled>>

DNext == Produce \/ Settle \/ Acknowledge

DSpec == DInit /\ [][DNext]_dvars
=============================================================================
