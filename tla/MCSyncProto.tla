---------------------------- MODULE MCSyncProto -----------------------------
(***************************************************************************)
(* Two greyd hosts that sync over multicast and list each other as unicast *)
(* peers, so every record reaches the peer twice and comes back to its     *)
(* sender once by multicast loopback.                                      *)
(***************************************************************************)
EXTENDS SyncProto, TLC

CONSTANTS h1, h2, i1, r1

MC_Hosts     == {h1, h2}
MC_SyncHosts == (h1 :> {h2}) @@ (h2 :> {h1})
MC_IPs       == {i1}
MC_Rcpts     == {r1}

=============================================================================
