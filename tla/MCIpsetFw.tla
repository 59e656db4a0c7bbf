----------------------------- MODULE MCIpsetFw ------------------------------
(***************************************************************************)
(* Two whitelist addresses, an entry inet_pton does not parse and the     *)
(* all-zero address as model values.                                      *)
(***************************************************************************)
EXTENDS IpsetFw

CONSTANTS a1, a2, junk, zero

MC_Addrs == {a1, a2}
MC_Junk  == {junk}

=============================================================================
