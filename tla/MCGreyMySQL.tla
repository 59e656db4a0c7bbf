---------------------------- MODULE MCGreyMySQL ----------------------------
(***************************************************************************)
(* Model of greyd hosts sharing one MySQL database, for TLC: one or two   *)
(* hosts, two peers, two recipients in a permitted domain (so that two    *)
(* tuples of one address race in the UPDATE IGNORE), a bounce envelope    *)
(* (MAIL FROM:<>) to a permitted recipient, and a spamtrap.               *)
(***************************************************************************)
EXTENDS GreyMySQL

CONSTANTS h1, h2, i1, i2, ok1, ok2, bnc, trap, noMX

MC_Hosts     == {h1, h2}
MC_OneHost   == {h1}
MC_IPs       == {i1, i2}
MC_OneIP     == {i1}
MC_Rcpts     == {ok1, ok2, bnc, trap}
MC_Bounces   == {bnc}
MC_Spamtraps == {trap}
MC_Permitted == {ok1, ok2, bnc, trap}

=============================================================================
