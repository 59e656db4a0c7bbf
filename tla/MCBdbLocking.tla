---------------------------- MODULE MCBdbLocking ----------------------------
(***************************************************************************)
(* The reader and the scanner on a two-page entries file: one peer        *)
(* address, a permitted recipient and a spamtrap; rows that are past      *)
(* their pass time, not yet passed, expired, or a trap.                   *)
(***************************************************************************)
EXTENDS BdbLocking

CONSTANTS i1, ok1, trap, noMX, p1, p2

MC_IPs         == {i1}
MC_Rcpts       == {ok1, trap}
MC_Spamtraps   == {trap}
MC_Permitted   == {ok1, trap}
MC_Pages       == {p1, p2}
MC_BucketOrder == <<p1, p2>>

\* At time 1: passed, not yet passed, expired, and a trap record.
MC_InitRows ==
    {GreyData(0, 0, 3, 1, 0), GreyData(1, 2, 3, 1, 0),
     GreyData(0, 0, 1, 1, 0), GreyData(0, 0, 3, 1, -1)}

=============================================================================
