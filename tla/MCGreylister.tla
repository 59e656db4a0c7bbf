---------------------------- MODULE MCGreylister ----------------------------
(***************************************************************************)
(* Model of one greyd host for TLC: two peers, a recipient in a permitted  *)
(* domain, a spamtrap address and one outside the permitted domains,       *)
(* the permitted ones found by check_partial_dom.                          *)
(* Times are counted in scan intervals.                                    *)
(***************************************************************************)
EXTENDS Greylister, PartialDom

CONSTANTS i1, i2, ok1, trap, bad, noMX

MC_IPs       == {i1, i2}
MC_Rcpts     == {ok1, trap, bad}
MC_Spamtraps == {trap}
\* The permitted-domains name-space and each recipient's domain: ok1's
\* differs from the permitted one in case only, bad's is a shorter tail.
MC_Domains    == {<<"a", "b">>}
MC_RcptDomain == (ok1 :> <<"A", "b">>) @@ (trap :> <<"a", "b">>) @@ (bad :> <<"b">>)

\* Rule 1's permitted test: DB_get of a DB_KEY_DOM_PART key.
MC_Permitted ==
    {r \in MC_Rcpts : check_partial_dom(MC_RcptDomain[r], MC_Domains) = "FOUND"}

(* spec.md 4.3 rule 1 with the DomPart lookup of 4.4: the reader traps   *)
(* the sender of a GREY event, and leaves its tuple row exactly as it     *)
(* was, iff the recipient is a spamtrap or no permitted domain is a       *)
(* case-insensitive suffix of the recipient's domain.  Every other rule    *)
(* writes, refreshes or promotes the tuple.  It ties the reader's rules   *)
(* to check_partial_dom's from_pos arithmetic and strcasecmp.              *)
SpecTraps(r) ==
    r \in MC_Spamtraps
    \/ ~\E d \in MC_Domains : IsSuffix(LowerSeq(d), LowerSeq(MC_RcptDomain[r]))

TupleUntouched(k) ==
    /\ (k \in DOMAIN entries) = (k \in DOMAIN entries')
    /\ k \in DOMAIN entries => entries'[k] = entries[k]

ReaderTrapsByRule1 ==
    [][ReadEvent /\ Head(pipe).type = "GREY" =>
         (SpecTraps(Head(pipe).to) <=> TupleUntouched(TupleKey(Head(pipe).ip, Head(pipe).to)))]_vars

\* No action or property singles out an address (LowPrioMX is none of them).
MC_Symmetry  == Permutations(MC_IPs)

=============================================================================
