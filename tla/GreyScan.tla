------------------------------ MODULE GreyScan ------------------------------
(***************************************************************************)
(* What the greylisting engine promises (spec.md sections 3 and 4.3), with *)
(* a scan that is one atomic step.  The reader applies one pipe record per *)
(* transaction or drops it; a scan at a time t no later than the clock     *)
(* replaces the entries by an outcome of the scan algorithm and hands the *)
(* firewall the addresses the outcome whitelists and traps.               *)
(*                                                                         *)
(* The scan algorithm iterates the entries in an order the back-end       *)
(* chooses.  Its outcome is therefore a set: ScanOutcome(E, t, R) says    *)
(* that R is one of the tables a scan of E at time t may leave.           *)
(***************************************************************************)
EXTENDS GreyRules, Sequences

CONSTANTS
    MaxTime,      \* bound on the clock
    MaxEvents     \* bound on the events written to the grey pipe

VARIABLES
    entries,      \* the DB_ENTRIES name-space: key -> Grey_data
    now,          \* the wall clock
    pipe,         \* the grey pipe
    fwWhite,      \* the whitelist last installed by fw_replace
    fwTrap,       \* the traplist last sent to the blacklist loader
    sent          \* number of events written to the pipe

vars == <<entries, now, pipe, fwWhite, fwTrap, sent>>

Init ==
    /\ entries = <<>>
    /\ now = 0
    /\ pipe = <<>>
    /\ fwWhite = {}
    /\ fwTrap = {}
    /\ sent = 0

-----------------------------------------------------------------------------
(* Section 3: expired records with pcount > -2 are deleted by the scan.    *)
Live(E, t) == {k \in DOMAIN E : ~(E[k].expire <= t /\ E[k].pcount > -2)}

\* A trap record for ip (pcount = -1), in the rows S of E.
TrappedIn(E, S, ip) == IPKey(ip) \in S /\ E[IPKey(ip)].pcount = -1

\* Tuples of ip past their pass time that survive the expiry rule.
Candidates(E, t, ip) ==
    {k \in Live(E, t) : k.type = "TUPLE" /\ k.ip = ip
                        /\ E[k].pcount >= 0 /\ E[k].pass <= t}

(* The tuples of ip a scan may promote.  A trap blocks promotion; a trap  *)
(* that has itself expired blocks only the tuples visited before it is    *)
(* deleted, so any subset may be promoted.                                *)
MayPromote(E, t, ip, P) ==
    CASE TrappedIn(E, Live(E, t), ip) -> P = {}
      [] TrappedIn(E, DOMAIN E, ip)   -> P \subseteq Candidates(E, t, ip)
      [] OTHER                        -> P = Candidates(E, t, ip)

(* R is a table a scan of E at time t may leave: the tuples it promoted   *)
(* are gone, each promoted address has an IP-keyed whitelist record made *)
(* from one of its promoted tuples with expire = t + white_exp, and every *)
(* other live row is unchanged.                                           *)
ScanOutcome(E, t, R) ==
    LET Tuples   == {k \in Live(E, t) : k.type = "TUPLE"}
        Promoted == Tuples \ DOMAIN R
        P(ip)    == {k \in Promoted : k.ip = ip}
        Kept     == Live(E, t) \ (Promoted \cup {IPKey(ip) : ip \in {k.ip : k \in Promoted}})
    IN
    /\ \A ip \in IPs : MayPromote(E, t, ip, P(ip))
    /\ DOMAIN R = Kept \cup {IPKey(k.ip) : k \in Promoted}
    /\ \A k \in Kept : R[k] = E[k]
    /\ \A ip \in {k.ip : k \in Promoted} :
         \E k \in P(ip) : R[IPKey(ip)] = [E[k] EXCEPT !.expire = t + WhiteExp]

\* The addresses the scan hands to fw_replace and to the trap loader.
WhiteAddrs(R, t) == {ip \in IPs : IPKey(ip) \in DOMAIN R /\ R[IPKey(ip)].pcount >= 0
                                                          /\ R[IPKey(ip)].pass <= t}
TrapAddrs(R) == {ip \in IPs : TrappedIn(R, DOMAIN R, ip)}

-----------------------------------------------------------------------------
Events == {[type |-> "GREY", ip |-> i, to |-> r] : i \in IPs, r \in Rcpts}
          \cup [type : {"WHITE", "TRAP"}, ip : IPs, expires : 0..MaxTime + TrapExp,
                delete : BOOLEAN]

\* A connection or a sync peer writes a record to the pipe.
Write ==
    /\ sent < MaxEvents
    /\ \E e \in Events : pipe' = Append(pipe, e)
    /\ sent' = sent + 1
    /\ UNCHANGED <<entries, now, fwWhite, fwTrap>>

\* The reader applies the head record in one transaction (rules 1-4) ...
Read ==
    LET e == Head(pipe) IN
    /\ pipe # <<>>
    /\ entries' = Apply(entries, IF e.type = "GREY" THEN GreyUpdate(entries, now, e.ip, e.to)
                                 ELSE AddrUpdate(now, e))
    /\ pipe' = Tail(pipe)
    /\ UNCHANGED <<now, fwWhite, fwTrap, sent>>

\* ... or the transaction fails, is rolled back and the record dropped.
Drop ==
    /\ pipe # <<>>
    /\ pipe' = Tail(pipe)
    /\ UNCHANGED <<entries, now, fwWhite, fwTrap, sent>>

\* A scan that commits, at a time t read no later than now.
Scan ==
    /\ \E t \in 0..now :
         /\ ScanOutcome(entries, t, entries')
         /\ fwWhite' = WhiteAddrs(entries', t)
         /\ fwTrap' = TrapAddrs(entries')
    /\ UNCHANGED <<now, pipe, sent>>

Tick ==
    /\ now < MaxTime
    /\ now' = now + 1
    /\ UNCHANGED <<entries, pipe, fwWhite, fwTrap, sent>>

Next == Write \/ Read \/ Drop \/ Scan \/ Tick

Spec == Init /\ [][Next]_vars

=============================================================================
