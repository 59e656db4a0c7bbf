----------------------------- MODULE GreyRules -----------------------------
(***************************************************************************)
(* The greylister reader's update rules (spec.md section 4.3), shared by   *)
(* the models of both database drivers.  grey.c is not among the sources  *)
(* under src/: these follow the tuple update rule of the spec.  Each rule  *)
(* yields the DB_put and DB_del calls of one reader transaction at time t. *)
(***************************************************************************)
EXTENDS GreyKeys

CONSTANTS
    PassTime,     \* grey.pass_time
    GreyExp,      \* grey.grey_expiry
    TrapExp,      \* grey.trap_expiry
    Spamtraps,    \* recipients stored in the spamtraps name-space
    Permitted,    \* recipients whose domain matches a permitted domain
    LowPrioMX     \* low_prio_mx, or an address outside IPs when unset

\* Rule 1: a spamtrap recipient, or a domain outside the permitted ones.
TrapsSender(r) == r \in Spamtraps \/ r \notin Permitted

\* Rules 1-4 for GREY(ip, to) against the rows db.
GreyUpdate(db, t, ip, r) ==
    LET k    == TupleKey(ip, r)
        v    == db[k]
        seen == [v EXCEPT !.bcount = @ + 1, !.expire = t + GreyExp]
    IN
    CASE TrapsSender(r) ->
           Update(IPKey(ip) :> GreyData(t, t, t + TrapExp, 1, -1), {})
      [] ip = LowPrioMX ->
           Update(IPKey(ip) :> GreyData(t, t, t + WhiteExp, 1, 0), {})
      [] k \in DOMAIN db /\ v.pass <= t ->
           Update(IPKey(ip) :> [seen EXCEPT !.pcount = 0, !.expire = t + WhiteExp], {k})
      [] k \in DOMAIN db ->
           Update(k :> seen, {})
      [] OTHER ->
           Update(k :> GreyData(t, t + PassTime, t + GreyExp, 1, 0), {})

\* A WHITE or TRAP record: add or delete the IP-keyed record.
\* Mutant: a TRAP record stored with the spamtrap marker.
AddrUpdateWrongMarker(t, e) ==
    IF e.delete THEN Update(<<>>, {IPKey(e.ip)})
    ELSE Update(IPKey(e.ip) :> GreyData(t, t, e.expires, 0,
                                       IF e.type = "WHITE" THEN 0 ELSE -2), {})

AddrUpdate(t, e) ==
    IF e.delete THEN Update(<<>>, {IPKey(e.ip)})
    ELSE Update(IPKey(e.ip) :> GreyData(t, t, e.expires, 0,
                                       IF e.type = "WHITE" THEN 0 ELSE -1), {})

=============================================================================
