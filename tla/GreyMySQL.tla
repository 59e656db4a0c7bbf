----------------------------- MODULE GreyMySQL -----------------------------
(***************************************************************************)
(* The MySQL driver of src/drivers/mysql.c, with several greyd hosts       *)
(* sharing one database.  Every row of the entries table carries the      *)
(* greyd_host of the host whose Mod_db_put (REPLACE INTO) wrote it last.   *)
(*                                                                         *)
(* Each host runs the greylister reader (the rules of GreyRules, applied  *)
(* with Mod_db_put and Mod_db_del) and the scanner, which opens a          *)
(* transaction, calls Mod_scan_db and hands the two lists it returns to    *)
(* its firewall.  Mod_scan_db is three SQL statements: a DELETE of the     *)
(* host's expired rows, an UPDATE IGNORE that turns the host's passed      *)
(* tuples into IP rows, and a SELECT of every IP row.                      *)
(*                                                                         *)
(* InnoDB serialises the transactions: the scan's DELETE and UPDATE have  *)
(* no index on expire or pass and lock every row and gap they scan, so no  *)
(* other transaction writes between the scan's first statement and its     *)
(* commit.  A reader transaction is one step taken while no scan is open. *)
(* UNIX_TIMESTAMP() and the caller's *now are the one clock `now`: the     *)
(* time unit is a scan interval and the statements take milliseconds.     *)
(***************************************************************************)
EXTENDS GreyRules, FiniteSets

CONSTANTS
    Hosts,        \* the greyd hosts sharing the database
    MaxTime,      \* bound on the clock
    MaxEvents,    \* bound on the GREY events the readers apply
    MaxDbErrors,  \* bound on failing SQL statements
    Bounces       \* envelopes of Rcpts whose sender is empty (MAIL FROM:<>)

VARIABLES
    entries,      \* the entries table: key -> Grey_data
    owner,        \* owner[k]: the greyd_host column of row k
    now,          \* the clock, in scan-interval units
    scan,         \* the open scan: host, time, failed statement, lists
    fw,           \* fw[h]: the whitelist and traplist host h last installed
    alive,        \* hosts whose greyd process is still running
    events,       \* GREY events applied so far
    dbErrors      \* SQL statements that have failed so far

vars == <<entries, owner, now, scan, fw, alive, events, dbErrors>>

NULL == "NULL"    \* an SQL NULL column

NoScan == [phase |-> "idle", host |-> NULL, now |-> 0, stmt |-> "none",
           wl |-> {}, tl |-> {}]

\* The statement of Mod_scan_db that fails and jumps to err, or none.
FailPoints == {"delete", "update", "select", "store"}

Times == 0..MaxTime + GreyExp + WhiteExp + TrapExp

TypeOK ==
    /\ DOMAIN entries \subseteq Keys
    /\ \A k \in DOMAIN entries :
         entries[k] \in [first : Times, pass : Times, expire : Times,
                         bcount : 0..MaxEvents, pcount : {-1, 0}]
    /\ owner \in [DOMAIN entries -> Hosts]
    /\ now \in 0..MaxTime
    /\ scan.phase \in {"idle", "open", "done"}
    /\ scan.wl \subseteq IPs /\ scan.tl \subseteq IPs
    /\ fw \in [Hosts -> [white : SUBSET IPs, trap : SUBSET IPs]]
    /\ alive \subseteq Hosts
    /\ events \in 0..MaxEvents
    /\ dbErrors \in 0..MaxDbErrors

Init ==
    /\ entries = <<>>
    /\ owner = <<>>
    /\ now = 0
    /\ scan = NoScan
    /\ fw = [h \in Hosts |-> [white |-> {}, trap |-> {}]]
    /\ alive = Hosts
    /\ events = 0
    /\ dbErrors = 0

-----------------------------------------------------------------------------
(***************************************************************************)
(* The reader: Mod_db_put is a REPLACE INTO that writes the row with the   *)
(* host's own greyd_host; Mod_db_del a DELETE of the row.                  *)
(***************************************************************************)

\* Mutant: the REPLACE INTO without the greyd_host column (left NULL).
OwnersNoHost(o, db, u, h) ==
    [k \in DOMAIN db |-> IF k \in DOMAIN u.put THEN NULL ELSE o[k]]

\* The greyd_host column after the puts and dels u of host h.
Owners(o, db, u, h) ==
    [k \in DOMAIN db |-> IF k \in DOMAIN u.put THEN h ELSE o[k]]

(* Mod_db_get of a tuple key: SELECT ... LIMIT 1.  res starts as         *)
(* GREYDB_NOT_FOUND and a query that fails (killed, timed out, or the     *)
(* asprintf before it out of memory) jumps to err, so the call returns    *)
(* NOT_FOUND then, never GREYDB_ERR.  A query fails when fails is TRUE.    *)
Mod_db_get(db, k, fails) ==
    IF ~fails /\ k \in DOMAIN db THEN "FOUND" ELSE "NOT_FOUND"

\* The rows as the reader's rules see them after its get of the tuple.
ReaderView(db, k, fails) ==
    IF Mod_db_get(db, k, fails) = "FOUND" THEN db
    ELSE DB_del(db, k)

(* The reader's SQL statement that fails, or none: its get, a REPLACE    *)
(* INTO of Mod_db_put, or the DELETE of Mod_db_del.                        *)
ReaderFailPoints == {"none", "get", "put", "del"}

(* Mod_db_put and Mod_db_del: a statement that fails calls               *)
(* DB_rollback_txn and returns GREYDB_ERR, and the reader drops the event, *)
(* so the transaction leaves the table as it was.                          *)
ReaderWrite(u, fail) ==
    IF fail \in {"put", "del"} THEN Update(<<>>, {}) ELSE u

(* One GREY event of host h: the get of the tuple, then the puts and dels *)
(* of the rules, written over the table as it is (REPLACE INTO).          *)
Read(h, ip, r) ==
    \E fail \in ReaderFailPoints :
      LET u == ReaderWrite(GreyUpdate(ReaderView(entries, TupleKey(ip, r), fail = "get"),
                                      now, ip, r), fail)
      IN
      /\ h \in alive
      /\ scan.phase = "idle"
      /\ events < MaxEvents
      /\ fail # "none" => dbErrors < MaxDbErrors
      /\ fail = "del" => GreyUpdate(entries, now, ip, r).del # {}
      /\ entries' = Apply(entries, u)
      /\ owner' = Owners(owner, Apply(entries, u), u, h)
      /\ events' = events + 1
      /\ dbErrors' = IF fail = "none" THEN dbErrors ELSE dbErrors + 1
      /\ UNCHANGED <<now, scan, fw, alive>>

-----------------------------------------------------------------------------
(***************************************************************************)
(* Mod_scan_db of host h at time t.                                        *)
(***************************************************************************)

\* Mutant: a row expiring exactly at the scan time is kept.
ScanDeleteStrict(db, o, h, t) ==
    Restrict(db, {k \in DOMAIN db : ~(o[k] = h /\ db[k].expire < t)})

\* DELETE FROM entries WHERE expire <= UNIX_TIMESTAMP() AND greyd_host = h
ScanDelete(db, o, h, t) ==
    Restrict(db, {k \in DOMAIN db : ~(o[k] = h /\ db[k].expire <= t)})

\* Mutant: a tuple passing exactly at the scan time is not promoted.
PromotableStrict(db, o, k, h, t) ==
    /\ k.type = "TUPLE" /\ k.to \notin Bounces
    /\ db[k].pcount >= 0 /\ IPKey(k.ip) \notin DOMAIN db
    /\ db[k].pass < t /\ o[k] = h

(* The rows the UPDATE IGNORE ... LEFT JOIN matches: the host's tuples    *)
(* with from and to not empty (a bounce tuple, from = '', never matches),  *)
(* pcount >= 0 and pass <= UNIX_TIMESTAMP(), whose address has no IP row  *)
(* (g.ip IS NULL).                                                         *)
Promotable(db, o, k, h, t) ==
    /\ k.type = "TUPLE" /\ k.to \notin Bounces
    /\ db[k].pcount >= 0 /\ IPKey(k.ip) \notin DOMAIN db
    /\ db[k].pass <= t /\ o[k] = h

(* Setting helo, from and to to '' re-keys a tuple as the IP row of its   *)
(* address; the first such row of an address takes the key and IGNORE    *)
(* skips the others of that address, which keep their tuple rows.  Which *)
(* tuple comes first is the server's row order: w[ip] is the one that     *)
(* does.                                                                   *)
Winners(db, o, h, t) ==
    LET cand(ip) == {k \in DOMAIN db : k.ip = ip /\ Promotable(db, o, k, h, t)}
        ips      == {ip \in IPs : cand(ip) # {}}
    IN {w \in [ips -> DOMAIN db] : \A ip \in ips : w[ip] \in cand(ip)}

\* The rows after the UPDATE: the winners re-keyed, expiring at now + white_exp.
Promote(db, w, t) ==
    LET keep == DOMAIN db \ {w[ip] : ip \in DOMAIN w} IN
    [k \in keep \cup {IPKey(ip) : ip \in DOMAIN w} |->
        IF k \in keep THEN db[k] ELSE [db[w[k.ip]] EXCEPT !.expire = t + WhiteExp]]

\* The UPDATE leaves greyd_host as it was.
PromoteOwner(o, w) ==
    LET keep == DOMAIN o \ {w[ip] : ip \in DOMAIN w} IN
    [k \in keep \cup {IPKey(ip) : ip \in DOMAIN w} |->
        IF k \in keep THEN o[k] ELSE o[w[k.ip]]]

\* The SELECT ... UNION: every IP row of the table, of any host and expiry.
WhiteList(db) == {ip \in IPs : IPKey(ip) \in DOMAIN db /\ db[IPKey(ip)].pcount >= 0}
TrapList(db)  == {ip \in IPs : IPKey(ip) \in DOMAIN db /\ db[IPKey(ip)].pcount < 0}

(* One call.  A statement that fails jumps to err, and the function       *)
(* returns ret, which is still GREYDB_OK, with the lists empty and the    *)
(* statements before it in effect.  A jump from before the declaration of *)
(* result reaches "if (result) mysql_free_result(result)" with result     *)
(* uninitialized: the process either carries on or dies, and the server   *)
(* rolls back the transaction of the closed connection.                   *)
Mod_scan_db(h) ==
    LET t  == now
        e1 == ScanDelete(entries, owner, h, t)
        o1 == Restrict(owner, DOMAIN e1)
    IN
    /\ scan.phase = "open" /\ scan.host = h
    /\ \E w \in Winners(e1, o1, h, t),
          stmt \in {"none"} \cup (IF dbErrors < MaxDbErrors THEN FailPoints ELSE {}) :
         LET done == stmt \in {"none", "store"}
             e2   == IF done \/ stmt = "select" THEN Promote(e1, w, t)
                     ELSE IF stmt = "update" THEN e1 ELSE entries
             o2   == IF done \/ stmt = "select" THEN PromoteOwner(o1, w)
                     ELSE IF stmt = "update" THEN o1 ELSE owner
         IN
         /\ dbErrors' = IF stmt = "none" THEN dbErrors ELSE dbErrors + 1
         /\ \/ /\ entries' = e2 /\ owner' = o2
               /\ scan' = [scan EXCEPT !.phase = "done", !.now = t, !.stmt = stmt,
                                       !.wl = IF stmt = "none" THEN WhiteList(e2) ELSE {},
                                       !.tl = IF stmt = "none" THEN TrapList(e2) ELSE {}]
               /\ UNCHANGED alive
            \/ /\ ~done
               /\ alive' = alive \ {h}
               /\ scan' = NoScan
               /\ UNCHANGED <<entries, owner>>
    /\ UNCHANGED <<now, fw, events>>

\* Mod_db_start_txn: START TRANSACTION on the scanner's handle.
ScanBegin(h) ==
    /\ h \in alive
    /\ scan.phase = "idle"
    /\ scan' = [NoScan EXCEPT !.phase = "open", !.host = h]
    /\ UNCHANGED <<entries, owner, now, fw, alive, events, dbErrors>>

\* DB_scan returned GREYDB_OK, as it always does: commit, then install the
\* whitelist and send the traplist.
ScanCommit(h) ==
    /\ scan.phase = "done" /\ scan.host = h
    /\ fw' = [fw EXCEPT ![h] = [white |-> scan.wl, trap |-> scan.tl]]
    /\ scan' = NoScan
    /\ UNCHANGED <<entries, owner, now, alive, events, dbErrors>>

Tick ==
    /\ now < MaxTime
    /\ now' = now + 1
    /\ UNCHANGED <<entries, owner, scan, fw, alive, events, dbErrors>>

Next ==
    \/ \E h \in Hosts :
         \/ \E ip \in IPs, r \in Rcpts : Read(h, ip, r)
         \/ ScanBegin(h)
         \/ Mod_scan_db(h)
         \/ ScanCommit(h)
    \/ Tick

Spec == Init /\ [][Next]_vars

(* Every host's scanner runs every db_scan_interval.  Its START            *)
(* TRANSACTION and DELETE wait on the locks of another host's open scan   *)
(* and InnoDB grants them when that scan commits, so a host that keeps    *)
(* trying gets its turn (strong fairness); once open, its statements and  *)
(* the commit follow.  The readers, the clock and failures get none.      *)
FairSpec ==
    /\ Spec
    /\ \A h \in Hosts :
         /\ SF_vars(ScanBegin(h))
         /\ WF_vars(Mod_scan_db(h))
         /\ WF_vars(ScanCommit(h))

-----------------------------------------------------------------------------
(***************************************************************************)
(* Properties.                                                             *)
(***************************************************************************)

LiveWhite(db, ip, t) ==
    IPKey(ip) \in DOMAIN db /\ db[IPKey(ip)].pcount >= 0 /\ db[IPKey(ip)].expire > t

\* The step that commits host h's scan and installs its lists.
Committing(h) == scan.phase = "done" /\ scan.host = h /\ scan'.phase = "idle"

(* A tuple row of host h with a sender, past its pass time at t.        *)
PassedTuple(k, h, t) ==
    /\ k.type = "TUPLE" /\ owner[k] = h
    /\ entries[k].pcount >= 0 /\ entries[k].pass <= t

(* After a Mod_scan_db call of host h whose statements all succeed, none  *)
(* of h's rows is expired, and every tuple of h with a sender that is past *)
(* its pass time has an IP row for its address: the DELETE, the UPDATE    *)
(* IGNORE with its LEFT JOIN (where one tuple of an address wins and the  *)
(* others are skipped), and the reader's REPLACE INTO together leave no   *)
(* passed sender of h without a whitelist or trap row.  Bounce tuples are *)
(* left out: the UPDATE's e.from <> '' never promotes them.               *)
OwnScanSound ==
    scan.phase = "done" /\ scan.stmt = "none" =>
        LET h == scan.host
            t == scan.now
        IN \A k \in DOMAIN entries : owner[k] = h =>
              /\ entries[k].expire > t
              /\ PassedTuple(k, h, t) /\ k.to \notin Bounces
                    => IPKey(k.ip) \in DOMAIN entries

(* spec.md 3: expired records are deleted by scan.  Every address a host *)
(* installs in its firewall whitelist has a whitelist row that has not   *)
(* expired at the scan time.                                               *)
FirewallWhiteLive ==
    [][\A h \in Hosts : Committing(h) =>
          \A ip \in scan.wl : LiveWhite(entries, ip, scan.now)]_vars

(* spec.md 7: a DB error is transaction-local and the scan is rolled      *)
(* back.  A committed scan never drops from the firewall an address whose *)
(* whitelist row is live.                                                  *)
WhitelistNotDropped ==
    [][\A h \in Hosts : Committing(h) =>
          \A ip \in IPs : LiveWhite(entries, ip, scan.now) => ip \in scan.wl]_vars

(* spec.md 3: expired records are deleted by scan.  A row that has       *)
(* expired, written last by a host whose greyd is running, is eventually  *)
(* deleted or refreshed by a put, or its host dies: the scans of the hosts *)
(* that stay up delete their expired rows, after a rolled-back scan too.  *)
(* A dead host's rows stay, since every DELETE filters on greyd_host.     *)
ExpiredRowsDeleted ==
    \A k \in Keys :
        (k \in DOMAIN entries /\ entries[k].expire <= now /\ owner[k] \in alive)
            ~> \/ k \notin DOMAIN entries
               \/ entries[k].expire > now
               \/ owner[k] \notin alive

(* spec.md 4.3 and 7: a tuple seen again keeps its first-seen time, and a *)
(* get that fails rolls the reader's transaction back and drops the event.*)
(* No step of a reader or a scanner moves the first time of a tuple row   *)
(* that stays in the table, so a sender that waits out its pass time is   *)
(* never greylisted afresh.                                                *)
TupleFirstKept ==
    [][\A k \in DOMAIN entries \cap DOMAIN entries' :
          k.type = "TUPLE" => entries'[k].first = entries[k].first]_vars

=============================================================================
