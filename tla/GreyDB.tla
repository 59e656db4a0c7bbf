------------------------------- MODULE GreyDB -------------------------------
(***************************************************************************)
(* The greylisting database as the Berkeley DB driver keeps it            *)
(* (src/drivers/bdb.c) and its scan routine Mod_scan_db.                   *)
(*                                                                         *)
(* The rows are those of GreyKeys.  The spamtraps and permitted-domain    *)
(* name-spaces live in separate BDB files that the                         *)
(* scan never iterates (it asks DB_get_itr for DB_ENTRIES only); they are  *)
(* constants here.                                                         *)
(*                                                                         *)
(* Mod_scan_db walks a cursor over the entries inside the caller's         *)
(* transaction.  Each ScanVisit step is one iteration of its loop body,    *)
(* with every DB call that iteration makes.  The cursor order of a DB_HASH *)
(* file is arbitrary, so the next key is chosen nondeterministically.      *)
(***************************************************************************)
EXTENDS GreyKeys, FiniteSets

CONSTANTS
    MaxDbErrors,  \* bound on failing DB calls (put/del/get returning ERR)
    EnvMayFail    \* whether the environment may fail for good (DB_RUNRECOVERY)

VARIABLES
    entries,      \* the DB_ENTRIES name-space: key -> Grey_data
    scan,         \* the state of one Mod_scan_db call and its cursor
    dbErrors,     \* number of DB calls that have failed so far
    envFailed     \* the environment has failed: every later call errs

dbVars == <<entries, scan, dbErrors, envFailed>>

NoScan == [phase |-> "idle", now |-> 0, todo |-> {}, wl |-> {}, tl |-> {},
           ret |-> "OK", snap |-> <<>>]

-----------------------------------------------------------------------------
(***************************************************************************)
(* Transactions (Mod_db_start_txn / commit / rollback).  The driver       *)
(* refuses a nested start; the snapshot taken at the start is what        *)
(* rollback restores.                                                      *)
(***************************************************************************)
DB_start_txn(now) ==
    /\ scan.phase = "idle"
    /\ scan' = [NoScan EXCEPT !.phase = "running", !.now = now,
                              !.todo = DOMAIN entries, !.snap = entries]

DB_commit_txn ==
    /\ scan.phase = "done"
    /\ scan' = NoScan

DB_rollback_txn ==
    /\ scan.phase = "done"
    /\ entries' = scan.snap
    /\ scan' = NoScan

-----------------------------------------------------------------------------
(***************************************************************************)
(* One iteration of the Mod_scan_db loop on the entry under the cursor.    *)
(***************************************************************************)
\* Mutant: an entry expiring exactly at the scan time survives it.
ExpiredStrict(v, now) == v.expire < now /\ v.pcount > -2

Expired(v, now) == v.expire <= now /\ v.pcount > -2

Passed(v, now)  == v.pcount >= 0 /\ v.pass <= now

\* The whitelist record written for a promoted tuple: its counters, re-keyed
\* by IP, expiring white_exp after the scan time.
WhiteRecord(v, now) == [v EXCEPT !.expire = now + WhiteExp]

\* Mod_db_itr_del_curr: the cursor deletes the row under it (DB_CURRENT).
DB_itr_del_curr(db, k) == DB_del(db, k)

\* Mutant: the promotion path without the DB_addr_state check.
ScanVisitNoAddrState(k) ==
    LET v == entries[k]
        s == [scan EXCEPT !.todo = @ \ {k}]
    IN
    /\ scan.phase = "running"
    /\ k \in scan.todo
    /\ CASE Expired(v, scan.now) ->
              entries' = DB_del(entries, k) /\ scan' = s
         [] v.pcount = -1 /\ k.type = "IP" ->
              scan' = [s EXCEPT !.tl = @ \cup {k.ip}] /\ UNCHANGED entries
         [] Passed(v, scan.now) /\ k.type = "TUPLE" ->
              /\ entries' = DB_del(DB_put(entries, IPKey(k.ip), WhiteRecord(v, scan.now)), k)
              /\ scan' = [s EXCEPT !.wl = @ \cup {k.ip}]
         [] OTHER ->
              scan' = [s EXCEPT !.wl = IF Passed(v, scan.now) THEN @ \cup {k.ip} ELSE @]
              /\ UNCHANGED entries
    /\ UNCHANGED <<dbErrors, envFailed>>

ScanVisit(k) ==
    LET v   == entries[k]
        now == scan.now
        s   == [scan EXCEPT !.todo = @ \ {k}]
    IN
    /\ scan.phase = "running"
    /\ ~envFailed
    /\ k \in scan.todo
    /\ CASE Expired(v, now) ->
              /\ entries' = DB_itr_del_curr(entries, k)
              /\ scan' = s
         [] v.pcount = -1 /\ k.type = "IP" ->
              /\ scan' = [s EXCEPT !.tl = @ \cup {k.ip}]
              /\ UNCHANGED entries
         [] Passed(v, now) /\ k.type = "TUPLE" /\ DB_addr_state(entries, k.ip) = 1 ->
              /\ scan' = s
              /\ UNCHANGED entries
         [] Passed(v, now) /\ k.type = "TUPLE" ->
              /\ entries' = DB_itr_del_curr(DB_put(entries, IPKey(k.ip), WhiteRecord(v, now)), k)
              /\ scan' = [s EXCEPT !.wl = @ \cup {k.ip}]
         [] Passed(v, now) /\ k.type = "IP" ->
              /\ scan' = [s EXCEPT !.wl = @ \cup {k.ip}]
              /\ UNCHANGED entries
         [] OTHER ->
              /\ scan' = s
              /\ UNCHANGED entries
    /\ UNCHANGED <<dbErrors, envFailed>>

\* A visit whose path makes a DB call (del of an expired row; get, put and
\* del of a promotion) and that call returns GREYDB_ERR: the loop jumps to
\* cleanup and Mod_scan_db returns GREYDB_ERR with the earlier changes of
\* the transaction still in place.
ScanFail(k) ==
    LET v == entries[k] IN
    /\ scan.phase = "running"
    /\ ~envFailed
    /\ k \in scan.todo
    /\ dbErrors < MaxDbErrors
    /\ \/ Expired(v, scan.now)
       \/ Passed(v, scan.now) /\ k.type = "TUPLE"
    /\ scan' = [scan EXCEPT !.phase = "done", !.ret = "ERR"]
    /\ dbErrors' = dbErrors + 1
    /\ UNCHANGED <<entries, envFailed>>

\* DB_itr_next returns GREYDB_NOT_FOUND: the cursor is exhausted.
ScanEnd ==
    /\ scan.phase = "running"
    /\ ~envFailed
    /\ scan.todo = {}
    /\ scan' = [scan EXCEPT !.phase = "done"]
    /\ UNCHANGED <<entries, dbErrors, envFailed>>

(* The cursor get inside DB_itr_next returns an error other than           *)
(* DB_NOTFOUND: the driver logs it and loops without moving the cursor or  *)
(* changing res, so the next iteration retries the same get.  A transient *)
(* error counts against MaxDbErrors; in a failed environment the retry    *)
(* fails again and the loop makes no progress.                            *)
ItrNextError ==
    /\ scan.phase = "running"
    /\ envFailed \/ dbErrors < MaxDbErrors
    /\ dbErrors' = IF envFailed THEN dbErrors ELSE dbErrors + 1
    /\ UNCHANGED <<entries, scan, envFailed>>

(* The Berkeley DB environment fails for good (DB_RUNRECOVERY after a     *)
(* panic): from now on every call on it returns that error.  Only a scan  *)
(* in progress is followed past this point.                               *)
EnvFail ==
    /\ EnvMayFail
    /\ ~envFailed
    /\ scan.phase = "running"
    /\ envFailed' = TRUE
    /\ UNCHANGED <<entries, scan, dbErrors>>

=============================================================================
