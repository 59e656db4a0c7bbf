----------------------------- MODULE BdbLocking -----------------------------
(***************************************************************************)
(* The Berkeley DB driver's transactions as the lock manager sees them.   *)
(* Mod_db_init opens one environment with DB_INIT_LOCK and DB_INIT_TXN    *)
(* (bdb.c:130-134) and configures no deadlock detection and no lock       *)
(* timeout.  The greylister reader and the scanner are two processes that *)
(* join that environment with their own handles and transactions.         *)
(*                                                                         *)
(* The entries file is a DB_HASH table: a key lives in one bucket page.   *)
(* A get, or a cursor read, takes a read lock on the page; a put or a del *)
(* takes a write lock; a transaction keeps its locks until it commits.    *)
(* A request that conflicts with the other transaction's lock waits.     *)
(* The buckets of the keys are chosen at Init: every hashing is explored. *)
(*                                                                         *)
(* The reader runs the tuple update rule of spec.md 4.3 (grey.c is not    *)
(* under src/); its DB calls are those of GreyRules.GreyUpdate, one       *)
(* get of the tuple and then its puts and dels.                           *)
(***************************************************************************)
EXTENDS GreyRules, SequencesExt

CONSTANTS
    Pages,        \* the bucket pages of the entries file
    BucketOrder,  \* the order in which a DB_NEXT cursor walks the pages
    Now,          \* the time both transactions read
    InitRows,     \* Grey_data values the table may hold at the start
    MaxReads      \* bound on reader transactions

VARIABLES
    entries,      \* the DB_ENTRIES name-space: key -> Grey_data
    bucket,       \* the page each key hashes to
    locks,        \* locks[p][pg]: the lock transaction p holds on page pg
    rd,           \* the reader's transaction
    sc,           \* the scanner's transaction and cursor
    reads         \* reader transactions so far

vars == <<entries, bucket, locks, rd, sc, reads>>

Procs == {"reader", "scanner"}
Other(p) == IF p = "reader" THEN "scanner" ELSE "reader"

\* The DB calls of a transaction still to be made.
Get(k) == [call |-> "get", key |-> k]
Put(k) == [call |-> "put", key |-> k]
Del(k) == [call |-> "del", key |-> k]
Mode(op) == IF op.call = "get" THEN "R" ELSE "W"

-----------------------------------------------------------------------------
(* The lock manager: read locks are shared, a write lock is exclusive, and *)
(* a holder of a read lock upgrades it by asking for a write lock.        *)
Conflicts(m1, m2) == m1 # "none" /\ m2 # "none" /\ (m1 = "W" \/ m2 = "W")

Grantable(p, pg, m) == ~Conflicts(m, locks[Other(p)][pg])

Acquire(p, pg, m) ==
    /\ Grantable(p, pg, m)
    /\ locks' = [locks EXCEPT ![p][pg] = IF @ = "W" THEN "W" ELSE m]

ReleaseAll(p) == locks' = [locks EXCEPT ![p] = [pg \in Pages |-> "none"]]

\* The calls the reader makes for its update: the puts, then the dels.
WriteOps(u) ==
    SetToSeq({Put(k) : k \in DOMAIN u.put}) \o SetToSeq({Del(k) : k \in u.del})

Init ==
    /\ entries \in UNION {[S -> InitRows] : S \in SUBSET Keys}
    /\ \A k \in DOMAIN entries : k.type = "TUPLE" => entries[k].pcount = 0
    /\ bucket \in [Keys -> Pages]
    /\ locks = [p \in Procs |-> [pg \in Pages |-> "none"]]
    /\ rd = [pc |-> "idle", ip |-> CHOOSE i \in IPs : TRUE, to |-> CHOOSE r \in Rcpts : TRUE,
             u |-> Update(<<>>, {}), ops |-> <<>>]
    /\ sc = [pc |-> "idle", pos |-> 0, seen |-> {}, cur |-> CHOOSE k \in Keys : TRUE,
             ops |-> <<>>]
    /\ reads = 0

-----------------------------------------------------------------------------
(***************************************************************************)
(* The reader: one GREY record per transaction.                            *)
(***************************************************************************)
\* Mod_db_start_txn; a trap or low-priority MX record needs no tuple get.
ReadBegin(ip, r) ==
    /\ rd.pc = "idle"
    /\ reads < MaxReads
    /\ rd' = IF TrapsSender(r) \/ ip = LowPrioMX
             THEN [rd EXCEPT !.pc = "write", !.ip = ip, !.to = r,
                             !.u = GreyUpdate(entries, Now, ip, r),
                             !.ops = WriteOps(GreyUpdate(entries, Now, ip, r))]
             ELSE [rd EXCEPT !.pc = "get", !.ip = ip, !.to = r]
    /\ UNCHANGED <<entries, bucket, locks, sc, reads>>

\* Mod_db_get of the tuple: read-lock its page, then decide the update.
ReadGet ==
    LET k == TupleKey(rd.ip, rd.to)
        u == GreyUpdate(entries, Now, rd.ip, rd.to)
    IN
    /\ rd.pc = "get"
    /\ Acquire("reader", bucket[k], "R")
    /\ rd' = [rd EXCEPT !.pc = "write", !.u = u, !.ops = WriteOps(u)]
    /\ UNCHANGED <<entries, bucket, sc, reads>>

\* Mod_db_put or Mod_db_del: write-lock the page of the key.
ReadWrite ==
    /\ rd.pc = "write"
    /\ rd.ops # <<>>
    /\ Acquire("reader", bucket[Head(rd.ops).key], "W")
    /\ rd' = [rd EXCEPT !.ops = Tail(@)]
    /\ UNCHANGED <<entries, bucket, sc, reads>>

\* Mod_db_commit_txn: the update becomes visible and the locks are freed.
ReadCommit ==
    /\ rd.pc = "write"
    /\ rd.ops = <<>>
    /\ entries' = Apply(entries, rd.u)
    /\ ReleaseAll("reader")
    /\ rd' = [rd EXCEPT !.pc = "idle"]
    /\ reads' = reads + 1
    /\ UNCHANGED <<bucket, sc>>

-----------------------------------------------------------------------------
(***************************************************************************)
(* The scanner: Mod_scan_db's cursor walks the pages in bucket order.      *)
(***************************************************************************)
ScanBegin ==
    /\ sc.pc = "idle"
    /\ sc' = [sc EXCEPT !.pc = "next"]
    /\ UNCHANGED <<entries, bucket, locks, rd, reads>>

\* DB_itr_next moves the cursor onto the next page and read-locks it.
ScanEnterPage ==
    /\ sc.pc = "next"
    /\ Acquire("scanner", BucketOrder[sc.pos + 1], "R")
    /\ sc' = [sc EXCEPT !.pc = "page", !.pos = @ + 1]
    /\ UNCHANGED <<entries, bucket, rd, reads>>

OnPage(k) == k \in DOMAIN entries /\ bucket[k] = BucketOrder[sc.pos] /\ k \notin sc.seen

\* The loop body on the row under the cursor: the calls it will make.
ScanRow(k) ==
    LET v == entries[k] IN
    /\ sc.pc = "page"
    /\ OnPage(k)
    /\ LET ops == CASE v.expire <= Now /\ v.pcount > -2          -> <<Del(k)>>
                    [] v.pcount >= 0 /\ v.pass <= Now /\ k.type = "TUPLE"
                                                                 -> <<Get(IPKey(k.ip))>>
                    [] OTHER                                     -> <<>>
       IN sc' = [sc EXCEPT !.pc = IF ops = <<>> THEN "page" ELSE "row",
                           !.seen = @ \cup {k}, !.cur = k, !.ops = ops]
    /\ UNCHANGED <<entries, bucket, locks, rd, reads>>

(* The next call of the row: DB_addr_state's get (a trapped address ends  *)
(* the row), the put of the whitelist record, DB_itr_del_curr.            *)
ScanCall ==
    LET op == Head(sc.ops)
        k  == sc.cur
        v  == entries[k]
        more == IF op.call = "get" /\ DB_addr_state(entries, k.ip) # 1
                THEN <<Put(IPKey(k.ip)), Del(k)>> ELSE <<>>
    IN
    /\ sc.pc = "row"
    /\ Acquire("scanner", bucket[op.key], Mode(op))
    /\ entries' = CASE op.call = "put" -> DB_put(entries, op.key, [v EXCEPT !.expire = Now + WhiteExp])
                    [] op.call = "del" -> DB_del(entries, op.key)
                    [] OTHER           -> entries
    /\ sc' = [sc EXCEPT !.ops = Tail(@) \o more,
                        !.pc = IF Tail(sc.ops) \o more = <<>> THEN "page" ELSE "row"]
    /\ UNCHANGED <<bucket, rd, reads>>

\* No unvisited row is left on the page: on to the next page, or the end.
ScanPageDone ==
    /\ sc.pc = "page"
    /\ ~\E k \in Keys : OnPage(k)
    /\ sc' = [sc EXCEPT !.pc = IF sc.pos = Len(BucketOrder) THEN "commit" ELSE "next",
                        !.seen = {}]
    /\ UNCHANGED <<entries, bucket, locks, rd, reads>>

\* Grey_scan_db commits the scan transaction.
ScanCommit ==
    /\ sc.pc = "commit"
    /\ ReleaseAll("scanner")
    /\ sc' = [sc EXCEPT !.pc = "end"]
    /\ UNCHANGED <<entries, bucket, rd, reads>>

Next ==
    \/ \E ip \in IPs, r \in Rcpts : ReadBegin(ip, r)
    \/ ReadGet \/ ReadWrite \/ ReadCommit
    \/ ScanBegin \/ ScanEnterPage \/ \E k \in Keys : ScanRow(k)
    \/ ScanCall \/ ScanPageDone \/ ScanCommit

Spec == Init /\ [][Next]_vars

-----------------------------------------------------------------------------
\* A transaction whose next DB call asks for a lock the other one holds.
Waiting(p) ==
    IF p = "reader"
    THEN \/ rd.pc = "get" /\ ~Grantable(p, bucket[TupleKey(rd.ip, rd.to)], "R")
         \/ rd.pc = "write" /\ rd.ops # <<>>
            /\ ~Grantable(p, bucket[Head(rd.ops).key], "W")
    ELSE \/ sc.pc = "next" /\ ~Grantable(p, BucketOrder[sc.pos + 1], "R")
         \/ sc.pc = "row" /\ ~Grantable(p, bucket[Head(sc.ops).key], Mode(Head(sc.ops)))

(* The reader's and the scanner's transactions never wait for each other  *)
(* at the same time: with no deadlock detector in the environment, such  *)
(* a cycle would block both greyd processes for good.                     *)
NoDeadlock == ~(Waiting("reader") /\ Waiting("scanner"))

=============================================================================
