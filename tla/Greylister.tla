----------------------------- MODULE Greylister -----------------------------
(***************************************************************************)
(* The greylisting engine of one greyd host: the grey pipe, the reader     *)
(* that applies its events to the database, and the scanner that calls     *)
(* DB_scan inside a transaction and hands the result to the firewall.     *)
(*                                                                         *)
(* grey.c is not among the sources under src/: the reader and the          *)
(* Grey_scan_db caller follow the tuple update rule (GreyRules) and the   *)
(* scan contract of spec.md section 4.3.  The scan itself is the Berkeley *)
(* DB driver's Mod_scan_db (GreyDB).                                       *)
(*                                                                         *)
(* Reader and scanner are two processes with separate DB handles.  Their   *)
(* transactions are serialisable, so a reader transaction is one atomic    *)
(* step that happens either before the scanner's transaction starts or     *)
(* after it ends.                                                          *)
(***************************************************************************)
EXTENDS GreyDB, GreyRules, Sequences

CONSTANTS
    MaxTime,      \* bound on the clock
    MaxEvents     \* bound on the events written to the grey pipe

VARIABLES
    now,          \* the wall clock, in scan-interval units
    pipe,         \* the grey pipe: framed events in write order
    fwWhite,      \* the whitelist set last installed by fw_replace
    fwTrap,       \* the traplist last sent to the blacklist loader
    sent          \* number of events written to the pipe so far

vars == <<dbVars, now, pipe, fwWhite, fwTrap, sent>>

GreyEvent(ip, r) == [type |-> "GREY", ip |-> ip, to |-> r]
AddrEvent(t, ip, exp, del) ==
    [type |-> t, ip |-> ip, expires |-> exp, delete |-> del]

Events == {GreyEvent(i, r) : i \in IPs, r \in Rcpts}
          \cup {AddrEvent(t, i, e, d) : t \in {"WHITE", "TRAP"}, i \in IPs,
                                        e \in 0..MaxTime + TrapExp, d \in BOOLEAN}

Times == 0..MaxTime + GreyExp + WhiteExp + TrapExp

TypeOK ==
    /\ DOMAIN entries \subseteq Keys
    /\ \A k \in DOMAIN entries :
         entries[k] \in [first : Times, pass : Times, expire : Times,
                         bcount : 0..MaxEvents, pcount : {-1, 0}]
    /\ scan.phase \in {"idle", "running", "done"}
    /\ scan.todo \subseteq Keys /\ scan.wl \subseteq IPs /\ scan.tl \subseteq IPs
    /\ scan.ret \in {"OK", "ERR"}
    /\ dbErrors \in 0..MaxDbErrors
    /\ envFailed \in BOOLEAN
    /\ now \in 0..MaxTime
    /\ pipe \in Seq(Events) /\ Len(pipe) <= MaxEvents
    /\ fwWhite \subseteq IPs /\ fwTrap \subseteq IPs
    /\ sent \in 0..MaxEvents

Init ==
    /\ entries = <<>>
    /\ scan = NoScan
    /\ dbErrors = 0
    /\ envFailed = FALSE
    /\ now = 0
    /\ pipe = <<>>
    /\ fwWhite = {}
    /\ fwTrap = {}
    /\ sent = 0

-----------------------------------------------------------------------------
(***************************************************************************)
(* Writers of the grey pipe.                                               *)
(***************************************************************************)

\* The connection engine saw a full (helo, from, to) from a peer on no
\* blacklist and writes a GREY record to the pipe.
Connect(ip, r) ==
    /\ sent < MaxEvents
    /\ pipe' = Append(pipe, GreyEvent(ip, r))
    /\ sent' = sent + 1
    /\ UNCHANGED <<dbVars, now, fwWhite, fwTrap>>

\* Sync_recv forwards a WHITE or TRAPPED record (or its deletion) received
\* from a peer.
SyncRecord(t, ip, exp, del) ==
    /\ sent < MaxEvents
    /\ pipe' = Append(pipe, AddrEvent(t, ip, exp, del))
    /\ sent' = sent + 1
    /\ UNCHANGED <<dbVars, now, fwWhite, fwTrap>>

-----------------------------------------------------------------------------
(***************************************************************************)
(* The reader: one pipe record, one transaction (spec.md 4.3).            *)
(***************************************************************************)

ReadEvent ==
    LET e == Head(pipe) IN
    /\ pipe # <<>>
    /\ scan.phase = "idle"
    /\ entries' = Apply(entries, IF e.type = "GREY" THEN GreyUpdate(entries, now, e.ip, e.to)
                                 ELSE AddrUpdate(now, e))
    /\ pipe' = Tail(pipe)
    /\ UNCHANGED <<scan, dbErrors, envFailed, now, fwWhite, fwTrap, sent>>

\* A put, get or del of the update fails: the transaction is rolled back
\* and the event dropped.
ReadEventFails ==
    /\ pipe # <<>>
    /\ scan.phase = "idle"
    /\ dbErrors < MaxDbErrors
    /\ dbErrors' = dbErrors + 1
    /\ pipe' = Tail(pipe)
    /\ UNCHANGED <<entries, scan, envFailed, now, fwWhite, fwTrap, sent>>

-----------------------------------------------------------------------------
(***************************************************************************)
(* The scanner: Grey_scan_db around DB_scan.                               *)
(***************************************************************************)
ScanBegin ==
    /\ DB_start_txn(now)
    /\ UNCHANGED <<entries, dbErrors, envFailed, now, pipe, fwWhite, fwTrap, sent>>

ScanStep ==
    /\ \/ \E k \in scan.todo : ScanVisit(k) \/ ScanFail(k)
       \/ ScanEnd
       \/ ItrNextError
    /\ UNCHANGED <<now, pipe, fwWhite, fwTrap, sent>>

\* DB_scan returned OK: commit, then replace the firewall whitelist and send
\* the traplist.
ScanCommit ==
    /\ scan.ret = "OK"
    /\ DB_commit_txn
    /\ fwWhite' = scan.wl
    /\ fwTrap' = scan.tl
    /\ UNCHANGED <<entries, dbErrors, envFailed, now, pipe, sent>>

\* DB_scan returned ERR: roll back; the firewall keeps its old sets.
ScanAbort ==
    /\ scan.ret = "ERR"
    /\ DB_rollback_txn
    /\ UNCHANGED <<dbErrors, envFailed, now, pipe, fwWhite, fwTrap, sent>>

Tick ==
    /\ now < MaxTime
    /\ now' = now + 1
    /\ UNCHANGED <<dbVars, pipe, fwWhite, fwTrap, sent>>

Next ==
    \/ \E i \in IPs, r \in Rcpts : Connect(i, r)
    \/ \E t \in {"WHITE", "TRAP"}, i \in IPs, d \in BOOLEAN :
         SyncRecord(t, i, now + TrapExp, d)
    \/ ReadEvent
    \/ ReadEventFails
    \/ ScanBegin
    \/ ScanStep
    \/ ScanCommit
    \/ ScanAbort
    \/ EnvFail /\ UNCHANGED <<now, pipe, fwWhite, fwTrap, sent>>
    \/ Tick

Spec == Init /\ [][Next]_vars

(* The scanner is its own process and Mod_scan_db waits on nothing but    *)
(* its own DB calls (the reader is kept out by the scan's transaction), *)
(* so a scan step that stays enabled is eventually taken.                *)
FairSpec == Spec /\ WF_vars(ScanStep)

-----------------------------------------------------------------------------
(***************************************************************************)
(* Properties.                                                             *)
(***************************************************************************)

LiveTrap(db, ip, t) ==
    IPKey(ip) \in DOMAIN db /\ db[IPKey(ip)].pcount = -1 /\ db[IPKey(ip)].expire > t

(* While Mod_scan_db runs, no step of it turns an unexpired trap record    *)
(* into anything else: the DB_addr_state check before a tuple promotion    *)
(* must keep the whitelist put from overwriting the IP-keyed trap.        *)
ScanNeverUntraps ==
    [][scan.phase = "running" =>
         \A ip \in IPs : LiveTrap(entries, ip, scan.now) => LiveTrap(entries', ip, scan.now)
      ]_vars

(* Mod_scan_db returns: once Grey_scan_db has opened the scan transaction, *)
(* the cursor loop ends and DB_scan returns OK or ERR, so the transaction *)
(* is committed or rolled back and the reader can run again.  A get error *)
(* inside DB_itr_next is retried in place, without a bound.               *)
ScanTerminates == scan.phase = "running" ~> scan.phase = "done"

(***************************************************************************)
(* Refinement.  While a scan transaction is open the reader is locked out *)
(* and a rollback restores the snapshot, so the table the rest of the     *)
(* system sees is the snapshot until the commit; the commit is the atomic *)
(* scan of GreyScan.                                                       *)
(***************************************************************************)
AbsEntries == IF scan.phase = "idle" THEN entries ELSE scan.snap

Abs == INSTANCE GreyScan WITH entries <- AbsEntries

(* The cursor-by-cursor Mod_scan_db of bdb.c inside Grey_scan_db's         *)
(* transaction, with its failures and rollback, implements the atomic scan *)
(* of spec.md 4.3: every committed scan leaves a table the algorithm may  *)
(* leave in some iteration order, and installs exactly the whitelist and  *)
(* traplist of that table.                                                 *)
ScanImplementsSpec == Abs!Spec

=============================================================================
