# TLA+ models of greyd

This directory holds TLA+ models of greyd and the TLC configurations that check
them. greyd is a greylisting, tarpitting anti-spam daemon. The sources under
`src/` are:
- the Berkeley DB and MySQL database drivers;
- the sync engine;
- the radix trie;
- the spamd.conf lexer;
- the ipset firewall driver (`src/src/modules/ipset.c`);
- two headers.

The greylister itself (`grey.c`), the connection engine (`con.c`), the
blacklist code and the other firewall drivers are not under `src/`. Where a model
needs them, it follows `spec.md`, and `PROJECT.json` marks those definitions
`spec_modelled`.

## The system and how its parts interact

```
 SMTP peer --> connection engine --GREY--> grey pipe --> reader ----> entries DB
                                              ^                          ^
 sync peers --UDP--> Sync_recv --WHITE/TRAP/GREY (sync=0)                 |
                                                       scanner: DB_scan --+
                                                           |  (one txn)
                                                           v
                                        fw_replace(whitelist), traplist loader
```

- **Connection engine.** For a peer on no blacklist, it writes a GREY record
  (ip, helo, from, to) to the grey pipe.
- **Sync engine** (`sync.c`). It receives authenticated UDP packets from peers
  and writes the records they carry to the same pipe, with `sync = 0`. The
  local greylister calls `Sync_update`, `Sync_white` and `Sync_trapped` to send
  one packet per record to the multicast group and to each unicast peer.
- **Greylister reader.** It applies one pipe record per DB transaction, using
  the tuple update rule of spec 4.3.
- **Greylister scanner.** Every scan interval, it opens a transaction and calls
  `DB_scan`. The Berkeley DB driver implements `DB_scan` as `Mod_scan_db`,
  which does four things:
  - deletes expired rows;
  - collects trapped addresses;
  - promotes tuples past their pass time to IP-keyed whitelist rows, unless
    the address is trapped;
  - collects whitelisted addresses.

  On OK the caller commits and hands the two lists to the firewall. On ERR it
  rolls back. The MySQL driver does the same work in three SQL statements
  over a table that several greyd hosts may share.
- **Trie.** Blacklists use it for address lookup (spec 4.1).

## Modules

| Module | Models | State | Actions |
|---|---|---|---|
| `GreyKeys` | The key/value model every driver implements (`greydb.h`): IP and tuple keys, `Grey_data`, `DB_put`, `DB_del`, `DB_addr_state`, and a reader transaction as an update record of puts and dels | (definitions only) | |
| `GreyRules` | The reader's tuple update rule and WHITE/TRAP handling (spec 4.3; spec-modelled, since `grey.c` is not under `src/`) | (definitions only) | |
| `GreyDB` | `src/drivers/bdb.c`: transactions, `Mod_scan_db`, `Mod_db_itr_next` | `entries` (key -> Grey_data), `scan` (the open scan: time, cursor's remaining keys, whitelist, traplist, return code, snapshot for rollback), `dbErrors`, `envFailed` | `DB_start_txn`, `DB_commit_txn`, `DB_rollback_txn`, `ScanVisit(k)` (one whole loop iteration with every DB call it makes), `ScanFail(k)` (a DB call of that iteration returns ERR), `ScanEnd`, `ItrNextError` (a cursor get fails and is retried in place), `EnvFail` (the environment fails for good) |
| `Greylister` (extends `GreyDB`, `GreyRules`) | One host: the pipe writers, the reader and `Grey_scan_db` (spec-modelled) around the Berkeley DB scan | adds `now`, `pipe`, `fwWhite`, `fwTrap`, `sent` | `Connect`, `SyncRecord`, `ReadEvent`, `ReadEventFails`, `ScanBegin`, `ScanStep`, `ScanCommit`, `ScanAbort`, `EnvFail`, `Tick` |
| `GreyScan` | The abstract specification: what spec 3 and 4.3 promise, with a scan that is one atomic step whose outcome is any table the algorithm may leave in some iteration order | `entries`, `now`, `pipe`, `fwWhite`, `fwTrap`, `sent` | `Write`, `Read`, `Drop`, `Scan`, `Tick` |
| `BdbLocking` | The page locks of the reader's and the scanner's Berkeley DB transactions in one environment (bdb.c:130-134, the DB calls, `Mod_scan_db`'s cursor) | `entries`, `bucket` (the page each key hashes to), `locks`, `rd`, `sc` (each transaction's program counter and pending DB calls), `reads` | `ReadBegin`, `ReadGet`, `ReadWrite`, `ReadCommit`, `ScanBegin`, `ScanEnterPage`, `ScanRow(k)`, `ScanCall`, `ScanPageDone`, `ScanCommit` |
| `GreyMySQL` | `src/drivers/mysql.c` with several greyd hosts sharing one database: `Mod_db_get` of a tuple (a failed query read as NOT_FOUND), `Mod_db_put` with `greyd_host` and `Mod_db_del`, both rolling the reader's transaction back on error, the transaction calls, and `Mod_scan_db` (DELETE, UPDATE IGNORE, SELECT) with every failure point | `entries`, `owner` (the `greyd_host` column), `now`, `scan`, `fw[h]`, `alive`, `events`, `dbErrors` | `Read(h, ip, r)`, `ScanBegin(h)`, `Mod_scan_db(h)`, `ScanCommit(h)`, `Tick` |
| `SyncProto` | `src/src/sync.c`: the senders, `send_sync_message`, `Sync_recv` | `net` (bag of packets, each with its header counter), `fwd[h]` (records written to h's pipe, with the sender and the counter of their packet), `sends` (also the sender's `sync_counter`), `faults`, the history `sent` | `SyncSend`, `Lose`, `Duplicate`, `Alter`, `Sync_recv` |
| `Trie` | `src/src/trie.c`: `Trie_create`, `Trie_insert`, `Trie_contains`, `bytecmp` | `store` (nodes), `inserted`, `crashed` | `Insert(k)`; the descent shared by insert and lookup is the `RECURSIVE` operator `Descend` |
| `IpsetFw` | `src/src/modules/ipset.c`: `Mod_fw_replace` with `ipset_create`, `ipset_add` and `ipset_swap_and_destroy` | `exists` and `members` (the kernel's live and stage sets, which outlive greyd), `last` (the last call's list and return value), `calls`, `faults` | `Mod_fw_replace(L)`: the whole call. The recursive `Run` executes its ipset commands in order, stopping at the first that fails by itself or at the one chosen to fail |
| `PartialDom` | `check_partial_dom` of `src/drivers/bdb.c`, the DB_KEY_DOM_PART lookup | none: operators over strings | `DomainMatches` (one loop iteration: `from_pos` and `strcasecmp`), `PartialDomLoop` (the cursor loop), `check_partial_dom` |
| `MCGreylister`, `MCBdbLocking`, `MCGreyMySQL`, `MCSyncProto`, `MCIpsetFw` | Model values and small sets for TLC | | |

### How the models follow the code

- **Data abstraction.** Keys keep only the fields that properties tell apart.
  A tuple key is (ip, to), and helo and from are dropped. Times are small
  integers in scan-interval units. The spamtrap and permitted-domain
  name-spaces become constant sets, because the scan never iterates them.
  `MCGreylister` computes the permitted recipients with `check_partial_dom`
  from a permitted domain and each recipient's domain. Strings there are
  sequences over a few characters with one letter in both cases, so the
  case folding and the `from_pos` arithmetic both matter.
- **Shared rules.** `GreyRules.GreyUpdate` returns the puts and dels of one
  reader transaction. `Greylister` and `GreyScan` apply it to a table,
  `GreyMySQL` applies it and stamps the written rows with the host, and
  `BdbLocking` turns it into the page locks the calls take.
- **Cursor order.** `Mod_scan_db` walks a DB_HASH cursor whose order is
  arbitrary, so `ScanVisit` picks any unvisited key. Rows that the scan itself
  inserts are not visited; in BDB they may or may not be.
- **Reader transactions.** In `Greylister` a reader transaction is one atomic
  step, enabled only while no scan transaction is open: that is the
  serialisable behaviour spec 4.4 asks for. `BdbLocking` looks underneath it,
  at the locks that are supposed to provide it.
- **Page locks.** In `BdbLocking`, a get or a cursor read takes a read lock on
  the key's bucket page, a put or a del a write lock, and a transaction keeps
  its locks until it commits (Berkeley DB's default degree-3 isolation). The
  bucket of each key is chosen at `Init`, so every hashing is explored. Locks
  on the spamtrap and domain files are left out: both transactions only read
  them.
- **Errors.** A failing DB call of the scan jumps to cleanup and returns ERR;
  `ScanAbort` rolls back. A failing cursor get inside `DB_itr_next` is
  logged and retried without moving the cursor (`ItrNextError`). After
  `EnvFail` (a Berkeley DB panic, after which every call returns
  `DB_RUNRECOVERY`) the retry fails forever.
- **MySQL statements.** InnoDB's next-key locks make each of the scan's
  statements, and the scan as a whole, atomic with respect to the other
  hosts. The UPDATE IGNORE keeps one winning tuple per address; which one
  depends on the scan order and is chosen nondeterministically. `result` is
  read uninitialized on the error path (mysql.c:699): the model lets the host
  either crash there, with the server rolling its transaction back, or carry
  on.
- **Sync packets.** Honest senders put exactly one record and an END TLV in a
  packet, as `Sync_update` and `send_address` do. `Sync_recv`'s TLV loop is
  the recursive `RecvTLVs`. It carries `delete` across iterations as the code
  does.
- **ipset commands.** Every command is sent with `IPSET_OPT_EXIST`. So
  creating a set that already exists keeps it and its members, and adding a
  member that is already there succeeds. An add to a set holding
  `max_elements` members fails. Any command may also fail for reasons of
  its own, or greyd may be killed between two commands. Either way the call
  returns -1 and leaves the kernel sets as they are. An entry is parsed as
  `ipset_add` does: a mask over `IP_MAX_MASKBITS` fails, and text that
  `inet_pton` rejects becomes the all-zero address, because only -1 is
  tested.
- **Trie bytes.** A trie key byte has `ByteBits` bits. When a split reads past
  the end of a shorter stored key, the bits it reads are chosen
  nondeterministically: they stand for whatever heap bytes follow the key.

### Refinement

`Greylister` instantiates `GreyScan` with the refinement mapping
`entries <- AbsEntries`, where `AbsEntries` is the table while no scan is
open and the scan's snapshot while one is. The reader is locked out during a
scan, and a rollback restores the snapshot. So the scan's steps are
stuttering steps of the abstract specification, and its commit is the
abstract `Scan`. Every other variable maps to itself. `Connect` and
`SyncRecord` map to `Write`, `ReadEvent` to `Read` and `ReadEventFails` to
`Drop`. `ScanImplementsSpec == Abs!Spec` is checked as a property.

The abstract `ScanOutcome(E, t, R)` is written from spec 3 and 4.3, not from
`bdb.c`. It says four things:
- expired rows are gone;
- every other row is unchanged, except for the tuples the scan promoted;
- each promoted address has an IP-keyed record made from one of its promoted
  tuples, with `expire = t + white_exp`;
- a live trap blocks every promotion of its address.

A trap that has itself expired blocks only the tuples the cursor reaches
before the trap row is deleted. So for such an address any subset of its
passed tuples may be promoted. That order dependence is part of the
abstract specification, because the back-end chooses the order.

## Runs

| Run | Expect | Checks | Bounds |
|---|---|---|---|
| `greylist_scan` | pass | `TypeOK`; `ScanNeverUntraps` (no scan step turns a live trap into anything else); `ScanImplementsSpec` (the refinement above); `ReaderTrapsByRule1` (a GREY event leaves its tuple row untouched, that is, traps the sender, iff the recipient is a spamtrap or no permitted domain is a case-insensitive suffix of its domain) | 2 addresses (symmetric); recipients permitted (domain `Ab` against the permitted `ab`), spamtrap and non-permitted (domain `b`, a shorter tail); 3 pipe events; time 0..2; pass 1, grey/trap/white expiry 2; 1 DB failure; the environment may fail. About 1.5M states, under 3 minutes |
| `bdb_itr_next_spin` | violation | `ScanTerminates` (under weak fairness of the scanner) | same, with 1 event and time 0..1 |
| `bdb_lock_deadlock` | violation | `NoDeadlock` | 1 address, a permitted recipient and a spamtrap; 2 bucket pages, every hashing; initial rows passed, not yet passed, expired or trap; 2 reader transactions and one scan |
| `sync_roundtrip` | pass | `TypeOK`; `ForwardedWasSent` (every record written to a pipe was sent by another host, with the same type, address and delete flag) | 2 hosts with multicast and each other as unicast peers; 1 address, 1 recipient; 1 send per host; 1 duplication or alteration; loss unbounded |
| `trie_same_length` | pass | `ContainsIsMembership` (after any insertion order, `Trie_contains` answers exactly membership) | all 8 keys of one 3-bit byte, in every insertion order |
| `trie_mixed_lengths` | violation | `ContainsIsMembership` | 2-bit bytes, keys of 1 and 2 bytes |
| `trie_short_key_crash` | violation | `NoNullDereference` (the descent never stops at an inner node whose branch is past the key, whose NULL key the split would read) | 2-bit bytes, keys of 1 and 2 bytes |
| `ipset_stale_stage` | violation | `ReplaceInstallsList` (when `Mod_fw_replace` returns success, the live set holds exactly the parsed entries of its list) | 2 addresses and an unparsable entry; lists of up to 2 entries; `max_elements` 2; 2 calls; 1 failing command |
| `mysql_scan` | pass | `TypeOK`; `OwnScanSound` (after a scan of host h returns with every statement successful, none of h's rows is expired and every passed tuple of h with a sender has an IP row; bounce tuples, whose sender is empty, are never promoted by the scan); `ExpiredRowsDeleted` (every expired row of a running host is eventually deleted or refreshed, or its host dies), under the fairness below | 2 hosts, 1 address, 4 envelopes (two permitted, one bounce, one spamtrap), 3 events, time 0..2, white expiry 1, 1 failing statement (a reader's get or a scan statement). About 245,000 states, under 3 minutes |
| `mysql_other_host_rows` | violation | `FirewallWhiteLive` (at commit, every whitelisted address has a live white row) | as `mysql_scan`, with 2 addresses |
| `mysql_get_error` | violation | `TupleFirstKept` (no step moves the first time of a tuple row that stays in the table) | as `mysql_scan` |
| `mysql_error_as_ok` | violation | `WhitelistNotDropped` (at commit, every live white row's address is whitelisted) | 1 host |

### Why the bounds are enough

- **`greylist_scan`.** Three events are enough for every case of the scan
  loop:
  - a tuple greyed, then trapped by a spamtrap hit on the same address, then
    past its pass time, so the scan's `addr_state` check matters;
  - a WHITE record from sync that expires at the scan time;
  - a tuple promoted by the reader's retry.

  Two addresses let promotions and trap purges of different addresses
  interleave in one scan. No action or property singles out an address, so
  the two are symmetric. One DB failure exercises `ScanFail`,
  `ReadEventFails` and `ItrNextError`, and with them the rollback.
- **`bdb_lock_deadlock`.** One page already gives the lock-conversion
  deadlock; two pages and every hashing also give the cycles in which the
  two transactions lock two pages in opposite orders.
- **MySQL runs.** A white row promoted at time 1 must expire within the clock
  bound for a host to list an expired row, hence `WhiteExp = 1`. Two hosts
  are the least that share a table; two permitted recipients give two passed
  tuples of one address for the UPDATE IGNORE, and a bounce envelope
  (`MAIL FROM:<>`) gives a passed tuple the UPDATE's `e.from <> ''` skips. `mysql_scan` keeps one address so
  that the liveness check stays within minutes; `mysql_other_host_rows` uses
  two. The one failing statement is bounded, so a scan that rolls back is
  retried and later succeeds.
- **`sync_roundtrip`.** One record per host, with multicast and unicast both
  on, produces four copies per record: loopback, two to the peer, and one
  duplicate or altered copy. This covers every drop path of `Sync_recv`.
- **`ipset_stale_stage`.** Two calls are the least for a failure to leak
  into a later call. Lists of two entries with `max_elements` 2 also reach
  the full-set failure of an add.
- **Trie runs.** The pass run covers every insertion order of every key of one
  length. With one length no split bit reaches past a key, so the
  `branch >= kbits` break cannot happen there; `trie_short_key_crash` uses
  keys of one and two bytes, where it does. The violation runs need only
  two or three inserts.

### Fairness

- **`Greylister.FairSpec`** = `Spec /\ WF_vars(ScanStep)`. The scanner is a
  process of its own, and inside `Mod_scan_db` it waits on nothing but its
  own DB calls, since the reader is kept out by the scan's transaction. Nothing
  else is assumed fair: the reader, the clock and failures may stop.
  `bdb_itr_next_spin` shows that `ScanTerminates` fails under this fairness
  once the environment has failed. No run checks it with transient errors
  only.
- **`GreyMySQL.FairSpec`** gives each host strong fairness of `ScanBegin(h)`
  and weak fairness of `Mod_scan_db(h)` and `ScanCommit(h)`. Each host's
  scanner runs every `db_scan_interval`. Its START TRANSACTION and DELETE
  wait on the locks of another host's open scan, and InnoDB grants them when
  that scan commits. A host that keeps trying therefore gets its turn, which
  is strong fairness. Once the scan is open, its statements and its commit
  follow.
- `sync_roundtrip` sets `CHECK_DEADLOCK FALSE`. After the bounded sends have
  been delivered or lost, the sync engine is idle in `recvfrom`, which is a
  real stopping state. `bdb_lock_deadlock` does too: after its bounded
  transactions the reader waits on its pipe.
- The other pass runs check deadlock: the scanner can always start another
  scan, and a key can always be inserted again.

## Findings

1. **`bdb_itr_next_spin`** (code bug). `Mod_db_itr_next` handles a cursor get
   error other than `DB_NOTFOUND` by logging it and looping again, without
   moving the cursor or returning an error (bdb.c:508-514). After a
   Berkeley DB panic every retry fails, so the scanner spins forever inside
   its transaction.
2. **`bdb_lock_deadlock`** (code bug). The environment is opened with
   `DB_INIT_LOCK` and `DB_INIT_TXN` (bdb.c:130-134), with no deadlock
   detection and no lock timeout, and no get uses `DB_RMW`. The reader gets a
   tuple, read-locking its bucket page. The scan's cursor read-locks the same
   page. Both then ask for a write lock on it: the reader to put the tuple,
   the scanner to delete an expired row. Each waits for the other's read
   lock, so both greyd processes block for good.
3. **`trie_mixed_lengths`** (code bug). Trie_insert splits a leaf by comparing
   bits up to the new key's length and reads past a shorter stored key
   (trie.c:107). When one key extends the other, the split puts the branch
   past the short key, so neither key is found again. This breaks spec
   invariant 3.
4. **`trie_short_key_crash`** (code bug). When a node's branch bit is at or
   past the key's bits, `Trie_insert` breaks out of its descent (trie.c:86-88,
   `TODO: handle different key sizes`). `t` is then an inner node with a NULL
   key and `klen` 0, so `bytecmp` reports a difference and the split loop
   reads `BIT(t->key, 0)` (trie.c:107), a NULL dereference. In the trace a
   two-byte key extending a one-byte key splits at bit 2, and the next
   one-byte insert reaches that node. Blacklists insert CIDR prefixes of
   different lengths (spec 4.1).
5. **`mysql_other_host_rows`** (spec/code divergence). The scan's DELETE
   removes only the scanning host's expired rows (mysql.c:629-630). The
   SELECT of whitelist and trap rows (mysql.c:663-672) takes IP rows of every
   host with no expiry test. A host sharing the database whitelists an
   address whose row has expired, until the owning host scans.
6. **`mysql_get_error`** (spec/code divergence). `Mod_db_get` starts with
   `res = GREYDB_NOT_FOUND` (mysql.c:313), and a failed `mysql_real_query`
   jumps to `err` (mysql.c:406-408) and returns it. Spec 4.4 says get
   returns ERR, and section 7 says the reader then rolls back and drops the
   event. Instead the reader takes the tuple for new and REPLACEs it. In the
   trace, a tuple greyed at time 0 with pass time 1 is retried at time 1,
   the get's query fails, and the row is rewritten with first 1 and pass 2:
   the sender that waited out its pass time is greylisted again. The same
   NOT_FOUND on a spamtrap or domain lookup would miss a trap hit or trap a
   permitted sender; those lookups are constant sets in the model.
7. **`mysql_error_as_ok`** (code bug). `ret` starts as `GREYDB_OK` and no
   error path sets it (mysql.c:622). A failing statement makes `Mod_scan_db`
   return OK with empty lists. The caller commits and installs an empty
   whitelist.
8. **`ipset_stale_stage`** (code bug). `Mod_fw_replace` creates
   `<set>-stage` with `IPSET_OPT_EXIST` (ipset.c:462, 511), which keeps an
   existing set and its members. Every error return after the first add
   leaves the stage set populated in the kernel. That happens when an add
   fails (for example on a full set), when the create of the live set or the
   swap fails, or when the destroy fails after the swap. The next call adds
   to those leftovers and swaps them live. In the trace, a call for
   `[a1]` fails after adding `a1`. The next call, for the empty whitelist,
   returns 0, and `a1` is in the live set. Flushing the stage set after
   creating it would make each call install exactly its list.

The following are known from the models but have no run of their own,
because the project keeps at most twelve runs:
- `Sync_recv` never resets `delete` between the TLVs of one packet
  (sync.c:452, 484). A WHITE after a DEL_WHITE in the same packet is
  therefore forwarded as a deletion. No greyd sender puts two records in a
  packet (checked in an earlier version of `SyncProto`);
- the sync receiver never reads a packet's header counter or timestamp
  (sync.c:393-419), so a reordered, duplicated or replayed authenticated
  packet is applied. Spec 4.5 only says the sender's counter is monotonic
  and states no rule for the receiver, so no property states what the
  receiver should do;
- the MySQL scan's UPDATE promotes only rows with `e.from <> '' AND
  e.to <> ''` (mysql.c:647), which is meant to skip IP rows but also skips
  bounce tuples (`MAIL FROM:<>`). Spec 4.3 and the Berkeley DB scan promote
  every passed tuple; with MySQL a bounce sender is whitelisted only when it
  retries. `GreyMySQL` models the guard and `OwnScanSound` states the
  promotion guarantee for tuples with a sender;
- spec rule 4.3(3) lets the reader promote a retried tuple whose address
  holds a live trap, against spec section 3;
- the scan promotes a tuple past its pass time whether or not the sender
  retried.

The last two follow from the spec-modelled reader and from `Passed` as written.
The rows of a MySQL host that stops are never deleted, because every DELETE
filters on its own `greyd_host`. `ExpiredRowsDeleted` therefore promises
nothing for the rows of a host that has died: a failed scan statement that
jumps over the declaration of `result` may kill the scanner (mysql.c:699).

## Not modelled, and the plan

Later work, in order of importance. Items 1, 2, 4 and 6 each need a run of
their own, and the project keeps at most twelve:

1. **`GreyCluster`: two greylister hosts joined by `SyncProto`.** This would
   show end to end how the sync receiver's disregard of the counter plays
   out: two hosts' databases diverge after a reordered WHITE and DEL_WHITE (sync.c:455),
   and a duplicated GREY packet is taken as a retry (sync.c:419). Liveness
   would be checked under weak fairness of delivery and of the scanner.
2. **MySQL refinement.** Check `GreyMySQL` against `GreyScan`. Its
   divergences are expected to be:
   - any IP row blocks promotion;
   - the whitelist ignores pass time;
   - errors are returned as OK;
   - a failed get is read as NOT_FOUND (`mysql_get_error`).
3. **Crash and restart.** A failing commit or begin exits the process
   (bdb.c:227, 250). Berkeley DB aborts a transaction whose commit fails,
   so the table afterwards is the one `ScanAbort` restores. Nothing under
   `src/` restarts greyd, and a restart would reopen the environment
   without `DB_RECOVER`. A model of this needs the process supervisor,
   which is not in the source.
4. **MySQL permitted-domain match.** The `LIKE CONCAT('%', domain)` query
   would be checked against spec 4.4's case-insensitive suffix, as
   `check_partial_dom` is. In it, `_` and `%` in a domain are wildcards.
   The Berkeley DB match follows the spec's unanchored suffix, so
   `evil-example.com` counts as permitted by `example.com` (bdb.c:778).
5. **Connection engine** (spec 4.2): the per-connection state machine with
   timeouts.
6. **Blacklist collapse** (spec 4.1): checked against spec invariants 1
   and 2.
7. **spamd lexer** (`spamd_lexer.c`): integer tokens split above 255, and
   unknown characters returned as EOF.

The following are not modelled and are not planned:
- environment setup (`Mod_db_init` beyond its lock flags, `Mod_db_open`,
  `Sync_init`, `Sync_start`);
- byte encodings (`pack_*`, `unpack_*`, MySQL `escape` and `populate_*`,
  packet layout and padding, which hides the `sh_length` over-read at
  sync.c:396);
- in the ipset driver: `Mod_fw_lookup_orig_dst` and `conntrack_callback`,
  which look up one connection's NAT destination and keep no state between
  calls; also the NFLOG capture, `Mod_fw_open` and `Mod_fw_close`. As read
  from the code, `log_callback` never fills `lh->entry`, so
  `Mod_fw_capture_log` always returns a zeroed entry;
- the other firewall drivers and configuration, which are not under `src/`.

These are I/O or encoding with no state that a property tells apart.
