------------------------------ MODULE GreyKeys ------------------------------
(***************************************************************************)
(* The key/value model of the greylisting database that every driver      *)
(* implements (src/src/greydb.h): the DB_ENTRIES name-space is a partial   *)
(* function from keys to Grey_data records.  A key is either IP-keyed      *)
(* (whitelist or trap record) or a greylist tuple.  helo and from are left *)
(* out of the tuple key: the scans and the properties only tell tuples    *)
(* apart by (ip, to).                                                      *)
(*                                                                         *)
(* A transaction of the greylister reader is a set of DB_put and DB_del    *)
(* calls, written here as an update record [put |-> key -> value,          *)
(* del |-> keys] so that each driver can apply it the way it stores rows. *)
(***************************************************************************)
EXTENDS Integers, Functions, TLC

CONSTANTS
    IPs,          \* peer addresses
    Rcpts,        \* envelope recipients
    WhiteExp      \* grey.white_exp: lifetime of a whitelist record

IPKey(ip)       == [type |-> "IP", ip |-> ip]
TupleKey(ip, r) == [type |-> "TUPLE", ip |-> ip, to |-> r]
Keys == {IPKey(i) : i \in IPs} \cup {TupleKey(i, r) : i \in IPs, r \in Rcpts}

(* struct Grey_data; pcount >= 0 normal, -1 trapped (greydb.h, grey.h).   *)
GreyData(first, pass, expire, bcount, pcount) ==
    [first |-> first, pass |-> pass, expire |-> expire,
     bcount |-> bcount, pcount |-> pcount]

\* DB_put: an upsert into the name-space implied by the key type.
DB_put(db, k, v) == (k :> v) @@ db

\* DB_del: remove the row.
DB_del(db, k) == Restrict(db, DOMAIN db \ {k})

(* DB_addr_state: 1 if the IP-keyed record is a trap, 2 if it is a        *)
(* whitelist record, 0 if there is none (its -1 is a failing DB_get).     *)
DB_addr_state(db, ip) ==
    IF IPKey(ip) \notin DOMAIN db THEN 0
    ELSE IF db[IPKey(ip)].pcount = -1 THEN 1 ELSE 2

\* The DB calls of one reader transaction, and their effect on the rows.
Update(put, del) == [put |-> put, del |-> del]

Apply(db, u) ==
    LET d == u.put @@ db IN Restrict(d, DOMAIN d \ u.del)

=============================================================================
