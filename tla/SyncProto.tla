------------------------------ MODULE SyncProto ------------------------------
(***************************************************************************)
(* The sync engine of src/src/sync.c: how greyd hosts replicate grey,      *)
(* white and trap records over UDP.                                        *)
(*                                                                         *)
(* A sender builds one packet per record (Sync_update, send_address): a   *)
(* header, one record TLV and an END TLV, authenticated by an HMAC over    *)
(* the whole packet.  send_sync_message sends one copy to the multicast    *)
(* group when multicast is configured and one copy to every configured     *)
(* unicast host.  The network is a bag of packets: copies may be lost,     *)
(* duplicated, reordered or altered in flight.                             *)
(*                                                                         *)
(* Sync_recv drops its own multicast copies, checks the header and the     *)
(* HMAC, then walks the TLVs and writes one framed record per WHITE,       *)
(* TRAPPED, DEL_* or GREY TLV into the grey pipe (with sync = 0), when     *)
(* greylisting is enabled.  Addresses, times and the HMAC itself are data  *)
(* abstracted: an altered packet is one whose HMAC no longer matches.      *)
(***************************************************************************)
EXTENDS Naturals, Sequences, Bags, BagsExt

CONSTANTS
    Hosts,        \* the greyd hosts of the cluster
    SyncHosts,    \* SyncHosts[h]: the unicast peers configured on h
    Mcast,        \* TRUE when the hosts use the multicast group
    GreyEnabled,  \* the "enable" option of the grey section
    IPs,          \* addresses carried by the records
    Rcpts,        \* recipients of GREY records
    MaxSends,     \* bound on the records a host sends
    MaxFaults     \* bound on duplicated and altered packets

VARIABLES
    net,          \* bag of packets in flight
    fwd,          \* fwd[h]: records Sync_recv wrote to h's grey pipe, with the
                  \* sender and the header counter of the packet they came in
    sends,        \* sends[h]: number of records h has sent
    faults,       \* number of duplications and alterations so far
    sent          \* history: <<host, record>> of every record sent

vars == <<net, fwd, sends, faults, sent>>

(* The records of the grey pipe that sync produces.                        *)
GreyRec(ip, r)       == [type |-> "GREY", ip |-> ip, to |-> r, delete |-> FALSE]
AddrRec(t, ip, del)  == [type |-> t, ip |-> ip, to |-> "none", delete |-> del]

Records == {GreyRec(i, r) : i \in IPs, r \in Rcpts}
           \cup {AddrRec(t, i, d) : t \in {"WHITE", "TRAPPED"}, i \in IPs, d \in BOOLEAN}

(* TLV types of the wire format.                                           *)
TLVTypes == {"GREY", "WHITE", "DEL_WHITE", "TRAPPED", "DEL_TRAPPED", "END"}

EndTLV == [type |-> "END", ip |-> "none", to |-> "none"]

(* The record TLV Sync_update or send_address puts in a packet: a          *)
(* deletion is sent as SYNC_DEL_WHITE or SYNC_DEL_TRAPPED.                 *)
ToTLV(rec) ==
    [type |-> IF rec.delete THEN "DEL_" \o rec.type ELSE rec.type,
     ip |-> rec.ip, to |-> rec.to]

(* A packet: the header's sh_counter is the sender's sync_counter, which  *)
(* each packet it builds takes and increments; the HMAC covers it.        *)
Packet(src, dst, ctr, tlvs) ==
    [src |-> src, dst |-> dst, ctr |-> ctr, tlvs |-> tlvs, auth |-> TRUE]

TypeOK ==
    /\ \A p \in DOMAIN net :
         /\ p.src \in Hosts /\ p.dst \in Hosts /\ p.auth \in BOOLEAN
         /\ \A i \in 1..Len(p.tlvs) : p.tlvs[i].type \in TLVTypes
    /\ fwd \in [Hosts -> Seq([rec : Records, from : Hosts, ctr : 0..MaxSends])]
    /\ sends \in [Hosts -> 0..MaxSends]
    /\ faults \in 0..MaxFaults
    /\ sent \subseteq Hosts \X Records

Init ==
    /\ net = EmptyBag
    /\ fwd = [h \in Hosts |-> <<>>]
    /\ sends = [h \in Hosts |-> 0]
    /\ faults = 0
    /\ sent = {}

-----------------------------------------------------------------------------
(***************************************************************************)
(* Sending.                                                                *)
(***************************************************************************)

(* send_sync_message: one copy to the multicast group, which every member  *)
(* of the group receives (the sender included, by multicast loopback), and *)
(* one copy to each configured unicast host.                               *)
send_sync_message(h, ctr, tlvs) ==
    LET mcast   == IF Mcast THEN SetToBag({Packet(h, d, ctr, tlvs) : d \in Hosts})
                   ELSE EmptyBag
        unicast == SetToBag({Packet(h, d, ctr, tlvs) : d \in SyncHosts[h]})
    IN net' = net (+) mcast (+) unicast

(* Sync_update, Sync_white and Sync_trapped: a header stamped with the    *)
(* next sync_counter, one record and an END marker.                       *)
SyncSend(h, rec) ==
    /\ sends[h] < MaxSends
    /\ send_sync_message(h, sends[h], <<ToTLV(rec), EndTLV>>)
    /\ sends' = [sends EXCEPT ![h] = @ + 1]
    /\ sent' = sent \cup {<<h, rec>>}
    /\ UNCHANGED <<fwd, faults>>

-----------------------------------------------------------------------------
(***************************************************************************)
(* The network.                                                            *)
(***************************************************************************)
Lose(p) ==
    /\ net' = BagRemove(net, p)
    /\ UNCHANGED <<fwd, sends, faults, sent>>

Duplicate(p) ==
    /\ faults < MaxFaults
    /\ net' = BagAdd(net, p)
    /\ faults' = faults + 1
    /\ UNCHANGED <<fwd, sends, sent>>

\* A copy altered in flight no longer carries a valid HMAC.
Alter(p) ==
    /\ faults < MaxFaults
    /\ p.auth
    /\ net' = BagAdd(BagRemove(net, p), [p EXCEPT !.auth = FALSE])
    /\ faults' = faults + 1
    /\ UNCHANGED <<fwd, sends, sent>>

-----------------------------------------------------------------------------
(***************************************************************************)
(* Receiving.                                                              *)
(***************************************************************************)

\* Mutant: the DEL_* cases missing from the switch.
RECURSIVE RecvTLVsNoDelCase(_, _, _)
RecvTLVsNoDelCase(tlvs, delete, acc) ==
    IF tlvs = <<>> THEN acc
    ELSE LET t == Head(tlvs) IN
         CASE t.type = "END" -> acc
           [] t.type = "GREY" ->
                RecvTLVsNoDelCase(Tail(tlvs), delete, Append(acc, GreyRec(t.ip, t.to)))
           [] OTHER ->
                RecvTLVsNoDelCase(Tail(tlvs), delete, Append(acc, AddrRec(t.type, t.ip, delete)))

(* The TLV loop of Sync_recv, from the first TLV after the header.  It     *)
(* stops at END or at the end of the packet; delete is set by a DEL_* TLV  *)
(* and is a local of the whole call, not of one iteration.                 *)
RECURSIVE RecvTLVs(_, _, _)
RecvTLVs(tlvs, delete, acc) ==
    IF tlvs = <<>> THEN acc
    ELSE LET t    == Head(tlvs)
             rest == Tail(tlvs)
         IN CASE t.type = "END" ->
                   acc
              [] t.type = "GREY" ->
                   RecvTLVs(rest, delete, Append(acc, GreyRec(t.ip, t.to)))
              [] t.type \in {"DEL_WHITE", "DEL_TRAPPED"} ->
                   RecvTLVs(rest, TRUE,
                            Append(acc, AddrRec(IF t.type = "DEL_WHITE" THEN "WHITE"
                                                ELSE "TRAPPED", t.ip, TRUE)))
              [] OTHER ->
                   RecvTLVs(rest, delete, Append(acc, AddrRec(t.type, t.ip, delete)))

\* Mutant: no loopback check.
LoopbackNone(h, p) == FALSE

\* The multicast loopback check: the source is the host's own multicast
\* interface address.  Without multicast sync_in stays zeroed and nothing
\* is dropped.
Loopback(h, p) == Mcast /\ p.src = h

Sync_recv(h, p) ==
    LET recs == IF GreyEnabled THEN RecvTLVs(p.tlvs, FALSE, <<>>) ELSE <<>>
    IN
    /\ p.dst = h
    /\ net' = BagRemove(net, p)
    /\ fwd' = IF Loopback(h, p) \/ ~p.auth THEN fwd
              ELSE [fwd EXCEPT ![h] = @ \o [i \in 1..Len(recs) |->
                                               [rec |-> recs[i], from |-> p.src, ctr |-> p.ctr]]]
    /\ UNCHANGED <<sends, faults, sent>>

Next ==
    \/ \E h \in Hosts, rec \in Records : SyncSend(h, rec)
    \/ \E p \in DOMAIN net :
         \/ Lose(p)
         \/ Duplicate(p)
         \/ Alter(p)
         \/ Sync_recv(p.dst, p)

Spec == Init /\ [][Next]_vars

-----------------------------------------------------------------------------
(***************************************************************************)
(* Properties.                                                             *)
(***************************************************************************)

(* spec.md section 8, invariant 6 (sync round trip): every record that     *)
(* Sync_recv writes to a host's grey pipe is, type, address, recipient and *)
(* delete flag alike, a record that another host sent: no own multicast  *)
(* copy, altered packet or mis-decoded TLV reaches the greylister.        *)
ForwardedWasSent ==
    \A h \in Hosts : \A i \in 1..Len(fwd[h]) :
        LET f == fwd[h][i] IN
        f.from # h /\ <<f.from, f.rec>> \in sent

=============================================================================
