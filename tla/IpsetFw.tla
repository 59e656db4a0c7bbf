------------------------------ MODULE IpsetFw ------------------------------
(***************************************************************************)
(* The ipset firewall driver of src/src/modules/ipset.c: Mod_fw_replace,   *)
(* which installs the whitelist the scanner hands over as the contents of *)
(* a named hash:net set.  It builds the new contents in a stage set named *)
(* "<set>-stage", makes sure the live set exists, swaps the two and       *)
(* destroys the stage set, which after the swap holds the old contents.   *)
(*                                                                         *)
(* The sets live in the kernel: they outlive a failed call, and a greyd   *)
(* that is killed or restarted.  Every ipset command is sent with         *)
(* IPSET_OPT_EXIST, so creating a set that exists succeeds and leaves its *)
(* members, and adding a member that is there succeeds.  Any command may  *)
(* fail (no CAP_NET_ADMIN, no memory, the process killed between two      *)
(* commands); the call then returns -1 at once.                            *)
(***************************************************************************)
EXTENDS Integers, Sequences, FiniteSets

CONSTANTS
    Addrs,        \* addresses the whitelist may hold
    Junk,         \* list entries inet_pton does not parse (a set, may be empty)
    BadMask,      \* list entries whose mask exceeds IP_MAX_MASKBITS (may be empty)
    Zero,         \* the all-zero address
    MaxElem,      \* the max_elements option of the firewall section
    MaxLen,       \* bound on the length of a list
    MaxCalls,     \* bound on calls of Mod_fw_replace
    MaxFaults     \* bound on failing ipset commands

VARIABLES
    exists,       \* the sets the kernel holds, of {"live", "stage"}
    members,      \* members[s]: the elements of set s
    last,         \* the list of the last call and what it returned
    calls,        \* calls so far
    faults        \* failed commands so far

vars == <<exists, members, last, calls, faults>>

Sets    == {"live", "stage"}
Entries == Addrs \cup Junk \cup BadMask
Lists   == UNION {[1..n -> Entries] : n \in 0..MaxLen}

TypeOK ==
    /\ exists \subseteq Sets
    /\ members \in [Sets -> SUBSET (Addrs \cup {Zero})]
    /\ last \in [list : Lists, ret : {-1} \cup (0..MaxLen)]
    /\ calls \in 0..MaxCalls
    /\ faults \in 0..MaxFaults

Init ==
    /\ exists = {}
    /\ members = [s \in Sets |-> {}]
    /\ last = [list |-> <<>>, ret |-> 0]
    /\ calls = 0
    /\ faults = 0

-----------------------------------------------------------------------------
(* ipset_add's parse of an entry: sscanf takes the address part and a     *)
(* mask; a mask over IP_MAX_MASKBITS fails the call.  inet_pton returns 0 *)
(* on text it does not parse, which the "== -1" test lets through, so the *)
(* zeroed address is added.                                               *)
Parse(c) == IF c \in Junk THEN Zero ELSE c

\* The commands of one call, in order.
Cmd(op, c) == [op |-> op, entry |-> c]
Commands(L) ==
    <<Cmd("create", "stage")>>
    \o [i \in 1..Len(L) |-> Cmd("add", L[i])]
    \o <<Cmd("create", "live"), Cmd("swap", "none"), Cmd("destroy", "stage")>>

(* One command on the kernel state st; ok is FALSE when it fails by       *)
(* itself: a bad mask, or an add to a full set of an element not in it.   *)
Exec(st, c) ==
    CASE c.op = "create" ->
           [ok |-> TRUE, st |-> [st EXCEPT !.exists = @ \cup {c.entry}]]
      [] c.op = "add" ->
           [ok |-> c.entry \notin BadMask
                   /\ (Parse(c.entry) \in st.members["stage"]
                       \/ Cardinality(st.members["stage"]) < MaxElem),
            st |-> [st EXCEPT !.members["stage"] = @ \cup {Parse(c.entry)}]]
      [] c.op = "swap" ->
           [ok |-> TRUE, st |-> [st EXCEPT !.members = [s \in Sets |->
                                   IF s = "live" THEN @["stage"] ELSE @["live"]]]]
      [] c.op = "destroy" ->
           [ok |-> TRUE, st |-> [st EXCEPT !.exists = @ \ {"stage"},
                                           !.members["stage"] = {}]]

(* The commands from the i-th on, the f-th failing if f is one of them:   *)
(* the kernel state when the call returns, and whether all succeeded.     *)
RECURSIVE Run(_, _, _, _)
Run(st, cmds, i, f) ==
    IF i > Len(cmds) THEN [ok |-> TRUE, st |-> st]
    ELSE IF i = f THEN [ok |-> FALSE, st |-> st]
    ELSE LET r == Exec(st, cmds[i]) IN
         IF r.ok THEN Run(r.st, cmds, i + 1, f)
         ELSE [ok |-> FALSE, st |-> st]

(* Mod_fw_replace(set, L): f is the command that fails, or 0 for none.    *)
(* It returns the number of entries added, or -1.                         *)
Mod_fw_replace(L) ==
    /\ calls < MaxCalls
    /\ \E f \in 0..Len(Commands(L)) :
         /\ f > 0 => faults < MaxFaults
         /\ LET r == Run([exists |-> exists, members |-> members], Commands(L), 1, f)
            IN /\ exists' = r.st.exists
               /\ members' = r.st.members
               /\ last' = [list |-> L, ret |-> IF r.ok THEN Len(L) ELSE -1]
         /\ faults' = IF f > 0 THEN faults + 1 ELSE faults
    /\ calls' = calls + 1

Next == \E L \in Lists : Mod_fw_replace(L)

Spec == Init /\ [][Next]_vars

-----------------------------------------------------------------------------
(* The contract of fw_replace (spec.md 4.3, section 6): when the call      *)
(* returns success, the named set holds exactly the entries of the list,  *)
(* as ipset_add parses them.  Mod_fw_replace creates the stage set with   *)
(* IPSET_OPT_EXIST (ipset.c:462, 511), which keeps whatever an earlier    *)
(* failed call left in it.                                                *)
ReplaceInstallsList ==
    last.ret >= 0 => members["live"] = {Parse(last.list[i]) : i \in 1..Len(last.list)}

=============================================================================
