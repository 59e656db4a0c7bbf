-------------------------------- MODULE Trie --------------------------------
(***************************************************************************)
(* The radix-2 trie of src/src/trie.c with its default comparator bytecmp. *)
(*                                                                         *)
(* The trie is a store of nodes; node 1 is the root that Trie_create(NULL) *)
(* returns.  A key is its bit string, most significant bit of each byte   *)
(* first, as the BIT macro reads it; a byte has ByteBits bits so that keys *)
(* of one and two bytes stay small.  A node is a leaf when both kids are  *)
(* NULL (0).  A leaf holds a key; an internal node holds a branch bit.    *)
(*                                                                         *)
(* The state machine inserts keys one after another; Trie_contains is     *)
(* checked against the set of inserted keys, its reference definition.    *)
(***************************************************************************)
EXTENDS Naturals, Sequences

CONSTANTS
    ByteBits,     \* bits per key byte (8 in the code)
    KeyLens       \* the key lengths in bytes that the callers use

NULL == <<>>      \* a node with no key (calloc'd key pointer)

Keys == UNION {[1..l * ByteBits -> {0, 1}] : l \in KeyLens}

MaxKeyBits == ByteBits * (CHOOSE l \in KeyLens : \A m \in KeyLens : m <= l)
MinKeyBits == ByteBits * (CHOOSE l \in KeyLens : \A m \in KeyLens : l <= m)

\* Bit positions a split can read past the end of a shorter stored key.
JunkBits == (MinKeyBits + 1)..MaxKeyBits

VARIABLES
    store,        \* store[n]: node n of the trie
    inserted,     \* keys passed to Trie_insert so far
    crashed       \* Trie_insert dereferenced the NULL key of an inner node

vars == <<store, inserted, crashed>>

Node(key, kids, branch) == [key |-> key, kids |-> kids, branch |-> branch]

\* Trie_create: a leaf holding a copy of the key (NULL for the root).
Trie_create(key) == Node(key, <<0, 0>>, 0)

IS_LEAF(nd) == nd.kids = <<0, 0>>

\* BIT(x, n): bit n of the key, counted from 0.
BIT(x, n) == x[n + 1]

\* bytecmp: keys of different lengths differ; otherwise memcmp.
bytecmp(a, b) == a = b

TypeOK ==
    /\ \A n \in 1..Len(store) :
         /\ store[n].key \in Keys \cup {NULL}
         /\ store[n].kids \in (0..Len(store)) \X (0..Len(store))
         /\ store[n].branch \in 0..MaxKeyBits
    /\ inserted \subseteq Keys
    /\ crashed \in BOOLEAN

Init ==
    /\ store = <<Trie_create(NULL)>>
    /\ inserted = {}
    /\ crashed = FALSE

-----------------------------------------------------------------------------
(* The descent shared by Trie_insert and Trie_contains, from node n: it    *)
(* stops at a leaf, at an inner node whose branch bit is past the key      *)
(* ("break"), or at an inner node whose kid for the key is NULL.           *)
RECURSIVE Descend(_, _, _)
Descend(st, n, key) ==
    LET nd == st[n] IN
    IF IS_LEAF(nd) THEN [node |-> n, stop |-> "leaf"]
    ELSE IF nd.branch >= Len(key) THEN [node |-> n, stop |-> "break"]
    ELSE IF nd.kids[BIT(key, nd.branch) + 1] = 0 THEN [node |-> n, stop |-> "nokid"]
    ELSE Descend(st, nd.kids[BIT(key, nd.branch) + 1], key)

\* Trie_contains.
Trie_contains(st, key) ==
    LET d == Descend(st, 1, key) IN
    d.stop = "leaf" /\ st[d.node].key # NULL /\ bytecmp(st[d.node].key, key)

\* Attach a new leaf for key as kid b of node n.
Attach(st, n, b, key) ==
    [Append(st, Trie_create(key)) EXCEPT ![n].kids[b + 1] = Len(st) + 1]

(* The split of leaf t: the first bit where the stored key and the new key *)
(* differ, reading bits of the stored key past its end from junk (heap     *)
(* bytes after a shorter key); val is the new key's bit there, or its last *)
(* bit when the keys agree on every bit of the new key.                   *)
SplitBit(tkey, key, junk) ==
    LET TBit(b) == IF b < Len(tkey) THEN BIT(tkey, b) ELSE junk[b + 1]
        diff    == {b \in 0..Len(key) - 1 : TBit(b) # BIT(key, b)}
    IN IF diff = {} THEN Len(key)
       ELSE CHOOSE b \in diff : \A c \in diff : b <= c

\* Mutant: the new key hung on the old key's side and vice versa.
SplitSwapped(st, t, key, junk) ==
    LET bit == SplitBit(st[t].key, key, junk)
        val == IF bit < Len(key) THEN BIT(key, bit) ELSE BIT(key, Len(key) - 1)
        st2 == Append(Append(st, Trie_create(key)), Trie_create(st[t].key))
    IN [st2 EXCEPT ![t] = Node(NULL,
                               IF val = 0 THEN <<Len(st) + 2, Len(st) + 1>>
                               ELSE <<Len(st) + 1, Len(st) + 2>>,
                               bit)]

Split(st, t, key, junk) ==
    LET bit == SplitBit(st[t].key, key, junk)
        val == IF bit < Len(key) THEN BIT(key, bit) ELSE BIT(key, Len(key) - 1)
        old == st[t].key
        st2 == Append(Append(st, Trie_create(key)), Trie_create(old))
    IN [st2 EXCEPT ![t] = Node(NULL,
                               IF val = 1 THEN <<Len(st) + 2, Len(st) + 1>>
                               ELSE <<Len(st) + 1, Len(st) + 2>>,
                               bit)]

\* Trie_insert, as the store after it and whether it crashed.
Trie_insert(st, key, junk) ==
    LET root == st[1]
        d    == Descend(st, 1, key)
        t    == d.node
    IN
    CASE IS_LEAF(root) /\ root.key = NULL ->
           [st |-> Attach(st, 1, BIT(key, 0), key), crash |-> FALSE]
      [] d.stop = "nokid" ->
           [st |-> Attach(st, t, BIT(key, st[t].branch), key), crash |-> FALSE]
      [] st[t].key # NULL /\ bytecmp(st[t].key, key) ->
           [st |-> st, crash |-> FALSE]
      [] d.stop = "break" ->
           [st |-> st, crash |-> TRUE]
      [] OTHER ->
           [st |-> Split(st, t, key, junk), crash |-> FALSE]

Insert(key) ==
    /\ ~crashed
    /\ \E junk \in [JunkBits -> {0, 1}] :
         LET r == Trie_insert(store, key, junk) IN
         /\ store' = r.st
         /\ crashed' = r.crash
    /\ inserted' = inserted \cup {key}

Next == \E k \in Keys : Insert(k)

Spec == Init /\ [][Next]_vars

-----------------------------------------------------------------------------
(* spec.md section 8, invariant 3: after any sequence of Trie_insert       *)
(* calls, Trie_contains answers exactly set membership: every inserted key *)
(* is found, and no other key is, even one sharing a prefix with an       *)
(* inserted key.                                                           *)
ContainsIsMembership ==
    ~crashed => \A k \in Keys : Trie_contains(store, k) <=> k \in inserted

(* Trie_insert never reads the key of an inner node: its split loop (the  *)
(* BIT(t->key, bit) at trie.c:107) runs only on a leaf, never on an inner *)
(* node left by the "branch >= kbits" break (trie.c:86-88), whose key is  *)
(* NULL.  The break is reached when a key is shorter than a branch bit    *)
(* already in the trie.                                                    *)
NoNullDereference == ~crashed

=============================================================================
