---------------------------- MODULE ConnectionId ----------------------------
(***************************************************************************)
(* src/packet/connection_id.c and the lists of src/slist.c it keeps.       *)
(*                                                                         *)
(* A bucket is [items, capacity, moves]: moves counts how often the list   *)
(* was reallocated.  An item is an entry (the two ends, and whether the    *)
(* connection is finished) with the state stored for it.  A pointer to an  *)
(* item is its index and the moves at the time: stale after the next one.  *)
(* An address is the set of its bits that are 1.                           *)
(***************************************************************************)
EXTENDS Integers, Sequences

CONSTANTS
    BUCKET_BITS,   \* bucket_count is 2^BUCKET_BITS
    INITIAL        \* capacity of a new list

CONNECTION_ID_NONE == 0

ASSUME BucketAssumption == BUCKET_BITS \in Nat

Buckets == SUBSET (0..(BUCKET_BITS - 1))

slist_init == [items |-> <<>>, capacity |-> INITIAL, moves |-> 0]
ASSUME InitialEven == INITIAL \in Nat \ {0} /\ INITIAL % 2 = 0

NoConnections == [list |-> [b \in Buckets |-> slist_init], counter |-> 0, crashed |-> FALSE]

slist_alloc(l, growth) == [items |-> l.items, capacity |-> l.capacity + growth, moves |-> l.moves + 1]

slist_put(l, item) ==
    LET m == IF Len(l.items) = l.capacity THEN slist_alloc(l, l.capacity) ELSE l
    IN [items |-> Append(m.items, item), capacity |-> m.capacity, moves |-> m.moves]

\* The first index whose entry is the key, 0 if none is.
slist_find(l, key) ==
    LET found == {i \in DOMAIN l.items : l.items[i].entry = key}
    IN IF found = {} THEN 0 ELSE CHOOSE i \in found : \A j \in found : i <= j

Entry(src, dst, sport, dport) == [src |-> src, dst |-> dst, sport |-> sport, dport |-> dport, finished |-> FALSE]
ipv4_forward(p) == Entry(p.src, p.dst, p.sport, p.dport)
ipv4_backward(p) == Entry(p.dst, p.src, p.dport, p.sport)

\* The exclusive or of the addresses, of which the remainder by bucket_count leaves the
\* lowest bits.
ipv4_bucket_select(p) == ((p.src \ p.dst) \cup (p.dst \ p.src)) \cap 0..(BUCKET_BITS - 1)

entry_put(l, entry, id) ==
    slist_put(l, [entry |-> entry, id |-> id, seq |-> 0, sibling |-> [at |-> 0, moves |-> 0]])

\* Two entries are put, with the sequence number, and point to each other.
PutPair(l, forward, backward, id, seq) ==
    LET m == entry_put(entry_put(l, forward, id), backward, id)
        n == Len(m.items)
        Paired(i) == [entry |-> m.items[i].entry, id |-> m.items[i].id, seq |-> seq,
                      sibling |-> [at |-> 2 * n - 1 - i, moves |-> m.moves]]
    IN [items |-> [i \in 1..n |-> IF i < n - 1 THEN m.items[i] ELSE Paired(i)],
        capacity |-> m.capacity, moves |-> m.moves]

\* Any SYN without ACK.
NewSynAlways(x, p) == p.tcp /\ p.syn /\ ~p.ack

\* A SYN without ACK, unless the connection began with it.
NewSyn(x, p) == p.tcp /\ p.syn /\ ~p.ack /\ x.seq # p.seq

Finished(x) ==
    LET e == x.entry
    IN [entry |-> [src |-> e.src, dst |-> e.dst, sport |-> e.sport, dport |-> e.dport, finished |-> TRUE],
        id |-> x.id, seq |-> x.seq, sibling |-> x.sibling]

Close(l, i, j) ==
    [items |-> [k \in DOMAIN l.items |-> IF k \in {i, j} THEN Finished(l.items[k]) ELSE l.items[k]],
     capacity |-> l.capacity, moves |-> l.moves]

\* A connection more, in bucket b.
Opened(c, b, l) == [list |-> [c.list EXCEPT ![b] = l], counter |-> c.counter + 1, crashed |-> c.crashed]

Crashed(c) == [list |-> c.list, counter |-> c.counter, crashed |-> TRUE]

\* A new SYN is a new connection, and closes the old.  The state and
\* its sibling are used behind entry_put; if the list has moved, now or since they were
\* paired, what they point to is gone: the old pair is closed, or not, or the process ends.
connection_id_tcp_syn(c, b, i, p) ==
    LET l == c.list[b]
        x == l.items[i]
        j == x.sibling.at
        m == PutPair(l, x.entry, l.items[j].entry, c.counter + 1, p.seq)
    IN IF ~NewSyn(x, p)
       THEN {[c |-> c, id |-> x.id]}
       ELSE {[c |-> Opened(c, b, Close(m, i, j)), id |-> c.counter + 1]}
            \cup IF m.moves = x.sibling.moves THEN {}
                 ELSE {[c |-> Opened(c, b, m), id |-> c.counter + 1],
                       [c |-> Crashed(c), id |-> CONNECTION_ID_NONE]}

connection_id_search(c, b, p) ==
    LET i == slist_find(c.list[b], ipv4_forward(p))
    IN IF i # 0
       THEN connection_id_tcp_syn(c, b, i, p)
       ELSE {[c |-> Opened(c, b, PutPair(c.list[b], ipv4_forward(p), ipv4_backward(p), c.counter + 1,
                                         IF p.tcp THEN p.seq ELSE 0)),
              id |-> c.counter + 1]}

\* All outcomes for a packet: the lists after it, and its id.
connection_id(c, p) ==
    IF p.tcp \/ p.udp
    THEN connection_id_search(c, ipv4_bucket_select(p), p)
    ELSE {[c |-> c, id |-> CONNECTION_ID_NONE]}

SameEnds(p, q) ==
    (p.tcp \/ p.udp) /\ (q.tcp \/ q.udp) /\ ipv4_forward(p) \in {ipv4_forward(q), ipv4_backward(q)}

StartSeq(p) == IF p.tcp THEN p.seq ELSE 0

\* A line behind those of ls has the id of the last packet between the same ends, in either
\* direction, unless its packet is a SYN other than the one that connection began with, and
\* then, or for new ends, an id no line had before.
IdBelongs(ls, line) ==
    LET p == line.pkt
        before == {i \in DOMAIN ls : SameEnds(ls[i].pkt, p)}
        last == CHOOSE i \in before : \A k \in before : k <= i
        start == CHOOSE i \in before : ls[i].id = ls[last].id /\ \A k \in before : ls[k].id = ls[last].id => i <= k
    IN IF ~(p.tcp \/ p.udp) THEN line.id = CONNECTION_ID_NONE
       ELSE IF before = {} \/ (p.tcp /\ p.syn /\ ~p.ack /\ p.seq # StartSeq(ls[start].pkt))
       THEN \A i \in DOMAIN ls : ls[i].id # line.id
       ELSE line.id = ls[last].id
=============================================================================
