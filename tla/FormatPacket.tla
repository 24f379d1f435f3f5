---------------------------- MODULE FormatPacket ----------------------------
(***************************************************************************)
(* capshow printing a trace: format_pkg and format_ignore of src/format.c, *)
(* the walk over the headers, and the loops of the decoders for TCP        *)
(* options, SCTP chunks and DNS.  The other loops go through a fixed table *)
(* (print_http, name_lookup for ARP) or past the end of one (Printed).     *)
(*                                                                         *)
(* What a header says is chosen each time it is read (Headers), so the     *)
(* formatter of a header and the walk behind it may see different values.  *)
(***************************************************************************)
EXTENDS Headers, Dns, ConnectionId, Picotime

CONSTANTS
    Invocations,   \* [layer, relative, packets, max]: options, and what the trace holds
    OptSizes,      \* sizes of TCP options
    ChunkLens,     \* lengths of SCTP chunks
    Messages,      \* bodies of DNS messages
    Counts         \* numbers of questions and of answers

VARIABLES
    inv,           \* this invocation
    pc,            \* off | read | walk | loop | dns | ended | aborted
    format,        \* struct format
    pkt,           \* the packet being printed
    chunk,         \* the header_chunk of print_pkt
    loop,          \* the loop over TCP options or SCTP chunks: [proto, at, end]
    dns,           \* the DNS decoder
    conn,          \* connection_id's lists
    lines          \* what was printed: [pkt, nr, before, time, id], shown FALSE if ignored

\* A packet: the octets captured of it and whether that is all, its time, and what
\* connection_id reads, the addresses as sets of bits.
Packet ==
    [cap : Nat, whole : BOOLEAN, ts : Timepico, src : SUBSET Nat, dst : SUBSET Nat, sport : Nat, dport : Nat,
     tcp : BOOLEAN, udp : BOOLEAN, syn : BOOLEAN, ack : BOOLEAN, seq : Int]

ASSUME FormatAssumption ==
    /\ Invocations # {} /\ \A i \in Invocations : i.packets # {} /\ i.packets \subseteq Packet
    /\ Messages \subseteq Seq(Nat) /\ Counts \subseteq Nat

fvars == <<inv, pc, format, pkt, chunk, loop, dns, conn, lines>>

LAYER_LINK == 2
LAYER_APPLICATION == 4

format_setup(i) ==
    [pktcount |-> 0, first |-> TRUE, ref |-> timepico_new(0, 0), relative |-> i.relative,
     layer |-> IF i.layer = 0 THEN LAYER_APPLICATION ELSE i.layer]

NoLoop == [proto |-> "none", at |-> 0, end |-> 0]
NoMessage == Decoder(<<0, 0>>, FALSE, "done")

FInit ==
    /\ inv \in Invocations
    /\ pc = "read"
    /\ format = format_setup(inv)
    /\ pkt = CHOOSE p \in inv.packets : TRUE
    /\ chunk = header_init
    /\ loop = NoLoop
    /\ dns = NoMessage
    /\ conn = NoConnections
    /\ lines = <<>>

-----------------------------------------------------------------------------
\* Both count the packet, and take the first one's timestamp for reference.
Counted(p) ==
    [format EXCEPT !.pktcount = @ + 1, !.first = FALSE, !.ref = IF format.first THEN p.ts ELSE @]

\* The sign and the time.
print_timestamp(fm, p) ==
    IF ~fm.relative THEN <<FALSE, p.ts>>
    ELSE IF timecmp(p.ts, fm.ref) >= 0 THEN <<FALSE, timepico_sub(p.ts, fm.ref)>>
    ELSE <<TRUE, timepico_sub(fm.ref, p.ts)>>

Line(fm, p, id, shown) ==
    [pkt |-> p, nr |-> fm.pktcount, time |-> print_timestamp(fm, p), id |-> id, shown |-> shown]

MoreToRead == pc = "read" /\ Len(lines) < inv.max

\* capshow identifies the connection of every packet, and format_ignore only counts.
format_ignore ==
    /\ MoreToRead
    /\ \E p \in inv.packets : \E o \in connection_id(conn, p) :
          /\ conn' = o.c
          /\ pc' = IF o.c.crashed THEN "aborted" ELSE pc
          /\ format' = Counted(p)
          /\ lines' = Append(lines, Line(Counted(p), p, o.id, FALSE))
    /\ UNCHANGED <<inv, pkt, chunk, loop, dns>>

\* print_pkt up to the headers, behind capshow's own call of connection_id.
format_pkg ==
    /\ MoreToRead
    /\ \E p \in inv.packets : \E o \in connection_id(conn, p) : \E again \in connection_id(o.c, p) :
          /\ conn' = again.c
          /\ pkt' = p
          /\ format' = Counted(p)
          /\ lines' = Append(lines, Line(Counted(p), p, again.id, TRUE))
          /\ pc' = IF o.c.crashed \/ again.c.crashed THEN "aborted"
                   ELSE IF p.cap > 0 /\ format.layer >= LAYER_LINK THEN "walk"
                   ELSE "read"
    /\ chunk' = header_init
    /\ UNCHANGED <<inv, loop, dns>>

-----------------------------------------------------------------------------
\* What the trace may hold behind a DNS header, up to the end of the capture.
Bodies(n) == {b \in Messages : Len(b) = n} \cup {[i \in 1..n |-> 0]}

\* tcp_options begins, where the header has any.
TcpLoops(g) == {NoLoop} \cup {[proto |-> "TCP", at |-> g.ptr + 20, end |-> g.ptr + 4 * n] : n \in {m \in Doff : m > 5}}

\* icmp_format looks a code up in a table without a last entry, and print_http compares
\* and copies as many octets as the IP header announced, captured or not.  Either prints
\* something, or reads where the process has no memory.
Printed == {"walk", "aborted"}

\* header_format: what to go on with behind header g.
header_format(g) ==
    \/ /\ g.proto = "TCP" /\ ~g.truncated
       /\ loop' \in TcpLoops(g)
       /\ pc' \in IF loop'.proto = "TCP" THEN {"loop"} ELSE Printed
       /\ UNCHANGED dns
    \/ /\ g.proto = "SCTP" /\ ~g.truncated
       /\ loop' = [proto |-> "SCTP", at |-> 0, end |-> g.plen - 12]
       /\ pc' = "loop"
       /\ UNCHANGED dns
    \/ /\ g.proto = "DNS" /\ ~g.truncated
       /\ dns' \in dns_format(Counts, pkt.whole)
       /\ pc' = IF dns'.do = "done" THEN "walk" ELSE "dns"
       /\ UNCHANGED loop
    \/ /\ g.proto = "ICMP" /\ ~g.truncated /\ format.layer >= LAYER_APPLICATION
       /\ pc' \in Printed
       /\ UNCHANGED <<loop, dns>>
    \/ /\ g.proto \notin {"TCP", "SCTP", "DNS", "ICMP"} \/ g.truncated \/ (g.proto = "ICMP" /\ format.layer < LAYER_APPLICATION)
       /\ UNCHANGED <<pc, loop, dns>>

\* One turn of the loop in print_pkt.
Walk ==
    /\ pc = "walk"
    /\ chunk' \in header_walk(pkt.cap, chunk)
    /\ \/ chunk'.ret = 1 /\ header_format(chunk')
       \/ chunk'.ret # 1 /\ pc' = (IF chunk'.ret = 0 THEN "read" ELSE "aborted") /\ UNCHANGED <<loop, dns>>
    /\ UNCHANGED <<inv, format, pkt, conn, lines>>

\* tcp_options: the sizes an option at this place may have, none to stop.
TcpOption ==
    IF loop.at >= loop.end \/ loop.at + 1 > pkt.cap THEN {}
    ELSE {1} \cup {n \in OptSizes \ {0} : loop.at + 2 <= pkt.cap /\ loop.at + n <= pkt.cap}

tcp_options ==
    /\ pc = "loop" /\ loop.proto = "TCP"
    /\ \/ loop' = NoLoop /\ pc' \in Printed
       \/ \E n \in TcpOption : loop' = [loop EXCEPT !.at = @ + n] /\ UNCHANGED pc
    /\ UNCHANGED <<inv, format, pkt, chunk, dns, conn, lines>>

\* sctp_chunks: read on until as many octets are passed as the IP header announced.
sctp_chunks ==
    /\ pc = "loop" /\ loop.proto = "SCTP"
    /\ \E n \in ChunkLens : IF loop.at + 4 + n >= loop.end THEN loop' = NoLoop /\ pc' = "walk"
                            ELSE loop' = [loop EXCEPT !.at = @ + 4 + n] /\ UNCHANGED pc
    /\ UNCHANGED <<inv, format, pkt, chunk, dns, conn, lines>>

DnsGoesOn ==
    /\ pc = "dns"
    /\ dns' \in DnsStep(dns, Bodies(pkt.cap - chunk.ptr - DNS_HEADER))
    /\ pc' = IF dns'.do = "done" THEN "walk" ELSE pc
    /\ UNCHANGED <<inv, format, pkt, chunk, loop, conn, lines>>

TraceEnds == pc = "read" /\ pc' = "ended" /\ UNCHANGED <<inv, format, pkt, chunk, loop, dns, conn, lines>>

PrintStep == Walk \/ tcp_options \/ sctp_chunks \/ DnsGoesOn
FNext == format_ignore \/ format_pkg \/ PrintStep \/ TraceEnds

-----------------------------------------------------------------------------
\* Every packet is printed to its end, or the process with it: the walk over nested
\* headers, the options and chunks, and the labels and references of DNS names all come
\* to an end, whatever the packet says (print_pkt, tcp_options, sctp_chunks, dns_name_int).
FormatEnds == pc \in {"walk", "loop", "dns"} ~> pc \in {"read", "aborted"}

\* No name of a DNS message is written past the end of its buffer: dns_name takes the
\* three octets off the size that "..." and its NUL need behind the last that fits.
NameFits == dns.top <= NAME

Moved == \E b \in DOMAIN conn.list : conn.list[b].moves > 0

\* As long as no list of connection_id has been reallocated, packets have the same id if
\* and only if they belong together.  That capshow asks twice for a packet it shows and
\* once for one it ignores makes no difference.
ConnectionIds == ~Moved /\ ~conn.crashed => \A j \in DOMAIN lines : IdBelongs(SubSeq(lines, 1, j - 1), lines[j])
=============================================================================
