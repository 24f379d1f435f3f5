----------------------------- MODULE MCPackets ------------------------------
(***************************************************************************)
(* capshow or capinfo over small traces.  The ends of a connection are two *)
(* hosts of one bucket, SYNs have two sequence numbers; headers and DNS    *)
(* messages are varied one packet at a time.                               *)
(***************************************************************************)
EXTENDS PacketTools

Stamp(s) == timepico_new(s, 0)
Bits(n) == {b \in 0..2 : (n \div 2^b) % 2 = 1}
Segment(src, dst, tcp, syn, ack, seq, s) ==
    [cap |-> 60, whole |-> TRUE, ts |-> Stamp(s), src |-> Bits(src), dst |-> Bits(dst), sport |-> src, dport |-> dst,
     tcp |-> tcp, udp |-> ~tcp, syn |-> syn, ack |-> ack, seq |-> seq]
Ends == {<<1, 2>>, <<2, 1>>, <<5, 6>>}

MCConnections ==
    {Segment(e[1], e[2], TRUE, TRUE, FALSE, q, 1) : e \in Ends, q \in {7, 8}}
    \cup {Segment(e[1], e[2], TRUE, TRUE, TRUE, 9, 2) : e \in {<<2, 1>>}}
    \cup {Segment(e[1], e[2], FALSE, FALSE, FALSE, 0, 0) : e \in {<<1, 2>>}}
    \cup {[Segment(1, 1, FALSE, FALSE, FALSE, 0, 0) EXCEPT !.udp = FALSE]}

MCContents ==
    {[Segment(1, 2, FALSE, FALSE, FALSE, 0, 0) EXCEPT !.cap = n, !.whole = w, !.udp = FALSE]
        : n \in {0, 10, 58, 75}, w \in BOOLEAN}

MCInvocations ==
    {[layer |-> 1, relative |-> TRUE, packets |-> MCConnections, max |-> 4],
     [layer |-> 0, relative |-> FALSE, packets |-> MCContents, max |-> 1]}

MCDnsOctets == {0, 1, 12, 14, 192}
\* All bodies of four octets, and some that hold a question and an answer with its data.
MCMessages ==
    [1..4 -> MCDnsOctets]
    \cup {<<1, 97, 0, 0, 1, 0, 1, 192, 12, 0, 1, 0, 1, 0, 0, 0, 0, 0, 2, 192, 14>>,
          <<192, 12, 0, 1, 0, 1, 1, 97, 192, 18, 0, 15, 0, 1, 0, 0, 0, 0, 0, 192, 12>>,
          <<0, 0, 0, 1, 0, 1, 192, 25, 0, 2, 0, 1, 0, 0, 0, 192, 18, 0, 2, 192, 12>>}

Name8(s, t) == [stem |-> s, last |-> t, len |-> 8]
Short(s, n) == [stem |-> s, last |-> "", len |-> n]
Info(m, n, len, type, proto, marker) ==
    [mampid |-> m, nic |-> n, len |-> len, type |-> type, ipproto |-> proto, marker |-> marker]
MCInfoPackets ==
    {Info(Name8("mp", "1"), Name8("eth", "0"), 60, 2048, 6, 0), Info(Name8("mp", "1"), Name8("eth", "1"), 80, 33024, 17, 4000),
     Info(Name8("mp", "1"), Short("eth", 7), 42, 38, 0, 0), Info(Short("mp", 4), Name8("eth", "0"), 60, 2048, 255, 0),
     Info(Short("mp", 4), Short("eth", 4), 1514, 65535, 0, 0)}

=============================================================================
