-------------------------- MODULE PacketToolsProofs -------------------------
(***************************************************************************)
(* capshow and capinfo, for every trace: the ids capshow prints tell       *)
(* connections apart, the names it prints fit their buffer, and the        *)
(* statistics capinfo prints are those of the file.                        *)
(***************************************************************************)
EXTENDS PacketTools, FormatProofs, FiniteSetTheorems

\* Zenon, then SMT, unless a step says otherwise, with time for the larger steps.
USE ZenonT(10), SMTT(30)

-----------------------------------------------------------------------------
(* The ids of the lines that capshow prints.                                 *)

\* The inductive invariant.
ConnectionInv ==
    /\ inv \in Invocations /\ Lists(conn) /\ Sequence(lines)
    /\ Still(conn) => Pairs(conn) /\ Recorded(conn, lines) /\ AllBelong(lines)

\* A packet has what connection_id reads.
LEMMA PacketReadable == \A p \in Packet : Readable(p)
  BY DEF Packet, Readable

\* A line more, and all belong.
LEMMA LineAdded ==
    ASSUME ConnectionInv, NEW p \in Packet, NEW o \in connection_id(conn, p), NEW line, line.pkt = p, line.id = o.id,
           conn' = o.c, lines' = Append(lines, line), inv' = inv
    PROVE  ConnectionInv'
<1>1. inv \in Invocations /\ Lists(conn) /\ Sequence(lines) /\ Readable(p)
  BY PacketReadable DEF ConnectionInv
<1>2. Lists(conn') /\ (Still(conn') => Still(conn))
  BY <1>1, ListsStay
<1>3. Sequence(lines')
  BY <1>1, LongerSequence
<1>4. ASSUME Still(conn') PROVE Pairs(conn') /\ Recorded(conn', lines') /\ AllBelong(lines')
  <2>1. Pairs(conn) /\ Recorded(conn, lines) /\ AllBelong(lines)
    BY <1>2, <1>4 DEF ConnectionInv
  <2>2. PICK S : lines \in Seq(S) /\ line \in S
    BY <1>1, LongerSequence
  <2>3. Pairs(conn') /\ Recorded(conn', lines') /\ IdBelongs(lines, line)
    BY <1>1, <1>4, <2>1, <2>2, LineBelongs
  <2>4. Longer(lines, lines', line)
    BY <2>2, OneMore
  <2>5. /\ SubSeq(lines', 1, Len(lines') - 1) = lines /\ Len(lines') = Len(lines) + 1
        /\ \A j \in DOMAIN lines : SubSeq(lines', 1, j - 1) = SubSeq(lines, 1, j - 1)
    BY <2>2, Prefixes, SMTT(30)
  <2>6. ASSUME NEW j \in DOMAIN lines' PROVE IdBelongs(SubSeq(lines', 1, j - 1), lines'[j])
    <3>1. CASE j \in DOMAIN lines
      <4>1. lines'[j] = lines[j] /\ SubSeq(lines', 1, j - 1) = SubSeq(lines, 1, j - 1)
        BY <2>4, <2>5, <3>1 DEF Longer
      <4> QED
        BY <2>1, <3>1, <4>1 DEF AllBelong
    <3>2. CASE j = Len(lines')
      <4>1. lines'[j] = line /\ SubSeq(lines', 1, j - 1) = lines
        BY <2>4, <2>5, <3>2 DEF Longer
      <4> QED
        BY <2>3, <4>1
    <3> QED
      BY <2>4, <2>5, <3>1, <3>2 DEF Longer
  <2> QED
    BY <2>3, <2>6 DEF AllBelong
<1> QED
  BY <1>1, <1>2, <1>3, <1>4 DEF ConnectionInv

\* The steps of capshow that ask for a connection, and the others.
LEMMA ConnectionStep == ConnectionInv /\ [Next]_vars => ConnectionInv'
<1> SUFFICES ASSUME ConnectionInv, [Next]_vars PROVE ConnectionInv'
  OBVIOUS
<1>0. inv \in Invocations /\ inv.packets \subseteq Packet /\ Lists(conn)
  BY FormatAssumption DEF ConnectionInv
<1>1. CASE format_ignore
  <2>1. PICK p \in inv.packets : \E o \in connection_id(conn, p) :
            conn' = o.c /\ lines' = Append(lines, Line(Counted(p), p, o.id, FALSE))
    BY <1>1 DEF format_ignore
  <2>2. PICK o \in connection_id(conn, p) :
            conn' = o.c /\ lines' = Append(lines, Line(Counted(p), p, o.id, FALSE))
    BY <2>1
  <2>3. p \in Packet /\ inv' = inv
    BY <1>0, <1>1 DEF format_ignore
  <2> DEFINE line == Line(Counted(p), p, o.id, FALSE)
  <2>4. line.pkt = p /\ line.id = o.id
    BY DEF Line
  <2>5. lines' = Append(lines, line)
    BY <2>2
  <2> HIDE DEF line
  <2> QED
    BY <2>2, <2>3, <2>4, <2>5, LineAdded
<1>2. CASE format_pkg
  <2>1. PICK p \in inv.packets : \E o \in connection_id(conn, p) : \E again \in connection_id(o.c, p) :
            conn' = again.c /\ lines' = Append(lines, Line(Counted(p), p, again.id, TRUE))
    BY <1>2 DEF format_pkg
  <2>2. PICK o \in connection_id(conn, p) : \E again \in connection_id(o.c, p) :
            conn' = again.c /\ lines' = Append(lines, Line(Counted(p), p, again.id, TRUE))
    BY <2>1
  <2>3. PICK again \in connection_id(o.c, p) :
            conn' = again.c /\ lines' = Append(lines, Line(Counted(p), p, again.id, TRUE))
    BY <2>2
  <2>4. p \in Packet /\ Readable(p) /\ inv' = inv
    BY <1>0, <1>2, PacketReadable DEF format_pkg
  <2>5. CASE Still(again.c)
    <3>1. Still(conn)
      BY <1>0, <2>4, <2>5, ListsStay
    <3>2. again.c = o.c /\ again.id = o.id
      BY <1>0, <2>4, <2>5, <3>1, AskedTwice, SMTT(30) DEF ConnectionInv
    <3> DEFINE line == Line(Counted(p), p, again.id, TRUE)
    <3>3. line.pkt = p /\ line.id = o.id
      BY <3>2 DEF Line
    <3>4. lines' = Append(lines, line)
      BY <2>3
    <3> HIDE DEF line
    <3> QED
      BY <2>3, <2>4, <3>2, <3>3, <3>4, LineAdded
  <2>6. CASE ~Still(again.c)
    <3>1. Lists(conn') /\ ~Still(conn')
      BY <1>0, <2>3, <2>4, <2>6, ListsStay
    <3>2. Sequence(lines')
      BY <2>3, LongerSequence DEF ConnectionInv
    <3> QED
      BY <1>0, <2>4, <3>1, <3>2 DEF ConnectionInv
  <2> QED
    BY <2>5, <2>6
<1>3. CASE UNCHANGED <<inv, conn, lines>>
  BY <1>3 DEF ConnectionInv
<1>4. format_ignore \/ format_pkg \/ UNCHANGED <<inv, conn, lines>>
  <2>1. CASE PrintStep
    BY <2>1 DEF PrintStep, Walk, tcp_options, sctp_chunks, DnsGoesOn
  <2>2. CASE TraceEnds
    BY <2>2 DEF TraceEnds
  <2>3. CASE UNCHANGED fvars
    BY <2>3 DEF fvars
  <2> QED
    BY <2>1, <2>2, <2>3 DEF Next, FNext, Ended, vars
<1> QED
  BY <1>1, <1>2, <1>3, <1>4

\* The lists of connection_id, while they stay where they are: siblings in pairs, one open
\* pair between two ends, and each that of the lines printed for it.
THEOREM ConnectionsRecorded == Spec => []ConnectionInv
<1>1. Init => ConnectionInv
  <2> SUFFICES ASSUME Init PROVE ConnectionInv
    OBVIOUS
  <2>1. inv \in Invocations
    <3>1. CASE FInit
      BY <3>1 DEF FInit
    <3>2. CASE FIdle
      <4>1. Invocations # {} /\ inv = CHOOSE i \in Invocations : TRUE
        BY <3>2, FormatAssumption DEF FIdle
      <4> QED
        BY <4>1
    <3> QED
      BY <3>1, <3>2 DEF Init
  <2>2. conn = NoConnections /\ lines = <<>>
    BY DEF Init, FInit, FIdle
  <2>3. Sequence(lines) /\ AllBelong(lines)
    <3>1. DOMAIN lines = {} /\ \A S : lines \in Seq(S)
      BY <2>2
    <3> QED
      BY <3>1 DEF Sequence, AllBelong
  <2> QED
    BY <2>1, <2>2, <2>3, NoneConnected DEF ConnectionInv
<1> QED
  BY <1>1, ConnectionStep, PTL DEF Spec

\* connection_id: as long as no list was reallocated, a packet has the id of the last
\* between the same ends in either direction, unless a new SYN began another connection,
\* and no two connections have the same id.
THEOREM IdsTellConnections == Spec => []ConnectionIds
<1>1. ConnectionInv => ConnectionIds
  <2> SUFFICES ASSUME ConnectionInv, ~Moved, ~conn.crashed PROVE AllBelong(lines)
    BY DEF ConnectionIds, AllBelong
  <2>1. Lists(conn) /\ DOMAIN conn.list = Buckets
    BY DEF ConnectionInv, Lists
  <2>2. ASSUME NEW b \in Buckets PROVE conn.list[b].moves = 0
    BY <2>1, SMTT(30) DEF Moved, Lists
  <2> QED
    BY <2>2 DEF Still, ConnectionInv
<1> QED
  BY <1>1, ConnectionsRecorded, PTL

-----------------------------------------------------------------------------
(* capshow printing a packet: the place of the walk, and the DNS decoder.    *)

\* The decoder runs only on a message whose header was captured.
PrintInv ==
    /\ inv \in Invocations /\ pkt \in Packet
    /\ HeaderChunk(chunk) /\ DecoderInv(dns)
    /\ pc = "dns" => dns.do # "done" /\ chunk.ptr \in Nat /\ chunk.ptr + DNS_HEADER <= pkt.cap

\* A message with the octets that were captured of it.
LEMMA BodiesOfOctets ==
    ASSUME NEW n \in Nat
    PROVE  Bodies(n) \subseteq Seq(Nat)
<1>1. [i \in 1..n |-> 0] \in Seq(Nat)
  OBVIOUS
<1> QED
  BY <1>1, FormatAssumption DEF Bodies

\* A DNS header that is not marked truncated was captured.
LEMMA DnsCaptured ==
    ASSUME NEW cap \in Nat, NEW h, HeaderChunk(h), NEW g \in header_walk(cap, h), g.ret = 1, g.proto = "DNS", ~g.truncated
    PROVE  g.ptr \in Nat /\ g.ptr + DNS_HEADER <= cap
<1>1. h.ptr \in Nat
  <2>1. CASE h.ptr = NULL
    <3> DEFINE k == [ptr |-> 0, proto |-> "ETHERNET", truncated |-> h.truncated, plen |-> h.plen, ret |-> 1]
    <3>1. g \in Arrive(cap, k)
      BY <2>1 DEF header_walk
    <3>2. k.proto = "ETHERNET"
      OBVIOUS
    <3>3. g.proto = k.proto
      BY <3>1, ArriveKeeps
    <3> QED
      BY <3>2, <3>3
  <2> QED
    BY <2>1 DEF HeaderChunk
<1>2. g.ptr \in 0..cap /\ \E k \in header_size("DNS") : g.ptr + k <= cap
  BY <1>1, WalkLands
<1>3. header_size("DNS") = {DNS_HEADER}
  BY DEF header_size, Size, DNS_HEADER
<1> QED
  BY <1>2, <1>3

\* Every step of capshow.
LEMMA PrintStepKeeps ==
    ASSUME PrintInv, [Next]_vars
    PROVE  PrintInv'
<1>0. /\ inv \in Invocations /\ inv.packets \subseteq Packet /\ pkt \in Packet /\ pkt.cap \in Nat /\ pkt.whole \in BOOLEAN
      /\ HeaderChunk(chunk) /\ DecoderInv(dns) /\ Counts \subseteq Nat
  BY FormatAssumption DEF PrintInv, Packet
<1>1. CASE format_pkg
  <2>1. /\ pkt' \in inv.packets /\ chunk' = header_init /\ pc' # "dns" /\ UNCHANGED <<inv, dns>>
    BY <1>1 DEF format_pkg
  <2>2. HeaderChunk(header_init)
    BY DEF HeaderChunk, header_init
  <2> QED
    BY <1>0, <2>1, <2>2 DEF PrintInv
<1>2. CASE Walk
  <2>1. chunk' \in header_walk(pkt.cap, chunk) /\ UNCHANGED <<inv, pkt>> /\ pc = "walk"
    BY <1>2 DEF Walk
  <2>2. HeaderChunk(chunk')
    BY <1>0, <2>1, WalkKeeps
  <2>3. CASE chunk'.ret = 1 /\ chunk'.proto = "DNS" /\ ~chunk'.truncated /\ dns' \in dns_format(Counts, pkt.whole)
    <3>1. DecoderInv(dns')
      BY <1>0, <2>3, DnsBegins
    <3>2. chunk'.ptr \in Nat /\ chunk'.ptr + DNS_HEADER <= pkt'.cap
      BY <1>0, <2>1, <2>3, DnsCaptured
    <3>3. pc' = "dns" => dns'.do # "done"
      BY <1>2, <2>3 DEF Walk, header_format
    <3> QED
      BY <1>0, <2>1, <2>2, <3>1, <3>2, <3>3 DEF PrintInv
  <2>4. CASE pc' # "dns" /\ UNCHANGED dns
    BY <1>0, <2>1, <2>2, <2>4 DEF PrintInv
  <2> QED
    BY <1>2, <2>1, <2>3, <2>4 DEF Walk, header_format, Printed
<1>3. CASE DnsGoesOn
  <2> DEFINE n == pkt.cap - chunk.ptr - DNS_HEADER
  <2>1. n \in Nat /\ dns.do # "done"
    BY <1>0, <1>3 DEF DnsGoesOn, PrintInv, DNS_HEADER
  <2>2. Bodies(n) \subseteq Seq(Nat)
    BY <2>1, BodiesOfOctets
  <2>3. dns' \in DnsStep(dns, Bodies(n))
    BY <1>3 DEF DnsGoesOn
  <2> HIDE DEF n
  <2>4. DecoderInv(dns')
    BY <1>0, <2>1, <2>2, <2>3, DnsStepKeeps
  <2>5. UNCHANGED <<inv, pkt, chunk>> /\ pc = "dns" /\ (pc' = "dns" => dns'.do # "done")
    BY <1>3 DEF DnsGoesOn
  <2> QED
    BY <1>0, <2>4, <2>5 DEF PrintInv
<1>4. CASE UNCHANGED <<inv, pkt, chunk, dns>> /\ (pc' = "dns" => pc = "dns")
  BY <1>4 DEF PrintInv
<1>5. CASE format_ignore \/ tcp_options \/ sctp_chunks \/ TraceEnds
  BY <1>4, <1>5 DEF format_ignore, MoreToRead, tcp_options, Printed, sctp_chunks, TraceEnds
<1>6. CASE UNCHANGED fvars
  BY <1>4, <1>6 DEF fvars
<1> QED
  BY <1>1, <1>2, <1>3, <1>5, <1>6 DEF Next, FNext, PrintStep, Ended, vars

\* capshow decodes a DNS message only where its header was captured, and what it has of a
\* name, with the "..." behind it, has room in the buffer (print_pkt, dns_format).
THEOREM PrintingInvariant == Spec => []PrintInv
<1>1. Init => PrintInv
  <2> SUFFICES ASSUME Init PROVE PrintInv
    OBVIOUS
  <2>1. inv \in Invocations
    <3>1. CASE FInit
      BY <3>1 DEF FInit
    <3>2. CASE FIdle
      <4>1. Invocations # {} /\ inv = CHOOSE i \in Invocations : TRUE
        BY <3>2, FormatAssumption DEF FIdle
      <4> QED
        BY <4>1
    <3> QED
      BY <3>1, <3>2 DEF Init
  <2>2. pkt = (CHOOSE p \in inv.packets : TRUE) /\ chunk = header_init /\ dns = NoMessage /\ pc # "dns"
    BY DEF Init, FInit, FIdle
  <2>3. pkt \in Packet
    <3>1. inv.packets # {} /\ inv.packets \subseteq Packet
      BY <2>1, FormatAssumption
    <3>2. pkt \in inv.packets
      BY <2>2, <3>1
    <3> QED
      BY <3>1, <3>2
  <2>4. HeaderChunk(chunk)
    BY <2>2 DEF HeaderChunk, header_init
  <2>5. DecoderInv(dns)
    <3>1. dns \in dns_format({}, FALSE)
      BY <2>2 DEF NoMessage, dns_format
    <3> QED
      BY <3>1, DnsBegins
  <2> QED
    BY <2>1, <2>2, <2>3, <2>4, <2>5 DEF PrintInv
<1> QED
  BY <1>1, PrintStepKeeps, PTL DEF Spec

\* dns_name: no name of a DNS message is written past the end of its buffer, however large
\* that is and whatever the packets of the trace hold.
THEOREM NamesFitBuffer == Spec => []NameFits
<1>1. PrintInv => NameFits
  BY DEF PrintInv, DecoderInv, NameFits
<1> QED
  BY <1>1, PrintingInvariant, PTL

-----------------------------------------------------------------------------
(* The statistics capinfo prints.                                            *)

\* Numbers to add.
Weights == [Nat -> Nat]

\* The sums up to place k.
Partial(f, w, k) ==
    f \in [0..k -> Nat] /\ f[0] = 0 /\ \A i \in 1..k : f[i] = f[i - 1] + w[i]

\* There are sums up to any place.
LEMMA PartialSums ==
    ASSUME NEW w \in Weights, NEW k \in Nat
    PROVE  \E f : Partial(f, w, k)
<1> DEFINE Bad == {n \in Nat : \A f : ~Partial(f, w, n)}
<1> SUFFICES ASSUME Bad # {} PROVE FALSE
  OBVIOUS
<1>1. PICK n \in Bad : \A m \in Bad : n <= m
  <2>1. Bad \subseteq Nat
    OBVIOUS
  <2> HIDE DEF Bad
  <2> QED
    BY <2>1, LeastNumber
<1>2. n \in Nat /\ \A f : ~Partial(f, w, n)
  OBVIOUS
<1>3. CASE n = 0
  <2>1. Partial([i \in 0..0 |-> 0], w, 0)
    BY DEF Partial
  <2> QED
    BY <1>2, <1>3, <2>1
<1>4. CASE n # 0
  <2>1. n - 1 \in Nat /\ n - 1 \notin Bad
    BY <1>1, <1>2, <1>4
  <2>2. PICK f : Partial(f, w, n - 1)
    BY <2>1
  <2> DEFINE g == [i \in 0..n |-> IF i = n THEN f[n - 1] + w[n] ELSE f[i]]
  <2>3. f \in [0..(n - 1) -> Nat] /\ w[n] \in Nat /\ f[n - 1] \in Nat
    <3>1. f \in [0..(n - 1) -> Nat] /\ n - 1 \in 0..(n - 1)
      BY <2>1, <2>2, SMTT(30) DEF Partial
    <3>2. w[n] \in Nat
      BY <1>2 DEF Weights
    <3> QED
      BY <3>1, <3>2
  <2>4. g \in [0..n -> Nat]
    <3>1. ASSUME NEW i \in 0..n PROVE g[i] \in Nat
      BY <1>2, <2>3, SMTT(30)
    <3> QED
      BY <3>1
  <2>5. g[0] = 0
    BY <1>2, <1>4, <2>2, SMTT(30) DEF Partial
  <2>6. ASSUME NEW i \in 1..n PROVE g[i] = g[i - 1] + w[i]
    <3>1. i \in 0..n /\ i - 1 \in 0..n /\ i - 1 # n /\ i \in Int
      BY <1>2
    <3>2. g[i - 1] = f[i - 1]
      BY <3>1
    <3>3. CASE i = n
      BY <3>1, <3>2, <3>3
    <3>4. CASE i # n
      <4>1. i \in 1..(n - 1) /\ g[i] = f[i]
        BY <1>2, <3>1, <3>4
      <4> QED
        BY <2>2, <3>2, <4>1 DEF Partial
    <3> QED
      BY <3>3, <3>4
  <2>7. Partial(g, w, n)
    <3> HIDE DEF g
    <3> QED
      BY <2>4, <2>5, <2>6 DEF Partial
  <2> QED
    BY <1>2, <2>7
<1> QED
  BY <1>3, <1>4

\* Numbers that agree up to m have the same sums up to m.
LEMMA SumsAgree ==
    ASSUME NEW w, NEW v, NEW k \in Nat, NEW l \in Nat, NEW f, NEW g, Partial(f, w, k), Partial(g, v, l),
           NEW m \in Nat, m <= k, m <= l, \A i \in 1..m : w[i] = v[i]
    PROVE  f[m] = g[m]
<1> DEFINE Bad == {n \in 0..m : f[n] # g[n]}
<1> SUFFICES ASSUME Bad # {} PROVE FALSE
  OBVIOUS
<1>1. PICK n \in Bad : \A i \in Bad : n <= i
  <2>1. Bad \subseteq Nat
    OBVIOUS
  <2> HIDE DEF Bad
  <2> QED
    BY <2>1, LeastNumber
<1>2. n \in 0..m /\ f[n] # g[n]
  OBVIOUS
<1>3. n # 0
  BY <1>2 DEF Partial
<1>4. n - 1 \in 0..m /\ n - 1 \notin Bad
  BY <1>1, <1>2, <1>3, SMTT(30)
<1>5. f[n - 1] = g[n - 1]
  BY <1>4
<1>6. n \in 1..k /\ n \in 1..l /\ n \in 1..m
  BY <1>2, <1>3
<1>7. f[n] = f[n - 1] + w[n] /\ g[n] = g[n - 1] + v[n] /\ w[n] = v[n]
  BY <1>6 DEF Partial
<1> QED
  BY <1>2, <1>5, <1>7

\* The sums are what their recursive definition says.
LEMMA SumsAre ==
    ASSUME NEW w \in Weights
    PROVE  Sums(w) \in [Nat -> Nat] /\ Sums(w)[0] = 0 /\ \A n \in Nat \ {0} : Sums(w)[n] = Sums(w)[n - 1] + w[n]
<1> DEFINE P(n) == CHOOSE f : Partial(f, w, n)
           F == [n \in Nat |-> P(n)[n]]
           Next1(f) == [n \in Nat |-> IF n = 0 THEN 0 ELSE f[n - 1] + w[n]]
<1>1. ASSUME NEW n \in Nat PROVE Partial(P(n), w, n)
  BY PartialSums
<1> HIDE DEF P
<1>2. ASSUME NEW n \in Nat PROVE F[n] \in Nat
  BY <1>1, SMTT(30) DEF Partial
<1>3. F[0] = 0
  BY <1>1 DEF Partial
<1>4. ASSUME NEW n \in Nat \ {0} PROVE F[n] = F[n - 1] + w[n]
  <2>1. n - 1 \in Nat /\ n \in 1..n
    OBVIOUS
  <2>2. P(n)[n - 1] = P(n - 1)[n - 1]
    <3> DEFINE p == P(n)
               m == n - 1
               q == P(m)
    <3>1. Partial(p, w, n) /\ Partial(q, w, m) /\ m \in Nat /\ m <= n /\ m <= m /\ \A i \in 1..m : w[i] = w[i]
      BY <1>1, <2>1
    <3> HIDE DEF p, q, m
    <3>2. p[m] = q[m]
      BY <3>1, SumsAgree, SMTT(30)
    <3> QED
      BY <3>2 DEF p, q, m
  <2>3. P(n)[n] = P(n)[n - 1] + w[n]
    BY <1>1, <2>1 DEF Partial
  <2> QED
    BY <2>1, <2>2, <2>3
<1>5. F = Next1(F)
  <2>1. ASSUME NEW n \in Nat PROVE F[n] = Next1(F)[n]
    <3> HIDE DEF F
    <3> QED
      BY <1>3, <1>4
  <2> QED
    BY <2>1
<1>6. Sums(w) = CHOOSE f : f = Next1(f)
  BY DEF Sums
<1> DEFINE S == Sums(w)
<1>7. S = Next1(S)
  <2> HIDE DEF F, Next1
  <2> QED
    BY <1>5, <1>6
<1> HIDE DEF S
<1>8. S[0] = 0 /\ \A n \in Nat \ {0} : S[n] = S[n - 1] + w[n]
  BY <1>7
<1>9. S \in [Nat -> Nat]
  <2> DEFINE Bad == {n \in Nat : S[n] \notin Nat}
  <2>1. Bad = {}
    <3> SUFFICES ASSUME Bad # {} PROVE FALSE
      OBVIOUS
    <3>1. PICK n \in Bad : \A m \in Bad : n <= m
      <4>1. Bad \subseteq Nat
        OBVIOUS
      <4> HIDE DEF Bad
      <4> QED
        BY <4>1, LeastNumber
    <3>2. n \in Nat /\ S[n] \notin Nat /\ n # 0
      BY <1>8
    <3>3. n - 1 \in Nat /\ n - 1 \notin Bad
      BY <3>1, <3>2
    <3>4. S[n - 1] \in Nat /\ S[n] = S[n - 1] + w[n] /\ w[n] \in Nat
      BY <1>8, <3>2, <3>3 DEF Weights
    <3> QED
      BY <3>2, <3>4
  <2>2. \A n \in Nat : S[n] \in Nat
    BY <2>1
  <2>3. S = [n \in Nat |-> S[n]]
    BY <1>7
  <2> QED
    BY <2>2, <2>3
<1> QED
  BY <1>8, <1>9 DEF S

\* Sums depend only on the numbers before them.
LEMMA SumsSame ==
    ASSUME NEW w \in Weights, NEW v \in Weights, NEW m \in Nat, \A i \in 1..m : w[i] = v[i]
    PROVE  Sums(w)[m] = Sums(v)[m]
<1>1. ASSUME NEW u \in Weights PROVE Partial([i \in 0..m |-> Sums(u)[i]], u, m)
  <2> DEFINE S == Sums(u)
             f == [i \in 0..m |-> S[i]]
  <2>1. S \in [Nat -> Nat] /\ S[0] = 0 /\ \A n \in Nat \ {0} : S[n] = S[n - 1] + u[n]
    BY SumsAre
  <2> HIDE DEF S
  <2>2. f \in [0..m -> Nat] /\ f[0] = 0
    BY <2>1, SMTT(30)
  <2>3. ASSUME NEW i \in 1..m PROVE f[i] = f[i - 1] + u[i]
    <3>1. i \in Nat \ {0} /\ i \in 0..m /\ i - 1 \in 0..m
      OBVIOUS
    <3> QED
      BY <2>1, <3>1
  <2> HIDE DEF f
  <2>4. Partial(f, u, m)
    BY <2>2, <2>3 DEF Partial
  <2> QED
    BY <2>4 DEF f, S
<1> DEFINE f == [i \in 0..m |-> Sums(w)[i]]
           g == [i \in 0..m |-> Sums(v)[i]]
<1>2. Partial(f, w, m) /\ Partial(g, v, m) /\ m <= m
  BY <1>1
<1>3. f[m] = Sums(w)[m] /\ g[m] = Sums(v)[m]
  OBVIOUS
<1> HIDE DEF f, g
<1>4. f[m] = g[m]
  BY <1>2, SumsAgree, SMTT(30)
<1> QED
  BY <1>3, <1>4

\* Nothing adds up to nothing.
LEMMA SumOfNothing ==
    ASSUME NEW w \in Weights, NEW m \in Nat, \A i \in 1..m : w[i] = 0
    PROVE  Sums(w)[m] = 0
<1> DEFINE S == Sums(w)
           Bad == {n \in 0..m : S[n] # 0}
<1>0. S \in [Nat -> Nat] /\ S[0] = 0 /\ \A n \in Nat \ {0} : S[n] = S[n - 1] + w[n]
  BY SumsAre
<1> HIDE DEF S
<1> SUFFICES ASSUME Bad # {} PROVE FALSE
  BY DEF S
<1>1. PICK n \in Bad : \A i \in Bad : n <= i
  <2>1. Bad \subseteq Nat
    OBVIOUS
  <2> HIDE DEF Bad
  <2> QED
    BY <2>1, LeastNumber
<1>2. n \in 0..m /\ S[n] # 0 /\ n # 0
  BY <1>0
<1>3. n - 1 \in 0..m /\ n - 1 \notin Bad
  BY <1>1, <1>2
<1>4. S[n - 1] = 0 /\ S[n] = S[n - 1] + w[n] /\ w[n] = 0
  BY <1>0, <1>2, <1>3, SMTT(30)
<1> QED
  BY <1>2, <1>4

\* The octets of some packets of a file, with one packet more in it.
LEMMA BytesGrow ==
    ASSUME NEW ps \in Seq(InfoPackets), NEW p \in InfoPackets, NEW at, at \subseteq DOMAIN ps
    PROVE  /\ Bytes(ps, at) \in Nat
           /\ Bytes(Append(ps, p), at) = Bytes(ps, at)
           /\ Bytes(Append(ps, p), at \cup {Len(ps) + 1}) = Bytes(ps, at) + p.len
<1> DEFINE more == Append(ps, p)
           n == Len(ps)
           new == at \cup {n + 1}
           W(qs, a) == [i \in Nat |-> IF i \in a THEN qs[i].len ELSE 0]
<1>1. n \in Nat /\ Len(more) = n + 1 /\ \A i \in 1..n : more[i] = ps[i]
  OBVIOUS
<1>2. more[n + 1] = p /\ p.len \in Nat
  BY InfoAssumption
<1>3. \A i \in at : i \in 1..n /\ ps[i].len \in Nat
  BY InfoAssumption
<1> HIDE DEF more, n
<1>4. W(ps, at) \in Weights /\ W(more, at) \in Weights /\ W(more, new) \in Weights
  <2>1. ASSUME NEW i \in Nat PROVE W(ps, at)[i] \in Nat /\ W(more, at)[i] \in Nat /\ W(more, new)[i] \in Nat
    BY <1>1, <1>2, <1>3
  <2> QED
    BY <2>1 DEF Weights
<1>5. \A i \in 1..n : W(ps, at)[i] = W(more, at)[i] /\ W(ps, at)[i] = W(more, new)[i]
  BY <1>1, <1>3, SMTT(30)
<1>6. W(more, at)[n + 1] = 0 /\ W(more, new)[n + 1] = p.len
  BY <1>1, <1>2, <1>3, SMTT(30)
<1>7. /\ Bytes(ps, at) = Sums(W(ps, at))[n] /\ Bytes(more, at) = Sums(W(more, at))[n + 1]
      /\ Bytes(more, new) = Sums(W(more, new))[n + 1]
  BY <1>1 DEF Bytes, n
<1> DEFINE w == W(ps, at)
           v == W(more, at)
           u == W(more, new)
<1>8. /\ w \in Weights /\ v \in Weights /\ u \in Weights /\ \A i \in 1..n : w[i] = v[i] /\ w[i] = u[i]
      /\ v[n + 1] = 0 /\ u[n + 1] = p.len
  BY <1>4, <1>5, <1>6
<1>9. Bytes(ps, at) = Sums(w)[n] /\ Bytes(more, at) = Sums(v)[n + 1] /\ Bytes(more, new) = Sums(u)[n + 1]
  BY <1>7
<1> HIDE DEF w, v, u
<1>10. Sums(w)[n] = Sums(v)[n] /\ Sums(w)[n] = Sums(u)[n]
  BY <1>1, <1>8, SumsSame
<1>11. /\ Sums(w)[n] \in Nat /\ Sums(v)[n + 1] = Sums(v)[n] + v[n + 1] /\ Sums(u)[n + 1] = Sums(u)[n] + u[n + 1]
  <2>1. n + 1 \in Nat \ {0} /\ (n + 1) - 1 = n
    BY <1>1
  <2>2. \A k \in Nat \ {0} : Sums(v)[k] = Sums(v)[k - 1] + v[k] /\ Sums(u)[k] = Sums(u)[k - 1] + u[k]
    BY <1>8, SumsAre
  <2>3. Sums(w)[n] \in Nat
    BY <1>1, <1>8, SumsAre
  <2> QED
    BY <2>1, <2>2, <2>3
<1>12. /\ Bytes(ps, at) \in Nat /\ Bytes(more, at) = Bytes(ps, at) /\ Bytes(more, new) = Bytes(ps, at) + p.len
  <2> HIDE DEF new
  <2>1. v[n + 1] = 0 /\ u[n + 1] = p.len
    BY <1>8
  <2>2. Bytes(ps, at) \in Nat
    BY <1>9, <1>11
  <2>3. Bytes(more, at) = Bytes(ps, at) + 0
    BY <1>9, <1>10, <1>11, <2>1
  <2>4. Bytes(more, new) = Bytes(ps, at) + p.len
    BY <1>9, <1>10, <1>11, <2>1
  <2> QED
    BY <2>2, <2>3, <2>4, SMTT(30)
<1> QED
  BY <1>12 DEF more, n

\* A packet elsewhere.
LEMMA DescribesStill ==
    ASSUME NEW ps \in Seq(InfoPackets), NEW p \in InfoPackets, NEW at, at \subseteq DOMAIN ps, NEW s, NEW left,
           Describes(s, ps, at, left)
    PROVE  Describes(s, Append(ps, p), at, left)
<1> DEFINE more == Append(ps, p)
           Lens(qs) == {qs[i].len : i \in at}
<1>1. \A i \in at : more[i] = ps[i]
  OBVIOUS
<1>2. Bytes(more, at) = Bytes(ps, at)
  BY BytesGrow
<1> HIDE DEF more
<1>3. Lens(more) = Lens(ps)
  BY <1>1
<1> QED
  BY <1>2, <1>3 DEF Describes, more

\* store_stats: a packet more at the end of the file, whether or not it is the first.
LEMMA StatsStored ==
    ASSUME NEW ps \in Seq(InfoPackets), NEW p \in InfoPackets, NEW at, at \subseteq DOMAIN ps, NEW s, NEW left,
           Describes(s, ps, at, left), NEW ts, ts.left = left, ts.at = Len(ps) + 1
    PROVE  Describes(store_stats(s, p, ts), Append(ps, p), at \cup {Len(ps) + 1}, left)
<1> DEFINE n == Len(ps) + 1
           more == Append(ps, p)
           new == at \cup {n}
           t == store_stats(s, p, ts)
           L == {ps[i].len : i \in at}
           M == {more[i].len : i \in new}
<1>0. ts.at = n
  OBVIOUS
<1> HIDE DEF n, more, new, t, L, M
<1>1. n \in Nat /\ p.len \in Nat /\ more[n] = p /\ \A i \in at : i \in Nat /\ i < n /\ more[i] = ps[i] /\ ps[i].len \in Nat
  BY InfoAssumption DEF n, more
<1>2. Bytes(more, new) = Bytes(ps, at) + p.len
  BY BytesGrow, ZenonT(30) DEF n, more, new
<1>3. Cardinality(new) = Cardinality(at) + 1 /\ Cardinality(at) \in Nat /\ (Cardinality(at) = 0 <=> at = {})
  <2>1. IsFiniteSet(at)
    <3>1. at \subseteq 1..Len(ps) /\ Len(ps) \in Int
      OBVIOUS
    <3>2. IsFiniteSet(1..Len(ps))
      BY FS_Interval
    <3> QED
      BY <3>1, <3>2, FS_Subset
  <2>2. n \notin at
    BY <1>1
  <2> QED
    BY <2>1, <2>2, FS_AddElement, FS_CardinalityType, FS_EmptySet DEF new
<1>4. M = L \cup {p.len} /\ L \subseteq Nat
  <2>1. ASSUME NEW x PROVE x \in M <=> x \in L \cup {p.len}
    BY <1>1 DEF L, M, new
  <2> QED
    BY <1>1, <2>1 DEF L
<1>5. /\ t.packets = s.packets + 1 /\ t.bytes = s.bytes + p.len
      /\ t.byte_min = (IF p.len < s.byte_min THEN p.len ELSE s.byte_min)
      /\ t.byte_max = (IF p.len > s.byte_max THEN p.len ELSE s.byte_max)
      /\ t.first = (IF s.packets = 0 THEN ts ELSE s.first) /\ t.last = ts
  BY DEF store_stats, t
<1>6. /\ s.packets = Cardinality(at) /\ s.bytes = Bytes(ps, at)
      /\ s.byte_min \in L \cup {UINT16_MAX} /\ \A x \in L \cup {UINT16_MAX} : s.byte_min <= x
      /\ s.byte_max \in L \cup {0} /\ \A x \in L : x <= s.byte_max
      /\ at # {} => s.first.left = left /\ s.first.at \in at /\ \A i \in at : s.first.at <= i
  BY DEF Describes, L
<1>7. s.byte_min \in Nat /\ s.byte_max \in Nat /\ UINT16_MAX \in Nat
  <2>1. UINT16_MAX \in Nat
    BY SMTT(30) DEF UINT16_MAX
  <2>2. 0 \in Nat
    BY SMTT(30)
  <2> QED
    BY <1>4, <1>6, <2>1, <2>2
<1>8. t.packets = Cardinality(new) /\ t.bytes = Bytes(more, new)
  BY <1>2, <1>3, <1>5, <1>6
<1>9. t.byte_min \in M \cup {UINT16_MAX} /\ \A x \in M \cup {UINT16_MAX} : t.byte_min <= x
  <2>1. \A x \in M \cup {UINT16_MAX} : x \in Nat /\ (x = p.len \/ s.byte_min <= x)
    BY <1>1, <1>4, <1>6, <1>7
  <2>2. s.byte_min \in M \cup {UINT16_MAX} /\ p.len \in M
    BY <1>4, <1>6
  <2>3. CASE p.len < s.byte_min
    <3>1. t.byte_min = p.len
      BY <1>5, <2>3
    <3>2. \A x \in M \cup {UINT16_MAX} : p.len <= x
      BY <1>1, <1>7, <2>1, <2>3, SMTT(30)
    <3> QED
      BY <2>2, <3>1, <3>2
  <2>4. CASE ~(p.len < s.byte_min)
    <3>1. t.byte_min = s.byte_min
      BY <1>5, <2>4
    <3> QED
      BY <1>1, <1>7, <2>1, <2>2, <2>4, <3>1, SMTT(30)
  <2> QED
    BY <2>3, <2>4
<1>10. t.byte_max \in M \cup {0} /\ \A x \in M : x <= t.byte_max
  <2>1. \A x \in M : x \in Nat /\ (x = p.len \/ x <= s.byte_max)
    BY <1>1, <1>4, <1>6, <1>7
  <2>2. s.byte_max \in M \cup {0} /\ p.len \in M
    BY <1>4, <1>6
  <2>3. CASE p.len > s.byte_max
    <3>1. t.byte_max = p.len
      BY <1>5, <2>3
    <3> QED
      BY <1>1, <1>7, <2>1, <2>2, <2>3, <3>1, SMTT(30)
  <2>4. CASE ~(p.len > s.byte_max)
    <3>1. t.byte_max = s.byte_max
      BY <1>5, <2>4
    <3> QED
      BY <1>1, <1>7, <2>1, <2>2, <2>4, <3>1, SMTT(30)
  <2> QED
    BY <2>3, <2>4
<1>11. t.first.left = left /\ t.first.at \in new /\ \A i \in new : t.first.at <= i
  <2>1. CASE at = {}
    <3>1. t.first = ts /\ new = {n}
      BY <1>3, <1>5, <1>6, <2>1 DEF new
    <3> QED
      BY <1>0, <1>1, <3>1, SMTT(30)
  <2>2. CASE at # {}
    <3>1. t.first = s.first
      BY <1>3, <1>5, <1>6, <2>2
    <3>2. s.first.left = left /\ s.first.at \in at /\ \A i \in at : s.first.at <= i
      BY <1>6, <2>2
    <3>3. s.first.at < n
      BY <1>1, <3>2
    <3> QED
      BY <1>1, <3>1, <3>2, <3>3, SMTT(30) DEF new
  <2> QED
    BY <2>1, <2>2
<1>12. t.last.left = left /\ t.last.at \in new /\ \A i \in new : i <= t.last.at
  BY <1>0, <1>1, <1>5, SMTT(30) DEF new
<1> QED
  BY <1>8, <1>9, <1>10, <1>11, <1>12 DEF Describes, t, M, new, more, n

\* What is reset is about no packets.
LEMMA DescribesNothing ==
    ASSUME NEW s, NEW ps \in Seq(InfoPackets), NEW left
    PROVE  Describes(reset_stats(s), ps, {}, left)
<1>1. Cardinality({}) = 0
  BY FS_EmptySet
<1>2. Bytes(ps, {}) = 0
  <2> DEFINE w == [n \in Nat |-> IF n \in {} THEN ps[n].len ELSE 0]
  <2>1. w \in Weights /\ (\A i \in 1..Len(ps) : w[i] = 0) /\ Len(ps) \in Nat
    BY SMTT(30) DEF Weights
  <2>2. Bytes(ps, {}) = Sums(w)[Len(ps)]
    BY DEF Bytes
  <2> HIDE DEF w
  <2> QED
    BY <2>1, <2>2, SumOfNothing
<1>3. UINT16_MAX <= UINT16_MAX
  BY SMTT(30) DEF UINT16_MAX
<1> DEFINE t == reset_stats(s)
<1>4. t.packets = 0 /\ t.bytes = 0 /\ t.byte_min = UINT16_MAX /\ t.byte_max = 0
  BY DEF reset_stats
<1> HIDE DEF t
<1> QED
  BY <1>1, <1>2, <1>3, <1>4 DEF Describes, t

\* store_unique on a list of the names of a file: the entry of the packet's name has one
\* packet more, or is new.
LEMMA TalliesGrow ==
    ASSUME NEW ps \in Seq(InfoPackets), NEW p \in InfoPackets, NEW l, Sequence(l), NEW keys, NEW keys2, NEW key, NEW left,
           \A k \in DOMAIN ps : keys2[k] = keys[k], keys2[Len(ps) + 1] = key, Tallies(l, ps, keys, left),
           NEW ts, ts.left = left, ts.at = Len(ps) + 1
    PROVE  /\ Sequence(store_unique(l, key, p, ts))
           /\ Tallies(store_unique(l, key, p, ts), Append(ps, p), keys2, left)
<1> DEFINE n == Len(ps) + 1
           more == Append(ps, p)
           m == store_unique(l, key, p, ts)
           At(x) == {k \in DOMAIN ps : keys[k] = x}
           At2(x) == {k \in DOMAIN more : keys2[k] = x}
<1> HIDE DEF m, n, more, At, At2
<1>1. DOMAIN more = DOMAIN ps \cup {n} /\ n \notin DOMAIN ps
  BY DEF n, more
<1>2. ASSUME NEW x PROVE At2(x) = (IF x = key THEN At(x) \cup {n} ELSE At(x)) /\ At(x) \subseteq DOMAIN ps
  BY <1>1 DEF n, At, At2
<1>3. /\ \A i, j \in DOMAIN l : l[i].key = l[j].key => i = j
      /\ {l[i].key : i \in DOMAIN l} = {keys[i] : i \in DOMAIN ps}
      /\ \A i \in DOMAIN l : Describes(l[i].stats, ps, At(l[i].key), left)
  BY DEF Tallies, At
<1>4. ASSUME NEW x, NEW s, Describes(s, ps, At(x), left), x = key PROVE Describes(store_stats(s, p, ts), more, At2(x), left)
  BY <1>2, <1>4, StatsStored, SMTT(30) DEF n, more
<1>5. ASSUME NEW x, NEW s, Describes(s, ps, At(x), left), x # key PROVE Describes(s, more, At2(x), left)
  BY <1>2, <1>5, DescribesStill DEF more
<1>6. {keys2[i] : i \in DOMAIN more} = {keys[i] : i \in DOMAIN ps} \cup {key}
  <2>1. ASSUME NEW x PROVE x \in {keys2[i] : i \in DOMAIN more} <=> x \in {keys[i] : i \in DOMAIN ps} \cup {key}
    BY <1>1 DEF n
  <2> QED
    BY <2>1
<1>7. m = IF \E i \in DOMAIN l : l[i].key = key
          THEN [i \in DOMAIN l |-> IF l[i].key = key THEN [key |-> key, stats |-> store_stats(l[i].stats, p, ts)] ELSE l[i]]
          ELSE Append(l, [key |-> key, stats |-> store_stats(reset_stats(NoStats), p, ts)])
  BY DEF store_unique, m
<1>8. \A x : x \in {l[i].key : i \in DOMAIN l} <=> \E i \in DOMAIN l : l[i].key = x
  OBVIOUS
<1>9. CASE \E i \in DOMAIN l : l[i].key = key
  <2> DEFINE e(i) == [key |-> key, stats |-> store_stats(l[i].stats, p, ts)]
  <2>1. m = [i \in DOMAIN l |-> IF l[i].key = key THEN e(i) ELSE l[i]]
    BY <1>7, <1>9
  <2>2. \A i : e(i).key = key /\ e(i).stats = store_stats(l[i].stats, p, ts)
    OBVIOUS
  <2> HIDE DEF e
  <2>3. DOMAIN m = DOMAIN l /\ \A i \in DOMAIN l : m[i].key = l[i].key
    BY <2>1, <2>2
  <2>4. Sequence(m)
    <3>1. DOMAIN l = 1..Len(l) /\ Len(l) \in Nat
      BY DEF Sequence
    <3>2. m \in [1..Len(l) -> {m[i] : i \in DOMAIN m}]
      BY <2>1, <3>1
    <3> QED
      BY <3>1, <3>2, SeqOf DEF Sequence
  <2>5. ASSUME NEW i \in DOMAIN m PROVE Describes(m[i].stats, more, At2(m[i].key), left)
    <3>1. Describes(l[i].stats, ps, At(l[i].key), left) /\ m[i].key = l[i].key
      BY <1>3, <2>3
    <3>2. CASE l[i].key = key
      <4>1. m[i].stats = store_stats(l[i].stats, p, ts)
        BY <2>1, <2>2, <2>3, <3>2
      <4> QED
        BY <1>4, <3>1, <3>2, <4>1
    <3>3. CASE l[i].key # key
      <4>1. m[i] = l[i]
        BY <2>1, <2>3, <3>3
      <4> QED
        BY <1>5, <3>1, <3>3, <4>1
    <3> QED
      BY <3>2, <3>3
  <2>6. {m[i].key : i \in DOMAIN m} = {keys2[i] : i \in DOMAIN more}
    <3>1. {m[i].key : i \in DOMAIN m} = {l[i].key : i \in DOMAIN l}
      BY <2>3
    <3>2. key \in {keys[i] : i \in DOMAIN ps}
      BY <1>3, <1>8, <1>9
    <3> QED
      BY <1>3, <1>6, <3>1, <3>2
  <2>7. \A i, j \in DOMAIN m : m[i].key = m[j].key => i = j
    BY <1>3, <2>3
  <2> QED
    BY <2>4, <2>5, <2>6, <2>7 DEF Tallies, m, n, more, At2
<1>10. CASE ~(\E i \in DOMAIN l : l[i].key = key)
  <2> DEFINE e == [key |-> key, stats |-> store_stats(reset_stats(NoStats), p, ts)]
  <2>1. m = Append(l, e)
    BY <1>7, <1>10
  <2>2. e.key = key /\ e.stats = store_stats(reset_stats(NoStats), p, ts)
    OBVIOUS
  <2> HIDE DEF e
  <2>3. Sequence(m) /\ Longer(l, m, e)
    BY <2>1, LongerSequence, OneMore
  <2> DEFINE z == Len(l) + 1
  <2>4. /\ DOMAIN m = DOMAIN l \cup {z} /\ m[z] = e /\ z \notin DOMAIN l
        /\ \A i \in DOMAIN l : m[i] = l[i]
    BY <2>3 DEF Longer
  <2> HIDE DEF z
  <2>5. ASSUME NEW i \in DOMAIN m PROVE Describes(m[i].stats, more, At2(m[i].key), left)
    <3>1. CASE i = z
      <4>1. At(key) = {}
        <5>1. key \notin {l[k].key : k \in DOMAIN l}
          BY <1>8, <1>10
        <5>2. key \notin {keys[k] : k \in DOMAIN ps}
          BY <1>3, <5>1
        <5> QED
          BY <5>2 DEF At
      <4>2. Describes(reset_stats(NoStats), ps, At(key), left)
        <5>1. Describes(reset_stats(NoStats), ps, {}, left)
          BY DescribesNothing
        <5> QED
          BY <4>1, <5>1
      <4> QED
        BY <1>4, <2>2, <2>4, <3>1, <4>2
    <3>2. CASE i \in DOMAIN l
      <4>1. Describes(l[i].stats, ps, At(l[i].key), left) /\ l[i].key # key /\ m[i] = l[i]
        BY <1>3, <1>10, <2>4, <3>2
      <4> QED
        BY <1>5, <4>1
    <3> QED
      BY <2>4, <3>1, <3>2
  <2>6. {m[i].key : i \in DOMAIN m} = {keys2[i] : i \in DOMAIN more}
    <3>1. {m[i].key : i \in DOMAIN m} = {l[i].key : i \in DOMAIN l} \cup {key}
      <4>1. ASSUME NEW x PROVE x \in {m[i].key : i \in DOMAIN m} <=> x \in {l[i].key : i \in DOMAIN l} \cup {key}
        BY <2>2, <2>4, SMTT(30)
      <4> QED
        BY <4>1
    <3> QED
      BY <1>3, <1>6, <3>1
  <2>7. \A i, j \in DOMAIN m : m[i].key = m[j].key => i = j
    BY <1>3, <1>10, <2>2, <2>4
  <2> QED
    BY <2>3, <2>5, <2>6, <2>7 DEF Tallies, m, n, more, At2
<1> QED
  BY <1>9, <1>10

-----------------------------------------------------------------------------
\* The statistics of a file being read.
Clean == \A i \in DOMAIN seen : Overrun(seen[i]) = {}
Tallied ==
    /\ Describes(global.all, seen, DOMAIN seen, todo)
    /\ Sequence(mpid) /\ Tallies(mpid, seen, [i \in DOMAIN seen |-> seen[i].mampid], todo)
    /\ Sequence(CI) /\ Tallies(CI, seen, [i \in DOMAIN seen |-> seen[i].nic], todo)
    /\ Sequence(location) /\ Tallies(location, seen, [i \in DOMAIN seen |-> get_location(seen[i])], todo)

StatsInv == ipc = "read" => seen \in Seq(InfoPackets) /\ (Clean => Tallied)

\* A list of nothing is about no packets.
LEMMA TalliesNothing == \A keys, left : Sequence(<<>>) /\ Tallies(<<>>, <<>>, keys, left)
<1>1. DOMAIN <<>> = {} /\ \A S : <<>> \in Seq(S)
  OBVIOUS
<1>2. \A keys : {<<>>[i].key : i \in DOMAIN <<>>} = {keys[i] : i \in DOMAIN <<>>}
  BY <1>1
<1> QED
  BY <1>1, <1>2 DEF Sequence, Tallies

\* Another packet of the file.
LEMMA InfoRead ==
    ASSUME StatsInv, NEW p \in InfoPackets, ReadInfo(p)
    PROVE  StatsInv'
<1> DEFINE n == Len(seen) + 1
           f1 == [i \in DOMAIN seen |-> seen[i].mampid]
           f2 == [i \in DOMAIN seen |-> seen[i].nic]
           f3 == [i \in DOMAIN seen |-> get_location(seen[i])]
           g1 == [i \in DOMAIN seen' |-> seen'[i].mampid]
           g2 == [i \in DOMAIN seen' |-> seen'[i].nic]
           g3 == [i \in DOMAIN seen' |-> get_location(seen'[i])]
           ts == [left |-> todo, at |-> n]
<1>1. ipc = "read" /\ seen' = Append(seen, p) /\ todo' = todo
  BY DEF ReadInfo
<1>2. seen \in Seq(InfoPackets)
  BY <1>1 DEF StatsInv
<1>3. /\ seen' \in Seq(InfoPackets) /\ DOMAIN seen' = DOMAIN seen \cup {n}
      /\ seen'[n] = p /\ \A i \in DOMAIN seen : seen'[i] = seen[i]
  BY <1>1, <1>2
<1> SUFFICES ASSUME Clean' PROVE Tallied'
  BY <1>3 DEF StatsInv
<1>4. Clean /\ Overrun(p) = {}
  <2>1. \A i \in DOMAIN seen' : Overrun(seen'[i]) = {}
    BY DEF Clean
  <2> QED
    BY <1>3, <2>1 DEF Clean
<1>5. /\ Describes(global.all, seen, DOMAIN seen, todo)
      /\ Sequence(mpid) /\ Tallies(mpid, seen, f1, todo)
      /\ Sequence(CI) /\ Tallies(CI, seen, f2, todo)
      /\ Sequence(location) /\ Tallies(location, seen, f3, todo)
  BY <1>1, <1>4 DEF StatsInv, Tallied
<1>6. /\ mpid' = store_unique(mpid, p.mampid, p, ts) /\ CI' = store_unique(CI, p.nic, p, ts)
      /\ location' = store_unique(location, get_location(p), p, ts)
  BY DEF ReadInfo
<1>7. ts.left = todo /\ ts.at = Len(seen) + 1
  OBVIOUS
<1>8. Describes((global.all)', seen', DOMAIN seen', todo)
  <2>1. (global.all)' = store_stats(global.all, p, ts)
    <3>1. PICK hit \in {"nothing"} : parse_ethernetII(p, ts, hit)
      BY <1>4 DEF ReadInfo
    <3> QED
      BY <3>1 DEF parse_ethernetII
  <2> HIDE DEF ts
  <2>2. Describes(store_stats(global.all, p, ts), Append(seen, p), DOMAIN seen \cup {Len(seen) + 1}, todo)
    BY <1>5, <1>7, <1>2, StatsStored
  <2> QED
    BY <1>1, <1>3, <2>1, <2>2
<1>9. /\ \A k \in DOMAIN seen : g1[k] = f1[k] /\ g2[k] = f2[k] /\ g3[k] = f3[k]
      /\ g1[n] = p.mampid /\ g2[n] = p.nic /\ g3[n] = get_location(p)
  BY <1>3
<1> HIDE DEF f1, f2, f3, g1, g2, g3, ts
<1>10. Sequence(mpid') /\ Tallies(mpid', seen', g1, todo)
  BY <1>1, <1>5, <1>6, <1>7, <1>9, <1>2, TalliesGrow
<1>11. Sequence(CI') /\ Tallies(CI', seen', g2, todo)
  BY <1>1, <1>5, <1>6, <1>7, <1>9, <1>2, TalliesGrow
<1>12. Sequence(location') /\ Tallies(location', seen', g3, todo)
  BY <1>1, <1>5, <1>6, <1>7, <1>9, <1>2, TalliesGrow
<1> QED
  BY <1>1, <1>8, <1>10, <1>11, <1>12 DEF Tallied, g1, g2, g3

\* The other steps of capinfo.
LEMMA StatsStep == StatsInv /\ [Next]_vars => StatsInv'
<1> SUFFICES ASSUME StatsInv, [Next]_vars PROVE StatsInv'
  OBVIOUS
<1>1. CASE process
  <2>1. seen' = <<>> /\ mpid' = <<>> /\ CI' = <<>> /\ location' = <<>> /\ global' = ResetGlobal(global)
    BY <1>1 DEF process, reset
  <2>2. seen' \in Seq(InfoPackets) /\ DOMAIN seen' = {}
    BY <2>1
  <2>3. Describes(global.all, seen, DOMAIN seen, todo)'
    <3>1. (global.all)' = reset_stats(global.all)
      BY <2>1 DEF ResetGlobal
    <3> QED
      BY <2>2, <3>1, DescribesNothing
  <2>4. Tallied'
    BY <2>1, <2>3, TalliesNothing DEF Tallied
  <2> QED
    BY <2>2, <2>4 DEF StatsInv
<1>2. CASE \E p \in InfoPackets : ReadInfo(p)
  BY <1>2, InfoRead
<1>3. CASE ShowUsage \/ ShowInfo
  <2>1. ipc' # "read"
    BY <1>3 DEF ShowUsage, ShowInfo
  <2> QED
    BY <2>1 DEF StatsInv
<1>4. CASE UNCHANGED ivars
  BY <1>4 DEF StatsInv, Clean, Tallied, ivars
<1> QED
  BY <1>1, <1>2, <1>3, <1>4 DEF Next, INext, Ended, vars

\* capinfo: what it would print of a file are the statistics of the packets it has read of
\* it, over all of them and by measurement point, interface and location, however many
\* files there are and whatever is in the others (reset, store_unique, store_stats), as
\* long as this one has no packet that is counted behind the end of an array.
THEOREM StatisticsAddUp == Spec => []StatsAddUp
<1>1. Init => StatsInv
  BY DEF Init, IIdle, IInit, StatsInv
<1>2. StatsInv => StatsAddUp
  BY DEF StatsInv, Clean, Tallied, StatsAddUp
<1> QED
  BY <1>1, <1>2, StatsStep, PTL DEF Spec
=============================================================================
