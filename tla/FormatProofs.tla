---------------------------- MODULE FormatProofs ----------------------------
(***************************************************************************)
(* What format_packet is made of, for every packet: header_walk stays      *)
(* within the captured octets and moves on, dns_format stays within its    *)
(* buffer, and the lists of connection_id record the packets it was asked  *)
(* for as long as none of them moves.                                      *)
(***************************************************************************)
EXTENDS Headers, Dns, ConnectionId, WellFoundedInduction, TLAPS

\* Zenon, then SMT, unless a step says otherwise, with time for the larger steps.
USE ZenonT(10), SMTT(30)

-----------------------------------------------------------------------------
(* header_walk over a packet of any length and contents: it stays within the *)
(* captured octets, never goes back, and with every header it returns either *)
(* moves on or comes to one that ends the walk.  2 * (cap - ptr), one more   *)
(* while the protocol has a next_payload, is thus a bound on the headers to  *)
(* come.                                                                     *)

\* A next_payload function has found the end, or a place that is not behind h; at the
\* place of h itself only what ends the walk.
Forward(h, n) ==
    \/ n.out = NULL
    \/ /\ n.out \in Nat /\ n.out >= h.ptr
       /\ n.out > h.ptr \/ ~HasNext(n.type)

\* A payload at a fixed distance.
LEMMA ToForward ==
    ASSUME NEW h, h.ptr \in Nat, NEW k \in Nat, NEW type, NEW plen, k > 0 \/ ~HasNext(type)
    PROVE  Forward(h, To(type, h.ptr + k, plen))
BY DEF Forward, To

\* The end of a walk.
LEMMA DoneForward ==
    ASSUME NEW h, NEW type, NEW plen
    PROVE  Forward(h, To(type, NULL, plen))
BY DEF Forward, To

\* ipv4_next, for every header length, those that are too small included.
LEMMA Ipv4Forward ==
    ASSUME NEW h, h.ptr \in Nat, NEW n \in ipv4_next(h)
    PROVE  Forward(h, n)
<1>1. PICK hl \in Ihl :
          n \in (IF hl < 5 THEN {To("DONE", NULL, h.plen)}
                 ELSE {To(t, h.ptr + 4 * hl, m) : t \in ipproto_next, m \in Plens})
  BY DEF ipv4_next
<1>2. CASE hl < 5
  BY <1>1, <1>2, DoneForward
<1>3. CASE ~(hl < 5)
  <2>1. PICK t \in ipproto_next, m \in Plens : n = To(t, h.ptr + 4 * hl, m)
    BY <1>1, <1>3
  <2>2. 4 * hl \in Nat /\ 4 * hl > 0
    BY <1>3, HeadersAssumption
  <2> QED
    BY <2>1, <2>2, ToForward
<1> QED
  BY <1>2, <1>3

\* ipv6_next, with any number of hop-by-hop options of any length.
LEMMA Ipv6Forward ==
    ASSUME NEW cap \in Nat, NEW h, h.ptr \in Nat, NEW n \in ipv6_next(cap, h)
    PROVE  Forward(h, n)
<1>1. PICK at \in ipv6_total_header_size(cap, h.ptr) :
          n \in (IF at = NULL THEN {To("DONE", NULL, h.plen)}
                 ELSE {To(t, at, m) : t \in ipproto_next, m \in Plens})
  BY DEF ipv6_next
<1>2. CASE at = NULL
  BY <1>1, <1>2, DoneForward
<1>3. CASE at # NULL
  <2>1. PICK t \in ipproto_next, m \in Plens : n = To(t, at, m)
    BY <1>1, <1>3
  <2>2. \E k \in Nat : at = h.ptr + 40 + 8 * k
    <3>1. at = h.ptr + 40 \/ \E k \in 1..((cap - (h.ptr + 40)) \div 8) : at = h.ptr + 40 + 8 * k
      BY <1>3 DEF ipv6_total_header_size, SkipExtensions
    <3>2. (cap - (h.ptr + 40)) \div 8 \in Int
      OBVIOUS
    <3>3. CASE at = h.ptr + 40
      <4>1. at = h.ptr + 40 + 8 * 0
        BY <3>3
      <4> QED
        BY <4>1
    <3> QED
      BY <3>1, <3>2, <3>3
  <2>3. PICK k \in Nat : at = h.ptr + 40 + 8 * k
    BY <2>2
  <2>4. at = h.ptr + (40 + 8 * k) /\ 40 + 8 * k \in Nat /\ 40 + 8 * k > 0
    BY <2>3
  <2> QED
    BY <2>1, <2>4, ToForward
<1> QED
  BY <1>2, <1>3

\* tcp_next: a data offset of 0 does not move on, but then only data or DNS follows.
LEMMA TcpForward ==
    ASSUME NEW h, h.ptr \in Nat, NEW n \in tcp_next(h)
    PROVE  Forward(h, n)
<1>1. PICK w \in Doff :
          n \in {To("DONE", h.ptr + 4 * w, h.plen), To("DATA", h.ptr + 4 * w, h.plen),
                 To("DNS", h.ptr + 4 * w + 2, h.plen)}
  BY DEF tcp_next
<1>2. 4 * w \in Nat /\ h.ptr + 4 * w + 2 = h.ptr + (4 * w + 2) /\ 4 * w + 2 \in Nat
  BY HeadersAssumption
<1>3. ~HasNext("DONE") /\ ~HasNext("DATA") /\ ~HasNext("DNS")
  BY DEF HasNext
<1> QED
  BY <1>1, <1>2, <1>3, ToForward

\* Every next_payload.
LEMMA NextForward ==
    ASSUME NEW cap \in Nat, NEW h, h.ptr \in Nat, NEW n \in protocol_next(cap, h)
    PROVE  Forward(h, n)
<1>1. CASE h.proto \in {"ETHERNET", "VLAN", "MPLS", "PW", "UDP"}
  <2>1. PICK k \in {4, 8, 14} : \E t : n = To(t, h.ptr + k, h.plen)
    BY <1>1 DEF protocol_next, Carriers, ethernet_next, vlan_next, mpls_next_payload, pw_next_payload, udp_next, ethertype_next
  <2>2. k \in Nat /\ k > 0
    BY <2>1
  <2> QED
    BY <2>1, <2>2, ToForward
<1>2. CASE h.proto = "GRE"
  <2>1. PICK k \in {4, 8, 12, 16} : \E t : n = To(t, h.ptr + k, h.plen)
    BY <1>2 DEF protocol_next, Carriers, gre_next, ethertype_next
  <2>2. k \in Nat /\ k > 0
    BY <2>1
  <2> QED
    BY <2>1, <2>2, ToForward
<1>3. CASE h.proto = "GTP"
  <2>1. PICK k \in {4, 6, 8, 12} : \E t : n = To(t, h.ptr + k, h.plen)
    BY <1>3 DEF protocol_next, Carriers, gtp_next, GtpSizes
  <2>2. k \in Nat /\ k > 0
    BY <2>1
  <2> QED
    BY <2>1, <2>2, ToForward
<1>4. CASE h.proto = "IPV4"
  BY <1>4, Ipv4Forward DEF protocol_next, Carriers
<1>5. CASE h.proto = "IPV6"
  BY <1>5, Ipv6Forward DEF protocol_next, Carriers
<1>6. CASE h.proto = "TCP"
  BY <1>6, TcpForward DEF protocol_next, Carriers
<1>7. CASE h.proto \notin Carriers
  <2>1. n = To("DONE", h.ptr + 0, h.plen)
    BY <1>7 DEF protocol_next, Carriers
  <2> QED
    BY <2>1, ToForward DEF HasNext
<1> QED
  BY <1>1, <1>2, <1>3, <1>4, <1>5, <1>6, <1>7 DEF Carriers

-----------------------------------------------------------------------------
\* A header_chunk: before the first header, or at a place.
HeaderChunk(h) ==
    /\ h = [ptr |-> h.ptr, proto |-> h.proto, truncated |-> h.truncated, plen |-> h.plen, ret |-> h.ret]
    /\ h.ptr \in Nat \cup {NULL}

\* What the walk changes of a header_chunk.
LEMMA ChunkKeeps ==
    ASSUME NEW h, HeaderChunk(h), NEW truncated, NEW ret
    PROVE  /\ HeaderChunk([h EXCEPT !.ret = ret]) /\ [h EXCEPT !.ret = ret].ret = ret
           /\ HeaderChunk([h EXCEPT !.truncated = truncated])
<1> DEFINE r(t, x) == [ptr |-> h.ptr, proto |-> h.proto, truncated |-> t, plen |-> h.plen, ret |-> x]
<1>1. h = r(h.truncated, h.ret) /\ h.ptr \in Nat \cup {NULL}
  BY DEF HeaderChunk
<1>2. ASSUME NEW t, NEW x PROVE HeaderChunk(r(t, x)) /\ r(t, x).ret = x
  BY <1>1 DEF HeaderChunk
<1>3. [h EXCEPT !.ret = ret] = r(h.truncated, ret) /\ [h EXCEPT !.truncated = truncated] = r(truncated, h.ret)
  BY <1>1
<1> HIDE DEF r
<1> QED
  BY <1>2, <1>3, SMTT(30)

\* A header that was arrived at lies where it was looked for, and is marked truncated if
\* the capture has not the octets header_size asks for.
LEMMA ArriveKeeps ==
    ASSUME NEW cap \in Nat, NEW h, NEW ptr, NEW proto, NEW truncated, NEW plen, NEW ret,
           h = [ptr |-> ptr, proto |-> proto, truncated |-> truncated, plen |-> plen, ret |-> ret],
           NEW g \in Arrive(cap, h), g.ret = 1
    PROVE  /\ g.ptr = h.ptr /\ g.proto = h.proto /\ h.ret = 1
           /\ ~g.truncated => \E k \in header_size(h.proto) : ~limited_caplen(cap, h.ptr, k)
<1>1. PICK k \in header_size(h.proto) :
          g = IF h.proto = "GTP" /\ k = 0 THEN [h EXCEPT !.ret = 2]
              ELSE [h EXCEPT !.truncated = limited_caplen(cap, h.ptr, k)]
  BY DEF Arrive
<1>2. ~(h.proto = "GTP" /\ k = 0)
  BY <1>1
<1>3. g = [h EXCEPT !.truncated = limited_caplen(cap, h.ptr, k)]
  BY <1>1, <1>2
<1> QED
  BY <1>3

\* The same after next_payload, which moves on.
LEMMA WalkLands ==
    ASSUME NEW cap \in Nat, NEW h, HeaderChunk(h), h.ptr \in Nat,
           NEW g \in header_walk(cap, h), g.ret = 1
    PROVE  /\ g.ptr \in 0..cap
           /\ g.ptr > h.ptr \/ (g.ptr = h.ptr /\ ~HasNext(g.proto))
           /\ ~g.truncated => \E k \in header_size(g.proto) : g.ptr + k <= cap
<1>1. g \in next_payload(cap, h)
  BY DEF header_walk, NULL
<1>2. HasNext(h.proto) /\ ~h.truncated
  <2>1. [h EXCEPT !.ret = 0].ret = 0
    BY ChunkKeeps
  <2>2. ASSUME ~HasNext(h.proto) \/ h.truncated PROVE g = [h EXCEPT !.ret = 0]
    BY <1>1, <2>2 DEF next_payload
  <2>3. ASSUME ~HasNext(h.proto) \/ h.truncated PROVE FALSE
    <3>1. g.ret = 0
      BY <2>1, <2>2, <2>3
    <3> QED
      BY <3>1
  <2> QED
    BY <2>3
<1> DEFINE Landed(n) == [ptr |-> n.out, proto |-> n.type, truncated |-> FALSE, plen |-> n.plen,
                       ret |-> IF n.type = "DONE" THEN 0 ELSE 1]
           Nowhere(n) == [ptr |-> NULL, proto |-> n.type, truncated |-> TRUE, plen |-> n.plen, ret |-> 0]
<1>3. PICK n \in protocol_next(cap, h) :
          g \in IF limited_caplen(cap, n.out, 0)
                THEN {Nowhere(n)}
                ELSE Arrive(cap, Landed(n))
  BY <1>1, <1>2 DEF next_payload
<1>4. ~limited_caplen(cap, n.out, 0) /\ g \in Arrive(cap, Landed(n))
  <2>1. Nowhere(n).ret = 0
    OBVIOUS
  <2>2. ASSUME limited_caplen(cap, n.out, 0)
        PROVE  g = Nowhere(n)
    BY <1>3, <2>2
  <2>3. ASSUME limited_caplen(cap, n.out, 0) PROVE FALSE
    <3>1. g.ret = 0
      BY <2>1, <2>2, <2>3
    <3> QED
      BY <3>1
  <2> QED
    BY <1>3, <2>3
<1>5. Landed(n).ptr = n.out /\ Landed(n).proto = n.type
  OBVIOUS
<1>6. /\ g.ptr = n.out /\ g.proto = n.type
      /\ ~g.truncated => \E k \in header_size(n.type) : ~limited_caplen(cap, n.out, k)
  <2>1. Landed(n) = [ptr |-> n.out, proto |-> n.type, truncated |-> FALSE, plen |-> n.plen, ret |-> Landed(n).ret]
    OBVIOUS
  <2> HIDE DEF Landed
  <2> QED
    BY <1>4, <1>5, <2>1, ArriveKeeps
<1>7. Forward(h, n)
  BY NextForward
<1>8. n.out \in Nat /\ n.out <= cap
  BY <1>4, <1>7 DEF Forward, limited_caplen, NULL
<1>9. \A k \in header_size(n.type) : ~limited_caplen(cap, n.out, k) => n.out + k <= cap
  <2>1. \A k \in header_size(n.type) : k \in Nat
    BY DEF header_size, Size, GtpSizes
  <2> QED
    BY <1>8, <2>1 DEF limited_caplen
<1>10. ~g.truncated => \E k \in header_size(g.proto) : g.ptr + k <= cap
  BY <1>6, <1>9
<1> QED
  BY <1>6, <1>7, <1>8, <1>10 DEF Forward, NULL

\* header_walk on a packet it has begun: a header it returns lies within the captured
\* octets, behind the last one; at the same place only if it ends the walk.  The tools
\* call it in a loop that only its result ends.
THEOREM WalkOnward ==
    ASSUME NEW cap \in Nat, NEW h, HeaderChunk(h), h.ptr \in Nat,
           NEW g \in header_walk(cap, h), g.ret = 1
    PROVE  /\ g.ptr \in 0..cap
           /\ g.ptr > h.ptr \/ (g.ptr = h.ptr /\ ~HasNext(g.proto))
BY WalkLands

\* Wherever the walk leads, it leaves a header_chunk.
LEMMA WalkKeeps ==
    ASSUME NEW cap \in Nat, NEW h, HeaderChunk(h), NEW g \in header_walk(cap, h)
    PROVE  HeaderChunk(g)
<1>1. ASSUME NEW k, HeaderChunk(k), NEW a \in Arrive(cap, k) PROVE HeaderChunk(a)
  <2>1. a = [k EXCEPT !.ret = 2] \/ \E n : a = [k EXCEPT !.truncated = limited_caplen(cap, k.ptr, n)]
    BY DEF Arrive
  <2>2. HeaderChunk([k EXCEPT !.ret = 2])
    BY <1>1, ChunkKeeps
  <2>3. ASSUME NEW t PROVE HeaderChunk([k EXCEPT !.truncated = t])
    BY <1>1, ChunkKeeps
  <2> QED
    BY <2>1, <2>2, <2>3
<1>2. ASSUME NEW ptr \in Nat \cup {NULL}, NEW proto, NEW truncated, NEW plen, NEW ret
      PROVE  HeaderChunk([ptr |-> ptr, proto |-> proto, truncated |-> truncated, plen |-> plen, ret |-> ret])
  BY DEF HeaderChunk
<1>3. CASE h.ptr = NULL
  <2> DEFINE k == [ptr |-> 0, proto |-> "ETHERNET", truncated |-> h.truncated, plen |-> h.plen, ret |-> 1]
  <2>1. HeaderChunk(k)
    BY <1>2
  <2>2. g \in Arrive(cap, k)
    BY <1>3 DEF header_walk
  <2> QED
    BY <1>1, <2>1, <2>2
<1>4. CASE h.ptr # NULL
  <2>1. g \in next_payload(cap, h) /\ h.ptr \in Nat
    BY <1>4 DEF header_walk, HeaderChunk
  <2> DEFINE Landed(n) == [ptr |-> n.out, proto |-> n.type, truncated |-> FALSE, plen |-> n.plen,
                           ret |-> IF n.type = "DONE" THEN 0 ELSE 1]
             Nowhere(n) == [ptr |-> NULL, proto |-> n.type, truncated |-> TRUE, plen |-> n.plen, ret |-> 0]
  <2>2. \/ g = [h EXCEPT !.ret = 0]
        \/ \E n \in protocol_next(cap, h) : g = Nowhere(n) \/ g \in Arrive(cap, Landed(n))
    BY <2>1 DEF next_payload
  <2>3. ASSUME NEW n \in protocol_next(cap, h) PROVE HeaderChunk(Nowhere(n)) /\ HeaderChunk(Landed(n))
    <3>1. n.out \in Nat \cup {NULL}
      BY <2>1, NextForward DEF Forward
    <3> QED
      BY <1>2, <3>1
  <2> HIDE DEF Landed, Nowhere
  <2> QED
    BY <1>1, <2>2, <2>3, ChunkKeeps
<1> QED
  BY <1>3, <1>4

-----------------------------------------------------------------------------
(* dns_format never writes behind the end of its buffer for a name, for      *)
(* buffers of any size, messages of any length and any number of references. *)
(* That top <= NAME is kept rests on what dst and size are: the three octets *)
(* dns_name keeps back are never given to a label.                           *)

\* The states of dns_format.
Decoders ==
    [octets : Seq(Nat), sections : Int \X Int, response : BOOLEAN, src : Nat, back : Nat \cup {-1},
     next : Nat \cup {-1}, visited : Seq(Nat), dst : Nat, size : Nat, top : Nat,
     do : {"body", "name", "label", "fields", "done"}]

\* The name is within its buffer, and so is what may be added to it, with its "...".
DecoderInv(d) ==
    /\ d \in Decoders
    /\ d.size > 0 => d.dst + d.size <= NAME - 3
    /\ d.top <= NAME
    /\ d.do = "body" => d.sections \in Nat \X Nat

\* LesserOf is a minimum.
LEMMA LesserOfLe ==
    ASSUME NEW a \in Nat, NEW b \in Nat
    PROVE  LesserOf(a, b) \in Nat /\ LesserOf(a, b) <= a /\ LesserOf(a, b) <= b
BY DEF LesserOf

\* copy_label, whether what it prints fits or not.
LEMMA CopyKeeps ==
    ASSUME NEW d, DecoderInv(d), NEW bytes \in Nat
    PROVE  DecoderInv(Copy(d, bytes))
<1>1. CASE d.size = 0
  BY <1>1 DEF Copy
<1>2. CASE d.size # 0
  <2> DEFINE used == LesserOf(bytes, d.size)
             top == IF bytes > d.size THEN d.dst + used + 3 ELSE d.dst + LesserOf(bytes + 1, d.size)
             e == [d EXCEPT !.dst = d.dst + used, !.size = d.size - used, !.top = top]
  <2>1. /\ d \in Decoders /\ d.dst \in Nat /\ d.size \in Nat
        /\ d.dst + d.size <= NAME - 3 /\ NAME \in Nat
    <3>1. d \in Decoders /\ (d.size > 0 => d.dst + d.size <= NAME - 3)
      BY DEF DecoderInv
    <3>2. d.dst \in Nat /\ d.size \in Nat
      BY <3>1 DEF Decoders
    <3> QED
      BY <1>2, <3>1, <3>2, DnsAssumption
  <2>2. used \in Nat /\ used <= d.size
    BY <2>1, LesserOfLe
  <2>3. LesserOf(bytes + 1, d.size) \in Nat /\ LesserOf(bytes + 1, d.size) <= d.size
    <3>1. bytes + 1 \in Nat
      OBVIOUS
    <3> QED
      BY <2>1, <3>1, LesserOfLe
  <2>4. top \in Nat /\ top <= NAME
    <3> HIDE DEF used
    <3>1. d.dst + used + 3 <= NAME
      BY <2>1, <2>2
    <3>2. d.dst + LesserOf(bytes + 1, d.size) <= NAME
      BY <2>1, <2>3
    <3> QED
      BY <2>1, <2>2, <2>3, <3>1, <3>2
  <2>5. Copy(d, bytes) = e
    BY <1>2 DEF Copy
  <2> HIDE DEF used, top
  <2>6. /\ e \in Decoders /\ e.dst = d.dst + used /\ e.size = d.size - used /\ e.top = top
        /\ e.do = d.do /\ e.sections = d.sections
    <3>1. d.dst + used \in Nat /\ d.size - used \in Nat
      BY <2>1, <2>2
    <3> QED
      BY <2>1, <2>4, <3>1 DEF Decoders
  <2>7. e.dst + e.size <= NAME - 3
    BY <2>1, <2>2, <2>6
  <2> HIDE DEF e
  <2> QED
    BY <2>4, <2>5, <2>6, <2>7 DEF DecoderInv
<1> QED
  BY <1>1, <1>2

\* A call returns.
LEMMA ReturnKeeps ==
    ASSUME NEW d, DecoderInv(d), NEW at \in Nat \cup {-1}
    PROVE  DecoderInv(Return(d, at))
<1>1. d \in Decoders
  BY DEF DecoderInv
<1>2. ASSUME NEW to \in Nat \cup {-1} PROVE DecoderInv(Returned(d, to))
  <2>1. ASSUME d.next # -1 PROVE DecoderInv([d EXCEPT !.src = d.next, !.next = -1, !.do = "name"])
    <3>1. d.next \in Nat
      BY <1>1, <2>1 DEF Decoders
    <3> QED
      BY <3>1 DEF DecoderInv, Decoders
  <2>2. DecoderInv([d EXCEPT !.do = "done"])
    BY DEF DecoderInv, Decoders
  <2>3. ASSUME to # -1 PROVE DecoderInv([d EXCEPT !.src = to, !.do = "fields"])
    BY <2>3 DEF DecoderInv, Decoders
  <2> QED
    BY <2>1, <2>2, <2>3 DEF Returned
<1>3. d.back \in Nat \cup {-1}
  BY <1>1 DEF Decoders
<1> QED
  BY <1>2, <1>3 DEF Return

\* A call begins.
LEMMA EnterKeeps ==
    ASSUME NEW d, DecoderInv(d), NEW at \in Nat
    PROVE  DecoderInv(Enter(d, at))
<1>1. d \in Decoders
  BY DEF DecoderInv
<1>2. [d EXCEPT !.src = at] \in Decoders
  BY <1>1 DEF Decoders
<1>3. DecoderInv([d EXCEPT !.src = at])
  BY DEF DecoderInv, Decoders
<1> QED
  BY <1>3, ReturnKeeps DEF Enter

\* A reference, malformed or followed.
LEMMA FollowKeeps ==
    ASSUME NEW d, DecoderInv(d), NEW offset \in Nat, NEW at \in Nat, NEW e \in Follow(d, offset, at)
    PROVE  DecoderInv(e)
<1>1. d \in Decoders
  BY DEF DecoderInv
<1>2. DecoderInv(Return(Copy(d, LesserOf(d.size, MALFORMED) + 1), at))
  <2>1. LesserOf(d.size, MALFORMED) + 1 \in Nat
    <3>1. d.size \in Nat /\ MALFORMED \in Nat
      BY <1>1 DEF Decoders, MALFORMED
    <3>2. LesserOf(d.size, MALFORMED) \in Nat
      BY <3>1, LesserOfLe
    <3> QED
      BY <3>2
  <2>2. DecoderInv(Copy(d, LesserOf(d.size, MALFORMED) + 1))
    BY <2>1, CopyKeeps
  <2> QED
    BY <2>2, ReturnKeeps
<1> DEFINE back == IF d.back = -1 THEN at ELSE d.back
           f == [d EXCEPT !.visited = Append(d.visited, offset), !.back = back]
<1>3. back \in Nat \cup {-1} /\ Append(d.visited, offset) \in Seq(Nat)
  BY <1>1, SMTT(30) DEF Decoders
<1>4. DecoderInv(f)
  <2> HIDE DEF back
  <2> QED
    BY <1>3 DEF DecoderInv, Decoders
<1>5. DecoderInv(Enter(f, offset))
  <2> HIDE DEF f
  <2> QED
    BY <1>4, EnterKeeps
<1>6. e = Return(Copy(d, LesserOf(d.size, MALFORMED) + 1), at) \/ e = Enter(f, offset)
  BY DEF Follow
<1> QED
  BY <1>2, <1>5, <1>6

\* What is read of a message are octets.
LEMMA OctetNat ==
    ASSUME NEW d \in Decoders, NEW at \in Nat, NEW x \in Octet(d, at)
    PROVE  x \in Nat
<1>1. CASE at < Len(d.octets)
  <2>1. d.octets \in Seq(Nat)
    BY DEF Decoders
  <2>2. at + 1 \in 1..Len(d.octets)
    BY <1>1, <2>1
  <2>3. d.octets[at + 1] \in Nat
    BY <2>1, <2>2
  <2>4. x = d.octets[at + 1]
    BY <1>1 DEF Octet
  <2> QED
    BY <2>3, <2>4
<1>2. CASE ~(at < Len(d.octets))
  BY <1>2, DnsAssumption DEF Octet
<1> QED
  BY <1>1, <1>2

\* One label.
LEMMA LabelKeeps ==
    ASSUME NEW d, DecoderInv(d), NEW e \in Label(d)
    PROVE  DecoderInv(e)
<1>1. d \in Decoders /\ d.src \in Nat
  BY DEF DecoderInv, Decoders
<1>2. PICK len \in Octet(d, d.src) :
          e \in IF len >= REFERENCE
                THEN UNION {Follow(d, 256 * (len - REFERENCE) + low, d.src + 2) : low \in Octet(d, d.src + 1)}
                ELSE LET at == d.src + 1 + len
                     IN {IF at >= Len(d.octets) THEN Return(f, -1)
                         ELSE IF d.octets[at + 1] = 0 THEN Return(f, at + 1)
                         ELSE [f EXCEPT !.src = at] : f \in copy_label(d, len)}
  BY DEF Label
<1>3. len \in Nat
  BY <1>1, OctetNat
<1>4. CASE len >= REFERENCE
  <2>1. PICK low \in Octet(d, d.src + 1) : e \in Follow(d, 256 * (len - REFERENCE) + low, d.src + 2)
    BY <1>2, <1>4
  <2>2. d.src + 1 \in Nat
    BY <1>1
  <2>3. low \in Nat
    BY <1>1, <2>2, OctetNat
  <2>4. 256 * (len - REFERENCE) + low \in Nat /\ d.src + 2 \in Nat
    BY <1>1, <1>3, <1>4, <2>3 DEF REFERENCE
  <2> QED
    BY <2>1, <2>4, FollowKeeps
<1>5. CASE ~(len >= REFERENCE)
  <2> DEFINE at == d.src + 1 + len
  <2>1. PICK f \in copy_label(d, len) :
            e = IF at >= Len(d.octets) THEN Return(f, -1)
                ELSE IF d.octets[at + 1] = 0 THEN Return(f, at + 1)
                ELSE [f EXCEPT !.src = at]
    BY <1>2, <1>5
  <2>2. at \in Nat /\ at + 1 \in Nat
    BY <1>1, <1>3
  <2>3. \E n \in Nat : f = Copy(d, n + 1)
    BY DEF copy_label
  <2>4. DecoderInv(f)
    BY <2>3, CopyKeeps
  <2> HIDE DEF at
  <2>5. DecoderInv(Return(f, -1)) /\ DecoderInv(Return(f, at + 1))
    BY <2>2, <2>4, ReturnKeeps
  <2>6. DecoderInv([f EXCEPT !.src = at])
    BY <2>2, <2>4 DEF DecoderInv, Decoders
  <2> QED
    BY <2>1, <2>5, <2>6
<1> QED
  BY <1>4, <1>5

\* dns_name gives its callee NAME - 3 octets, or none.
LEMMA NameBegins ==
    ASSUME NEW d, DecoderInv(d), NEW discard \in BOOLEAN
    PROVE  DecoderInv(dns_name(d, discard))
<1>1. NAME - 3 \in Nat /\ NAME \in Nat
  BY DnsAssumption
<1>2. <<>> \in Seq(Nat)
  OBVIOUS
<1> DEFINE size == IF discard THEN 0 ELSE NAME - 3
<1>3. size \in Nat /\ (size > 0 => 0 + size <= NAME - 3)
  BY <1>1
<1>4. dns_name(d, discard) = [d EXCEPT !.visited = <<>>, !.back = -1, !.dst = 0, !.size = size, !.do = "label"]
  BY DEF dns_name
<1> HIDE DEF size
<1>5. DecoderInv([d EXCEPT !.visited = <<>>, !.back = -1, !.dst = 0, !.size = size, !.do = "label"])
  BY <1>1, <1>2, <1>3 DEF DecoderInv, Decoders
<1> QED
  BY <1>4, <1>5

\* The next name, or the end.
LEMMA NameKeeps ==
    ASSUME NEW d, DecoderInv(d)
    PROVE  DecoderInv(Name(d))
<1>1. d \in Decoders /\ d.src \in Nat
  BY DEF DecoderInv, Decoders
<1>2. DecoderInv([d EXCEPT !.do = "done"])
  BY DEF DecoderInv, Decoders
<1>3. (d.response /\ d.sections[1] > 0) \in BOOLEAN
  OBVIOUS
<1>4. DecoderInv(dns_name(d, d.response /\ d.sections[1] > 0))
  BY <1>3, NameBegins
<1>5. DecoderInv(Enter(dns_name(d, d.response /\ d.sections[1] > 0), d.src))
  BY <1>1, <1>4, EnterKeeps
<1> QED
  BY <1>2, <1>5 DEF Name

\* A question behind its name.
LEMMA QuestionKeeps ==
    ASSUME NEW d, DecoderInv(d)
    PROVE  DecoderInv(Question(d))
<1>1. d \in Decoders
  BY DEF DecoderInv
<1>2. d.src + 4 \in Nat /\ <<d.sections[1] - 1, d.sections[2]>> \in Int \X Int
  BY <1>1, SMTT(30) DEF Decoders
<1>3. DecoderInv([d EXCEPT !.do = "done"])
  BY DEF DecoderInv, Decoders
<1>4. DecoderInv([d EXCEPT !.do = "name", !.src = d.src + 4,
                           !.sections = <<d.sections[1] - 1, d.sections[2]>>])
  BY <1>2 DEF DecoderInv, Decoders
<1>5. \/ Question(d) = [d EXCEPT !.do = "done"]
      \/ Question(d) = [d EXCEPT !.do = "name", !.src = d.src + 4,
                                 !.sections = <<d.sections[1] - 1, d.sections[2]>>]
  BY DEF Question
<1> QED
  BY <1>3, <1>4, <1>5

\* An answer behind its name, and the beginning of a name in its data.
LEMMA AnswerKeeps ==
    ASSUME NEW d, DecoderInv(d), NEW data \in Nat, NEW f \in AnswerAt(d, data)
    PROVE  DecoderInv(f)
<1>1. d \in Decoders
  BY DEF DecoderInv
<1>2. <<d.sections[1], d.sections[2] - 1>> \in Int \X Int
  <2>1. d.sections \in Int \X Int
    BY <1>1 DEF Decoders
  <2> QED
    BY <2>1
<1>3. DecoderInv(Answered(d))
  BY <1>2 DEF DecoderInv, Decoders, Answered
<1> DEFINE e == Answered(d)
<1> HIDE DEF e
<1>4. CASE data >= Len(d.octets)
  <2>1. DecoderInv([d EXCEPT !.do = "done"])
    BY DEF DecoderInv, Decoders
  <2>2. f = [d EXCEPT !.do = "done"]
    BY <1>4 DEF AnswerAt
  <2> QED
    BY <2>1, <2>2
<1>5. CASE ~(data >= Len(d.octets))
  <2>1. PICK n \in RdLens :
            f \in {[e EXCEPT !.src = data + n], Enter(dns_name([e EXCEPT !.next = data + n], FALSE), data),
                   Enter(dns_name([e EXCEPT !.next = data + 2 + MxLength(n)], FALSE), data + 2)}
    BY <1>5 DEF AnswerAt, e
  <2>2. data + n \in Nat /\ data + 2 \in Nat /\ data + 2 + MxLength(n) \in Nat
    <3>1. n \in Nat /\ MxLength(n) \in Nat
      BY DnsAssumption, SMTT(30) DEF MxLength
    <3> QED
      BY <3>1
  <2>3. DecoderInv([e EXCEPT !.src = data + n])
    <3>1. DecoderInv(e)
      BY <1>3 DEF e
    <3> QED
      BY <2>2, <3>1 DEF DecoderInv, Decoders
  <2>4. ASSUME NEW m \in Nat, NEW at \in Nat PROVE DecoderInv(Enter(dns_name([e EXCEPT !.next = m], FALSE), at))
    <3>1. DecoderInv(e)
      BY <1>3 DEF e
    <3>2. DecoderInv([e EXCEPT !.next = m])
      BY <3>1 DEF DecoderInv, Decoders
    <3>3. DecoderInv(dns_name([e EXCEPT !.next = m], FALSE))
      BY <3>2, NameBegins
    <3> QED
      BY <3>3, EnterKeeps
  <2>5. DecoderInv(Enter(dns_name([e EXCEPT !.next = data + n], FALSE), data))
    BY <2>2, <2>4
  <2>6. DecoderInv(Enter(dns_name([e EXCEPT !.next = data + 2 + MxLength(n)], FALSE), data + 2))
    BY <2>2, <2>4
  <2> QED
    BY <2>1, <2>3, <2>5, <2>6
<1> QED
  BY <1>4, <1>5

\* The octets of a message.
LEMMA MessageKeeps ==
    ASSUME NEW d, DecoderInv(d), d.do = "body", NEW body \in Seq(Nat)
    PROVE  DecoderInv(Message(d, body))
<1> DEFINE header == <<0, 0, IF d.response THEN 128 ELSE 0, 0, 0, d.sections[1], 0, d.sections[2], 0, 0, 0, 0>>
<1>1. d.sections[1] \in Nat /\ d.sections[2] \in Nat
  BY DEF DecoderInv
<1>2. (IF d.response THEN 128 ELSE 0) \in Nat
  OBVIOUS
<1>3. header \in Seq(Nat)
  BY <1>1, <1>2
<1> HIDE DEF header
<1>4. header \o body \in Seq(Nat)
  BY <1>3
<1>5. DecoderInv([d EXCEPT !.octets = header \o body, !.do = "name"])
  BY <1>4 DEF DecoderInv, Decoders
<1> QED
  BY <1>5 DEF Message, header

-----------------------------------------------------------------------------
\* dns_format begins with a decoder that satisfies the invariant, whatever the counts in
\* the header of the message.
LEMMA DnsBegins ==
    ASSUME NEW counts, counts \subseteq Nat, NEW whole \in BOOLEAN, NEW d \in dns_format(counts, whole)
    PROVE  DecoderInv(d)
<1>1. \E q, n \in Nat, response \in BOOLEAN, do \in {"body", "done"} : d = Decoder(<<q, n>>, response, do)
  <2>1. \/ d = Decoder(<<0, 0>>, FALSE, "done")
        \/ \E q \in counts : d = Decoder(<<q, 0>>, FALSE, "body")
        \/ \E q, n \in counts : d = Decoder(<<q, n>>, TRUE, "body")
    BY DEF dns_format
  <2>2. 0 \in Nat
    OBVIOUS
  <2> QED
    BY <2>1, <2>2
<1>2. PICK q, n \in Nat, response \in BOOLEAN, do \in {"body", "done"} : d = Decoder(<<q, n>>, response, do)
  BY <1>1
<1>3. d \in Decoders /\ d.sections = <<q, n>> /\ d.size = 0 /\ d.top = 0
  BY <1>2, SMTT(30) DEF Decoders, Decoder, DNS_HEADER
<1> QED
  BY <1>3, DnsAssumption, SMTT(30) DEF DecoderInv

\* A step of dns_format on a message, however long the labels are and however the
\* references of the message lead.
LEMMA DnsStepKeeps ==
    ASSUME NEW d, DecoderInv(d), d.do # "done", NEW bodies, bodies \subseteq Seq(Nat), NEW e \in DnsStep(d, bodies)
    PROVE  DecoderInv(e)
<1>1. d \in Decoders /\ d.do \in {"body", "name", "label", "fields"}
  BY DEF DecoderInv, Decoders
<1>2. CASE d.do = "body"
  <2>1. PICK b \in bodies : e = Message(d, b)
    BY <1>2 DEF DnsStep
  <2> QED
    BY <1>2, <2>1, MessageKeeps
<1>3. CASE d.do = "name"
  <2>1. e = Name(d)
    BY <1>3 DEF DnsStep
  <2> QED
    BY <2>1, NameKeeps
<1>4. CASE d.do = "label"
  <2>1. e \in Label(d)
    BY <1>4 DEF DnsStep
  <2> QED
    BY <2>1, LabelKeeps
<1>5. CASE d.do = "fields"
  <2>1. e = Question(d) \/ e \in AnswerAt(d, d.src + 10)
    BY <1>5 DEF DnsStep, Answer
  <2>2. d.src + 10 \in Nat
    BY <1>1, SMTT(30) DEF Decoders
  <2> QED
    BY <2>1, <2>2, QuestionKeeps, AnswerKeeps
<1> QED
  BY <1>1, <1>2, <1>3, <1>4, <1>5

-----------------------------------------------------------------------------
(* Numbers and sequences.                                                    *)

\* A set of numbers has a least.
LEMMA LeastNumber ==
    ASSUME NEW S, S \subseteq Nat, S # {}
    PROVE  \E x \in S : \A y \in S : x <= y
<1>1. PICK x \in S : \A y \in S : ~(<<y, x>> \in OpToRel(<, Nat))
  BY WFMin, NatLessThanWellFounded
<1>2. ASSUME NEW y \in S PROVE x <= y
  <2>1. ~(y < x)
    BY <1>1 DEF OpToRel
  <2> QED
    BY <2>1
<1> QED
  BY <1>2

\* A function on 1..k is a sequence.
LEMMA SeqOf ==
    ASSUME NEW S, NEW k \in Nat, NEW s \in [1..k -> S]
    PROVE  s \in Seq(S) /\ DOMAIN s = 1..k /\ Len(s) = k
OBVIOUS

\* A sequence, whatever its elements.
Sequence(ls) == ls \in Seq({ls[k] : k \in DOMAIN ls})

\* One more element leaves those before it where they were.
LEMMA Prefixes ==
    ASSUME NEW S, NEW ls \in Seq(S), NEW x \in S
    PROVE  /\ SubSeq(Append(ls, x), 1, Len(Append(ls, x)) - 1) = ls
           /\ \A j \in DOMAIN ls : SubSeq(Append(ls, x), 1, j - 1) = SubSeq(ls, 1, j - 1)
<1>1. SubSeq(Append(ls, x), 1, Len(Append(ls, x)) - 1) = ls
  OBVIOUS
<1>2. ASSUME NEW j \in DOMAIN ls PROVE SubSeq(Append(ls, x), 1, j - 1) = SubSeq(ls, 1, j - 1)
  OBVIOUS
<1> QED
  BY <1>1, <1>2

\* One more element: which places there are, and what is there.
Longer(ls, more, line) ==
    /\ DOMAIN ls = 1..Len(ls) /\ Len(ls) \in Nat
    /\ DOMAIN more = 1..(Len(ls) + 1) /\ more[Len(ls) + 1] = line
    /\ \A k \in DOMAIN ls : k \in Nat /\ k \in DOMAIN more /\ k <= Len(ls) /\ more[k] = ls[k]
    /\ \A k \in DOMAIN more : k \in DOMAIN ls \/ k = Len(ls) + 1

\* What Append makes.
LEMMA OneMore ==
    ASSUME NEW S, NEW ls \in Seq(S), NEW line \in S
    PROVE  Longer(ls, Append(ls, line), line)
BY DEF Longer

\* Over any set that has the element too.
LEMMA LongerSequence ==
    ASSUME NEW ls, Sequence(ls), NEW line
    PROVE  /\ Sequence(Append(ls, line))
           /\ \E S : ls \in Seq(S) /\ line \in S
<1> DEFINE T == {ls[k] : k \in DOMAIN ls}
           S == T \cup {line}
           more == Append(ls, line)
<1>1. ls \in Seq(T)
  BY DEF Sequence
<1> HIDE DEF T
<1>2. ls \in Seq(S) /\ line \in S
  BY <1>1
<1>3. more \in Seq(S)
  BY <1>2
<1> HIDE DEF more, S
<1>4. Sequence(more)
  BY <1>3, SMTT(30) DEF Sequence
<1> QED
  BY <1>2, <1>4 DEF more

-----------------------------------------------------------------------------
(* connection_id.  In the lists that were never reallocated two items are    *)
(* siblings for good, and between two ends there is at most one pair that is *)
(* not finished: the connection a packet belongs to.                         *)

\* What the lists hold.
Entries == [src : SUBSET Nat, dst : SUBSET Nat, sport : Nat, dport : Nat, finished : BOOLEAN]
Items == [entry : Entries, id : Nat, seq : Int, sibling : [at : Nat, moves : Nat]]

\* The other direction.
Reverse(e) == [src |-> e.dst, dst |-> e.src, sport |-> e.dport, dport |-> e.sport, finished |-> e.finished]

\* Items i and j are siblings, and in the right bucket.
Siblings(l, i, j, b) ==
    /\ j \in DOMAIN l.items /\ j # i
    /\ l.items[i].sibling = [at |-> j, moves |-> 0] /\ l.items[j].sibling = [at |-> i, moves |-> 0]
    /\ l.items[j].entry = Reverse(l.items[i].entry)
    /\ l.items[j].id = l.items[i].id /\ l.items[j].seq = l.items[i].seq
    /\ ipv4_bucket_select(l.items[i].entry) = b

\* The pairs of a list, one open pair between the same ends.
InPairs(l, b) ==
    /\ l.items \in Seq(Items)
    /\ \A i \in DOMAIN l.items : Siblings(l, i, l.items[i].sibling.at, b)
    /\ \A i, k \in DOMAIN l.items :
          /\ ~l.items[i].entry.finished
          /\ l.items[k].entry \in {l.items[i].entry, Reverse(l.items[i].entry)}
          => k \in {i, l.items[i].sibling.at}

\* What holds of the lists in any case.
Lists(c) ==
    /\ c = [list |-> c.list, counter |-> c.counter, crashed |-> c.crashed] /\ c.list = [b \in Buckets |-> c.list[b]]
    /\ \A b \in Buckets : c.list[b].moves \in Nat
    /\ c.counter \in Nat /\ c.crashed \in BOOLEAN

\* No list was reallocated.
Still(c) == ~c.crashed /\ \A b \in Buckets : c.list[b].moves = 0

\* Every list is in pairs.
Pairs(c) == \A b \in Buckets : InPairs(c.list[b], b)

\* The open connection between ends e has this id, and began with this sequence number.
Listed(l, e, id, seq) ==
    \E i \in DOMAIN l.items : l.items[i].entry = e /\ l.items[i].id = id /\ l.items[i].seq = seq
Connected(c, e, id, seq) == Listed(c.list[ipv4_bucket_select(e)], e, id, seq)

\* The ends of open connections.
OpenEntries == {e \in Entries : ~e.finished}

\* What connection_id reads of a packet has its type.
Readable(p) ==
    /\ p.src \in SUBSET Nat /\ p.dst \in SUBSET Nat /\ p.sport \in Nat /\ p.dport \in Nat
    /\ p.tcp \in BOOLEAN /\ p.udp \in BOOLEAN /\ p.syn \in BOOLEAN /\ p.ack \in BOOLEAN /\ p.seq \in Int

\* The ends of a packet, in both directions.
EndsOf(p) == IF p.tcp \/ p.udp THEN {ipv4_forward(p), ipv4_backward(p)} ELSE {}

\* Line `last' is the last between ends e and `first' the first of its connection.
Spans(ls, e, id, seq, first, last) ==
    /\ e \in EndsOf(ls[first].pkt) /\ ls[first].id = id /\ StartSeq(ls[first].pkt) = seq
    /\ e \in EndsOf(ls[last].pkt) /\ ls[last].id = id
    /\ \A k \in DOMAIN ls : e \in EndsOf(ls[k].pkt) => k <= last /\ (ls[k].id = id => first <= k)

\* The lists have the connection of every line, and each is that of its last line.
Recorded(c, ls) ==
    /\ \A k \in DOMAIN ls : Readable(ls[k].pkt) /\ ls[k].id \in 0..c.counter
    /\ \A k \in DOMAIN ls : \A e \in EndsOf(ls[k].pkt) : \E id \in Nat, seq \in Int : Connected(c, e, id, seq)
    /\ \A e \in OpenEntries, id \in Nat, seq \in Int :
          Connected(c, e, id, seq) => \E first, last \in DOMAIN ls : Spans(ls, e, id, seq, first, last)

\* What ConnectionIds says of the lines.
AllBelong(ls) == \A j \in DOMAIN ls : IdBelongs(SubSeq(ls, 1, j - 1), ls[j])

\* slist_find finds an item with the key if there is one.
LEMMA Finds ==
    ASSUME NEW l, l.items \in Seq(Items), NEW key
    PROVE  \/ /\ slist_find(l, key) \in DOMAIN l.items /\ slist_find(l, key) # 0
              /\ l.items[slist_find(l, key)].entry = key
           \/ slist_find(l, key) = 0 /\ \A i \in DOMAIN l.items : l.items[i].entry # key
<1> DEFINE found == {i \in DOMAIN l.items : l.items[i].entry = key}
           least(i) == \A j \in found : i <= j
<1>1. found \subseteq Nat \ {0}
  OBVIOUS
<1>2. CASE found = {}
  BY <1>2 DEF slist_find
<1>3. CASE found # {}
  <2>1. \E i \in found : least(i)
    <3> HIDE DEF found
    <3> QED
      BY <1>1, <1>3, LeastNumber
  <2>2. slist_find(l, key) = CHOOSE i \in found : least(i)
    BY <1>3 DEF slist_find
  <2>3. slist_find(l, key) \in found
    <3> HIDE DEF found, least
    <3> QED
      BY <2>1, <2>2
  <2> QED
    BY <1>1, <2>3
<1> QED
  BY <1>2, <1>3

\* The ends of a packet.
LEMMA EntriesOf ==
    ASSUME NEW p, Readable(p)
    PROVE  /\ ipv4_forward(p) \in OpenEntries /\ ipv4_backward(p) \in OpenEntries
           /\ ipv4_backward(p) = Reverse(ipv4_forward(p)) /\ ipv4_forward(p) = Reverse(ipv4_backward(p))
           /\ ipv4_bucket_select(p) = ipv4_bucket_select(ipv4_forward(p))
           /\ ipv4_bucket_select(p) = ipv4_bucket_select(ipv4_backward(p))
           /\ ipv4_bucket_select(p) \in Buckets
<1>1. ipv4_forward(p) \in OpenEntries /\ ipv4_backward(p) \in OpenEntries
  BY DEF Readable, OpenEntries, Entries, ipv4_forward, ipv4_backward, Entry
<1>2. ipv4_backward(p) = Reverse(ipv4_forward(p)) /\ ipv4_forward(p) = Reverse(ipv4_backward(p))
  BY DEF Reverse, ipv4_forward, ipv4_backward, Entry
<1>3. ipv4_bucket_select(p) = ipv4_bucket_select(ipv4_forward(p))
  BY DEF ipv4_bucket_select, ipv4_forward, Entry
<1>4. ipv4_bucket_select(p) = ipv4_bucket_select(ipv4_backward(p))
  BY DEF ipv4_bucket_select, ipv4_backward, Entry
<1>5. ipv4_bucket_select(p) \in Buckets
  BY DEF ipv4_bucket_select, Buckets
<1> QED
  BY <1>1, <1>2, <1>3, <1>4, <1>5

\* Both directions are in one bucket.
LEMMA Reverses ==
    ASSUME NEW e \in Entries
    PROVE  /\ Reverse(e) \in Entries /\ Reverse(Reverse(e)) = e /\ Reverse(e).finished = e.finished
           /\ ipv4_bucket_select(Reverse(e)) = ipv4_bucket_select(e) /\ ipv4_bucket_select(e) \in Buckets
<1>1. Reverse(e) \in Entries /\ Reverse(Reverse(e)) = e /\ Reverse(e).finished = e.finished
  BY DEF Entries, Reverse
<1>2. ipv4_bucket_select(Reverse(e)) = ipv4_bucket_select(e)
  BY DEF ipv4_bucket_select, Reverse
<1>3. ipv4_bucket_select(e) \in Buckets
  BY DEF ipv4_bucket_select, Buckets
<1> QED
  BY <1>1, <1>2, <1>3

\* m is list l with a pair behind its n items.
Appended(l, m, n, e1, e2, id, seq) ==
    /\ m.items \in [1..(n + 2) -> Items \cup {m.items[n + 1], m.items[n + 2]}]
    /\ \A k \in 1..n : m.items[k] = l.items[k]
    /\ m.items[n + 1] = [entry |-> e1, id |-> id, seq |-> seq, sibling |-> [at |-> n + 2, moves |-> m.moves]]
    /\ m.items[n + 2] = [entry |-> e2, id |-> id, seq |-> seq, sibling |-> [at |-> n + 1, moves |-> m.moves]]

\* Putting a pair behind a list: the capacity may grow, the items stay.
LEMMA PutsPair ==
    ASSUME NEW l, l.items \in Seq(Items), l.moves \in Nat, NEW e1 \in Entries, NEW e2 \in Entries,
           NEW id \in Nat, NEW seq \in Int
    PROVE  Appended(l, PutPair(l, e1, e2, id, seq), Len(l.items), e1, e2, id, seq)
<1> DEFINE i1 == [entry |-> e1, id |-> id, seq |-> 0, sibling |-> [at |-> 0, moves |-> 0]]
           i2 == [entry |-> e2, id |-> id, seq |-> 0, sibling |-> [at |-> 0, moves |-> 0]]
           k == entry_put(l, e1, id)
           q == entry_put(k, e2, id)
           n == Len(l.items)
           m == PutPair(l, e1, e2, id, seq)
<1>1. i1 \in Items /\ i2 \in Items /\ i1.entry = e1 /\ i1.id = id /\ i2.entry = e2 /\ i2.id = id
  BY DEF Items
<1> HIDE DEF i1, i2
<1>2. k.items = Append(l.items, i1) /\ k.moves \in Nat /\ k.moves >= l.moves
  <2>1. k = slist_put(l, i1)
    BY DEF entry_put, i1
  <2>2. CASE Len(l.items) = l.capacity
    BY <2>1, <2>2 DEF slist_put, slist_alloc
  <2>3. CASE Len(l.items) # l.capacity
    BY <2>1, <2>3 DEF slist_put
  <2> QED
    BY <2>2, <2>3
<1> HIDE DEF k
<1>3. q.items = Append(k.items, i2) /\ q.moves \in Nat /\ q.moves >= k.moves
  <2>1. q = slist_put(k, i2)
    BY DEF entry_put, i2
  <2>2. CASE Len(k.items) = k.capacity
    BY <1>2, <2>1, <2>2 DEF slist_put, slist_alloc
  <2>3. CASE Len(k.items) # k.capacity
    BY <1>2, <2>1, <2>3 DEF slist_put
  <2> QED
    BY <2>2, <2>3
<1> HIDE DEF q
<1>4. n \in Nat
  OBVIOUS
<1>5. k.items \in Seq(Items) /\ Len(k.items) = n + 1 /\ k.items[n + 1] = i1 /\ \A i \in 1..n : k.items[i] = l.items[i]
  BY <1>1, <1>2
<1>6. /\ q.items \in Seq(Items) /\ Len(q.items) = n + 2 /\ q.items[n + 2] = i2 /\ q.items[n + 1] = i1
      /\ \A i \in 1..n : q.items[i] = l.items[i]
  BY <1>1, <1>3, <1>4, <1>5
<1> DEFINE new(i) == [entry |-> q.items[i].entry, id |-> q.items[i].id, seq |-> seq,
                      sibling |-> [at |-> 2 * (n + 2) - 1 - i, moves |-> q.moves]]
<1>7. m = [items |-> [i \in 1..(n + 2) |-> IF i < (n + 2) - 1 THEN q.items[i] ELSE new(i)],
           capacity |-> q.capacity, moves |-> q.moves]
  <2>1. m = [items |-> [i \in 1..Len(q.items) |-> IF i < Len(q.items) - 1 THEN q.items[i]
                            ELSE [entry |-> q.items[i].entry, id |-> q.items[i].id, seq |-> seq,
                                  sibling |-> [at |-> 2 * Len(q.items) - 1 - i, moves |-> q.moves]]],
             capacity |-> q.capacity, moves |-> q.moves]
    BY DEF PutPair, q, k
  <2>2. Len(q.items) = n + 2
    BY <1>6
  <2> HIDE DEF m
  <2> QED
    BY <2>1, <2>2
<1> HIDE DEF m
<1>8. m.moves = q.moves /\ m.items = [i \in 1..(n + 2) |-> IF i < (n + 2) - 1 THEN q.items[i] ELSE new(i)]
  BY <1>7
<1>9. ASSUME NEW i \in 1..n PROVE m.items[i] = l.items[i]
  <2>1. i \in 1..(n + 2) /\ i < (n + 2) - 1
    BY <1>4
  <2> HIDE DEF new
  <2> QED
    BY <1>6, <1>8, <2>1
<1>10. m.items[n + 1] = new(n + 1) /\ m.items[n + 2] = new(n + 2)
  <2>1. n + 1 \in 1..(n + 2) /\ ~(n + 1 < (n + 2) - 1) /\ n + 2 \in 1..(n + 2) /\ ~(n + 2 < (n + 2) - 1)
    BY <1>4
  <2> HIDE DEF new
  <2> QED
    BY <1>8, <2>1
<1>11. 2 * (n + 2) - 1 - (n + 1) = n + 2 /\ 2 * (n + 2) - 1 - (n + 2) = n + 1
  BY <1>4
<1>12. new(n + 1) = [entry |-> e1, id |-> id, seq |-> seq, sibling |-> [at |-> n + 2, moves |-> m.moves]]
  BY <1>1, <1>6, <1>8, <1>11
<1>13. new(n + 2) = [entry |-> e2, id |-> id, seq |-> seq, sibling |-> [at |-> n + 1, moves |-> m.moves]]
  BY <1>1, <1>6, <1>8, <1>11
<1>14. m.items \in [1..(n + 2) -> Items \cup {m.items[n + 1], m.items[n + 2]}]
  <2>1. ASSUME NEW i \in 1..(n + 2) PROVE m.items[i] \in Items \cup {m.items[n + 1], m.items[n + 2]}
    <3>1. CASE i \in 1..n
      BY <1>9, <3>1, SMTT(30)
    <3>2. CASE i \notin 1..n
      <4>1. i = n + 1 \/ i = n + 2
        BY <1>4, <3>2
      <4> QED
        BY <4>1
    <3> QED
      BY <3>1, <3>2
  <2> HIDE DEF new
  <2> QED
    BY <1>8, <2>1
<1>15. /\ m.items[n + 1] = [entry |-> e1, id |-> id, seq |-> seq, sibling |-> [at |-> n + 2, moves |-> m.moves]]
       /\ m.items[n + 2] = [entry |-> e2, id |-> id, seq |-> seq, sibling |-> [at |-> n + 1, moves |-> m.moves]]
  BY <1>10, <1>12, <1>13
<1>16. Appended(l, m, n, e1, e2, id, seq)
  BY <1>9, <1>14, <1>15 DEF Appended
<1> QED
  BY <1>16 DEF m

\* The places behind a sequence.
LEMMA PlacesBehind ==
    ASSUME NEW n \in Nat
    PROVE  /\ n + 1 \in Nat /\ n + 2 \in Nat /\ n + 1 \notin 1..n /\ n + 2 \notin 1..n
           /\ n + 1 \in 1..(n + 2) /\ n + 2 \in 1..(n + 2) /\ \A k \in 1..n : k \in 1..(n + 2)
           /\ 1..(n + 2) = 1..n \cup {n + 1, n + 2}
OBVIOUS

\* Only whether it is finished changes of an item that is closed.
LEMMA Finishes ==
    ASSUME NEW x \in Items
    PROVE  /\ Finished(x) \in Items
           /\ Finished(x).id = x.id /\ Finished(x).seq = x.seq /\ Finished(x).sibling = x.sibling
           /\ Finished(x).entry.finished
           /\ ipv4_bucket_select(Finished(x).entry) = ipv4_bucket_select(x.entry)
           /\ \A y \in Items : y.entry = Reverse(x.entry) => Finished(y).entry = Reverse(Finished(x).entry)
<1> DEFINE Done(e) == [src |-> e.src, dst |-> e.dst, sport |-> e.sport, dport |-> e.dport, finished |-> TRUE]
<1>1. ASSUME NEW y \in Items
      PROVE  Finished(y) = [entry |-> Done(y.entry), id |-> y.id, seq |-> y.seq, sibling |-> y.sibling]
  BY DEF Finished
<1>2. Finished(x) \in Items
  <2>1. x.entry \in Entries /\ x.id \in Nat /\ x.seq \in Int /\ x.sibling \in [at : Nat, moves : Nat]
    BY DEF Items
  <2>2. Done(x.entry) \in Entries
    BY <2>1 DEF Entries
  <2> HIDE DEF Done
  <2> QED
    BY <1>1, <2>1, <2>2, SMTT(30) DEF Items
<1>3. Finished(x).id = x.id /\ Finished(x).seq = x.seq /\ Finished(x).sibling = x.sibling /\ Finished(x).entry = Done(x.entry)
  BY DEF Finished
<1>4. Finished(x).entry.finished /\ ipv4_bucket_select(Finished(x).entry) = ipv4_bucket_select(x.entry)
  BY <1>3, SMTT(30) DEF ipv4_bucket_select
<1>5. ASSUME NEW y \in Items, y.entry = Reverse(x.entry) PROVE Finished(y).entry = Reverse(Finished(x).entry)
  <2>1. Finished(y).entry = Done(y.entry)
    BY DEF Finished
  <2> QED
    BY <1>3, <1>5, <2>1 DEF Reverse
<1> QED
  BY <1>2, <1>3, <1>4, <1>5

\* m is list l with a pair behind its n items, those in `closed' being closed, which are
\* the ones between the same ends.
Replaces(l, m, n, closed, e, id, seq) ==
    /\ closed \subseteq DOMAIN l.items /\ \A i \in closed : l.items[i].sibling.at \in closed
    /\ \A k \in DOMAIN l.items : l.items[k].entry \in {e, Reverse(e)} <=> k \in closed
    /\ m.items \in [1..(n + 2) -> Items]
    /\ \A k \in 1..n : m.items[k] = IF k \in closed THEN Finished(l.items[k]) ELSE l.items[k]
    /\ m.items[n + 1] = [entry |-> e, id |-> id, seq |-> seq, sibling |-> [at |-> n + 2, moves |-> 0]]
    /\ m.items[n + 2] = [entry |-> Reverse(e), id |-> id, seq |-> seq, sibling |-> [at |-> n + 1, moves |-> 0]]

\* m has the connections of l, and this one between ends e.
Gains(l, m, e, id, seq) ==
    \A e2 \in OpenEntries : \A id2, seq2 :
        Listed(m, e2, id2, seq2)
        <=> IF e2 \in {e, Reverse(e)} THEN id2 = id /\ seq2 = seq ELSE Listed(l, e2, id2, seq2)

\* The list stays in pairs, and has the new connection between these ends.
LEMMA PairsStay ==
    ASSUME NEW l, NEW b, InPairs(l, b), NEW n \in Nat, n = Len(l.items), NEW closed,
           NEW e \in OpenEntries, ipv4_bucket_select(e) = b, NEW id \in Nat, NEW seq \in Int,
           NEW m, Replaces(l, m, n, closed, e, id, seq)
    PROVE  InPairs(m, b) /\ Gains(l, m, e, id, seq)
<1>0. /\ closed \subseteq DOMAIN l.items /\ \A i \in closed : l.items[i].sibling.at \in closed
      /\ \A k \in DOMAIN l.items : l.items[k].entry \in {e, Reverse(e)} <=> k \in closed
      /\ m.items \in [1..(n + 2) -> Items]
      /\ \A k \in 1..n : m.items[k] = IF k \in closed THEN Finished(l.items[k]) ELSE l.items[k]
      /\ m.items[n + 1] = [entry |-> e, id |-> id, seq |-> seq, sibling |-> [at |-> n + 2, moves |-> 0]]
      /\ m.items[n + 2] = [entry |-> Reverse(e), id |-> id, seq |-> seq, sibling |-> [at |-> n + 1, moves |-> 0]]
  BY DEF Replaces
<1>1. /\ DOMAIN l.items = 1..n /\ DOMAIN m.items = 1..(n + 2) /\ m.items \in Seq(Items)
      /\ \A k \in 1..n : l.items[k] \in Items /\ k \in 1..(n + 2)
      /\ n + 1 \in 1..(n + 2) /\ n + 2 \in 1..(n + 2) /\ n + 1 \notin 1..n /\ n + 2 \notin 1..n
      /\ 1..(n + 2) = 1..n \cup {n + 1, n + 2}
  <2>1. l.items \in Seq(Items) /\ DOMAIN l.items = 1..n
    BY SMTT(30) DEF InPairs
  <2>2. m.items \in Seq(Items) /\ DOMAIN m.items = 1..(n + 2)
    <3>1. n + 2 \in Nat
      OBVIOUS
    <3> QED
      BY <1>0, <3>1, SeqOf
  <2>3. \A k \in 1..n : l.items[k] \in Items
    BY <2>1
  <2> QED
    BY <2>1, <2>2, <2>3, PlacesBehind
<1>2. e \in Entries /\ ~e.finished /\ Reverse(e) \in Entries /\ ~Reverse(e).finished /\ Reverse(Reverse(e)) = e
      /\ ipv4_bucket_select(Reverse(e)) = b
  BY Reverses DEF OpenEntries
<1>3. ASSUME NEW k \in 1..n
      PROVE  /\ m.items[k].id = l.items[k].id /\ m.items[k].seq = l.items[k].seq /\ m.items[k].sibling = l.items[k].sibling
             /\ ipv4_bucket_select(m.items[k].entry) = ipv4_bucket_select(l.items[k].entry)
             /\ k \in closed => m.items[k].entry.finished
             /\ k \notin closed => m.items[k] = l.items[k]
  <2>1. l.items[k] \in Items
    BY <1>1
  <2>2. CASE k \in closed
    <3>1. m.items[k] = Finished(l.items[k])
      BY <1>0, <2>2
    <3>2. /\ Finished(l.items[k]).id = l.items[k].id /\ Finished(l.items[k]).seq = l.items[k].seq
          /\ Finished(l.items[k]).sibling = l.items[k].sibling
          /\ Finished(l.items[k]).entry.finished
          /\ ipv4_bucket_select(Finished(l.items[k]).entry) = ipv4_bucket_select(l.items[k].entry)
      BY <2>1, Finishes
    <3> QED
      BY <2>2, <3>1, <3>2
  <2>3. CASE k \notin closed
    BY <1>0, <2>3
  <2> QED
    BY <2>2, <2>3
<1>4. /\ m.items[n + 1].entry = e /\ m.items[n + 1].id = id /\ m.items[n + 1].seq = seq
      /\ m.items[n + 1].sibling = [at |-> n + 2, moves |-> 0] /\ m.items[n + 1].sibling.at = n + 2
      /\ m.items[n + 2].entry = Reverse(e) /\ m.items[n + 2].id = id /\ m.items[n + 2].seq = seq
      /\ m.items[n + 2].sibling = [at |-> n + 1, moves |-> 0] /\ m.items[n + 2].sibling.at = n + 1
  BY <1>0, SMTT(30)
<1>5. ASSUME NEW i \in 1..n PROVE Siblings(m, i, m.items[i].sibling.at, b) /\ m.items[i].sibling.at \in 1..n
  <2> DEFINE j == l.items[i].sibling.at
  <2>1. Siblings(l, i, j, b)
    BY <1>1 DEF InPairs
  <2> HIDE DEF j
  <2>2. /\ j \in 1..n /\ j # i /\ l.items[i].sibling = [at |-> j, moves |-> 0] /\ l.items[j].sibling = [at |-> i, moves |-> 0]
        /\ l.items[j].entry = Reverse(l.items[i].entry)
        /\ l.items[j].id = l.items[i].id /\ l.items[j].seq = l.items[i].seq
        /\ ipv4_bucket_select(l.items[i].entry) = b
    BY <1>1, <2>1 DEF Siblings
  <2>3. l.items[j].sibling.at = i /\ l.items[i].sibling.at = j
    BY <2>2
  <2>4. i \in closed <=> j \in closed
    BY <1>0, <2>3
  <2>5. m.items[j].entry = Reverse(m.items[i].entry)
    <3>1. CASE i \in closed
      <4>1. m.items[i] = Finished(l.items[i]) /\ m.items[j] = Finished(l.items[j])
        BY <1>0, <2>2, <2>4, <3>1
      <4>2. l.items[i] \in Items /\ l.items[j] \in Items
        BY <1>1, <2>2
      <4>3. Finished(l.items[j]).entry = Reverse(Finished(l.items[i]).entry)
        BY <2>2, <4>2, Finishes
      <4> QED
        BY <4>1, <4>3
    <3>2. CASE i \notin closed
      BY <1>3, <2>2, <2>4, <3>2
    <3> QED
      BY <3>1, <3>2
  <2>6. m.items[i].sibling = [at |-> j, moves |-> 0] /\ m.items[j].sibling = [at |-> i, moves |-> 0]
    BY <1>3, <2>2
  <2>7. m.items[j].id = m.items[i].id /\ m.items[j].seq = m.items[i].seq /\ ipv4_bucket_select(m.items[i].entry) = b
    BY <1>3, <2>2
  <2>8. m.items[i].sibling.at = j /\ j \in DOMAIN m.items
    BY <1>1, <2>2, <2>6
  <2> QED
    BY <2>2, <2>5, <2>6, <2>7, <2>8 DEF Siblings
<1>6. Siblings(m, n + 1, n + 2, b) /\ Siblings(m, n + 2, n + 1, b)
  <2>1. n + 1 # n + 2
    OBVIOUS
  <2> QED
    BY <1>1, <1>2, <1>4, <2>1 DEF Siblings
<1>7. ASSUME NEW i \in 1..(n + 2) PROVE Siblings(m, i, m.items[i].sibling.at, b)
  <2>1. CASE i \in 1..n
    BY <1>5, <2>1
  <2>2. CASE i = n + 1
    BY <1>4, <1>6, <2>2
  <2>3. CASE i = n + 2
    BY <1>4, <1>6, <2>3
  <2> QED
    BY <1>1, <2>1, <2>2, <2>3
<1>8. ASSUME NEW k \in 1..n, m.items[k].entry \in {e, Reverse(e)} PROVE FALSE
  <2>1. ~m.items[k].entry.finished
    BY <1>2, <1>8
  <2>2. k \notin closed /\ m.items[k] = l.items[k]
    BY <1>3, <2>1
  <2> QED
    BY <1>0, <1>1, <1>8, <2>2
<1>9. ASSUME NEW i \in 1..(n + 2), NEW k \in 1..(n + 2), ~m.items[i].entry.finished,
             m.items[k].entry \in {m.items[i].entry, Reverse(m.items[i].entry)}
      PROVE  k \in {i, m.items[i].sibling.at}
  <2>1. CASE i \in 1..n /\ k \in 1..n
    <3>1. i \notin closed /\ m.items[i] = l.items[i]
      BY <1>3, <1>9, <2>1
    <3>2. l.items[i].entry \in Entries
      BY <1>1, <2>1 DEF Items
    <3>3. ~m.items[k].entry.finished
      <4>1. ~l.items[i].entry.finished /\ ~Reverse(l.items[i].entry).finished
        BY <1>9, <3>1, <3>2, Reverses
      <4>2. m.items[k].entry \in {l.items[i].entry, Reverse(l.items[i].entry)}
        BY <1>9, <3>1
      <4> QED
        BY <4>1, <4>2
    <3>4. k \notin closed /\ m.items[k] = l.items[k]
      BY <1>3, <2>1, <3>3
    <3> QED
      BY <1>1, <1>9, <2>1, <3>1, <3>4 DEF InPairs
  <2>2. CASE i \in {n + 1, n + 2}
    <3>1. m.items[i].entry \in {e, Reverse(e)} /\ Reverse(m.items[i].entry) \in {e, Reverse(e)}
      BY <1>2, <1>4, <2>2
    <3>2. k \notin 1..n
      BY <1>8, <1>9, <3>1
    <3>3. k \in {n + 1, n + 2}
      BY <1>1, <3>2
    <3> QED
      BY <1>4, <2>2, <3>3
  <2>3. CASE i \in 1..n /\ k \in {n + 1, n + 2}
    <3>1. m.items[k].entry \in {e, Reverse(e)}
      BY <1>4, <2>3
    <3>2. m.items[i].entry \in Entries
      BY <1>0 DEF Items
    <3>3. m.items[i].entry \in {m.items[k].entry, Reverse(m.items[k].entry)}
      BY <1>9, <3>2, Reverses
    <3>4. m.items[i].entry \in {e, Reverse(e)}
      BY <1>2, <3>1, <3>3
    <3> QED
      BY <1>8, <2>3, <3>4
  <2> QED
    BY <1>1, <2>1, <2>2, <2>3
<1>10. InPairs(m, b)
  BY <1>1, <1>7, <1>9 DEF InPairs
<1>11. DOMAIN l.items = 1..n /\ DOMAIN m.items = 1..(n + 2)
  BY <1>1
<1>12. ASSUME NEW e2 \in OpenEntries, NEW id2, NEW seq2
       PROVE  (\E k \in DOMAIN m.items : m.items[k].entry = e2 /\ m.items[k].id = id2 /\ m.items[k].seq = seq2)
              <=> IF e2 \in {e, Reverse(e)} THEN id2 = id /\ seq2 = seq
                  ELSE \E k \in DOMAIN l.items : l.items[k].entry = e2 /\ l.items[k].id = id2 /\ l.items[k].seq = seq2
  <2>1. CASE e2 \in {e, Reverse(e)}
    <3>1. ASSUME NEW k \in 1..(n + 2), m.items[k].entry = e2 PROVE k \in {n + 1, n + 2}
      BY <1>1, <1>8, <2>1, <3>1
    <3>2. ASSUME NEW k \in 1..(n + 2), m.items[k].entry = e2 PROVE m.items[k].id = id /\ m.items[k].seq = seq
      BY <1>4, <3>1, <3>2
    <3>3. \E k \in 1..(n + 2) : m.items[k].entry = e2 /\ m.items[k].id = id /\ m.items[k].seq = seq
      BY <1>1, <1>4, <2>1
    <3> QED
      BY <1>11, <2>1, <3>2, <3>3
  <2>2. CASE e2 \notin {e, Reverse(e)}
    <3>1. ASSUME NEW k \in 1..(n + 2), m.items[k].entry = e2 PROVE k \in 1..n /\ m.items[k] = l.items[k]
      <4>1. k \in 1..n
        BY <1>1, <1>4, <2>2, <3>1
      <4>2. ~m.items[k].entry.finished
        BY <3>1 DEF OpenEntries
      <4> QED
        BY <1>3, <4>1, <4>2
    <3>2. ASSUME NEW k \in 1..n, l.items[k].entry = e2 PROVE m.items[k] = l.items[k] /\ k \in 1..(n + 2)
      <4>1. k \notin closed
        BY <1>0, <1>1, <2>2, <3>2
      <4> QED
        BY <1>1, <1>3, <4>1
    <3>3. ASSUME NEW k \in 1..(n + 2), m.items[k].entry = e2 /\ m.items[k].id = id2 /\ m.items[k].seq = seq2
          PROVE  \E i \in 1..n : l.items[i].entry = e2 /\ l.items[i].id = id2 /\ l.items[i].seq = seq2
      BY <3>1, <3>3
    <3>4. ASSUME NEW k \in 1..n, l.items[k].entry = e2 /\ l.items[k].id = id2 /\ l.items[k].seq = seq2
          PROVE  \E i \in 1..(n + 2) : m.items[i].entry = e2 /\ m.items[i].id = id2 /\ m.items[i].seq = seq2
      BY <3>2, <3>4
    <3> QED
      BY <1>11, <2>2, <3>3, <3>4
  <2> QED
    BY <2>1, <2>2
<1> QED
  BY <1>10, <1>12 DEF Listed, Gains

\* A list never moves back.
LEMMA PutMoves ==
    ASSUME NEW l, l.moves \in Nat, NEW e1, NEW e2, NEW id, NEW seq
    PROVE  PutPair(l, e1, e2, id, seq).moves \in Nat /\ PutPair(l, e1, e2, id, seq).moves >= l.moves
<1>1. ASSUME NEW k, k.moves \in Nat, NEW e
      PROVE  entry_put(k, e, id).moves \in Nat /\ entry_put(k, e, id).moves >= k.moves
  <2> DEFINE x == [entry |-> e, id |-> id, seq |-> 0, sibling |-> [at |-> 0, moves |-> 0]]
  <2>1. entry_put(k, e, id) = slist_put(k, x)
    BY DEF entry_put
  <2> HIDE DEF x
  <2>2. CASE Len(k.items) = k.capacity
    BY <1>1, <2>1, <2>2 DEF slist_put, slist_alloc
  <2>3. CASE Len(k.items) # k.capacity
    BY <1>1, <2>1, <2>3 DEF slist_put
  <2> QED
    BY <2>2, <2>3
<1> DEFINE k == entry_put(l, e1, id)
           q == entry_put(k, e2, id)
<1>2. k.moves \in Nat /\ k.moves >= l.moves
  BY <1>1
<1> HIDE DEF k
<1>3. q.moves \in Nat /\ q.moves >= k.moves
  BY <1>1, <1>2
<1>4. PutPair(l, e1, e2, id, seq).moves = q.moves
  BY DEF PutPair, q, k
<1> HIDE DEF q
<1> QED
  BY <1>2, <1>3, <1>4

\* A bucket gets another list.
LEMMA Opens ==
    ASSUME NEW c, Lists(c), NEW b \in Buckets, NEW q, q.moves \in Nat, q.moves >= c.list[b].moves
    PROVE  /\ Lists(Opened(c, b, q))
           /\ Still(Opened(c, b, q)) => Still(c) /\ q.moves = 0
           /\ Opened(c, b, q).counter = c.counter + 1
           /\ Opened(c, b, q).list[b] = q /\ \A a \in Buckets \ {b} : Opened(c, b, q).list[a] = c.list[a]
<1> DEFINE o == Opened(c, b, q)
           fn == c.list
<1>1. c.counter \in Nat /\ c.crashed \in BOOLEAN /\ \A a \in Buckets : c.list[a].moves \in Nat
  BY DEF Lists
<1>2. fn = [a \in Buckets |-> fn[a]]
  BY DEF Lists
<1>3. o = [list |-> [fn EXCEPT ![b] = q], counter |-> c.counter + 1, crashed |-> c.crashed]
  BY DEF Opened
<1> HIDE DEF o, fn
<1> DEFINE fo == [fn EXCEPT ![b] = q]
<1>4. fo = [a \in Buckets |-> fo[a]] /\ fo[b] = q /\ \A a \in Buckets \ {b} : fo[a] = fn[a]
  BY <1>2
<1> HIDE DEF fo
<1>5. o.list = fo /\ o.counter = c.counter + 1 /\ o.crashed = c.crashed
  BY <1>3 DEF fo
<1>6. \A a \in Buckets : o.list[a].moves \in Nat
  BY <1>1, <1>4, <1>5 DEF fn
<1>7. Lists(o)
  <2>1. o.list = [a \in Buckets |-> o.list[a]]
    BY <1>4, <1>5
  <2>2. o = [list |-> o.list, counter |-> o.counter, crashed |-> o.crashed]
    BY <1>3, <1>5 DEF fo
  <2> QED
    BY <1>1, <1>5, <1>6, <2>1, <2>2, SMTT(30) DEF Lists
<1>8. ASSUME Still(o) PROVE Still(c) /\ q.moves = 0
  <2>1. ~o.crashed /\ \A a \in Buckets : o.list[a].moves = 0
    BY <1>8 DEF Still
  <2>2. q.moves = 0
    BY <1>4, <1>5, <2>1
  <2>3. ASSUME NEW a \in Buckets PROVE c.list[a].moves = 0
    <3>1. CASE a = b
      BY <1>1, <2>2, <3>1
    <3>2. CASE a # b
      BY <1>4, <1>5, <2>1, <3>2 DEF fn
    <3> QED
      BY <3>1, <3>2
  <2>4. ~c.crashed
    BY <1>5, <2>1
  <2> QED
    BY <2>2, <2>3, <2>4 DEF Still
<1> QED
  BY <1>4, <1>5, <1>7, <1>8 DEF o, fn

\* What a call may leave: the same lists, another list in the packet's bucket, or a crash.
LEMMA Leaves ==
    ASSUME NEW c, Lists(c), NEW p, Readable(p), NEW o \in connection_id(c, p)
    PROVE  \/ o.c = c
           \/ o.c = Crashed(c)
           \/ \E q : /\ o.c = Opened(c, ipv4_bucket_select(p), q)
                     /\ q.moves \in Nat /\ q.moves >= c.list[ipv4_bucket_select(p)].moves
<1> DEFINE b == ipv4_bucket_select(p)
           l == c.list[b]
           i == slist_find(l, ipv4_forward(p))
           new == PutPair(l, ipv4_forward(p), ipv4_backward(p), c.counter + 1, IF p.tcp THEN p.seq ELSE 0)
           x == l.items[i]
           j == x.sibling.at
           m == PutPair(l, x.entry, l.items[j].entry, c.counter + 1, p.seq)
<1>1. b \in Buckets /\ l.moves \in Nat
  BY EntriesOf DEF Lists
<1>2. new.moves \in Nat /\ new.moves >= l.moves /\ m.moves \in Nat /\ m.moves >= l.moves
  <2> HIDE DEF l
  <2> QED
    BY <1>1, PutMoves
<1>3. Close(m, i, j).moves = m.moves
  <2> HIDE DEF m, i, j
  <2> QED
    BY DEF Close
<1>4. CASE ~(p.tcp \/ p.udp)
  BY <1>4 DEF connection_id
<1>5. CASE p.tcp \/ p.udp
  <2>1. o \in connection_id_search(c, b, p)
    BY <1>5 DEF connection_id
  <2>2. CASE i = 0
    <3>1. o = [c |-> Opened(c, b, new), id |-> c.counter + 1]
      BY <2>1, <2>2 DEF connection_id_search
    <3>2. o.c = Opened(c, b, new)
      BY <3>1
    <3> HIDE DEF new, l
    <3> QED
      BY <1>2, <3>2 DEF l
  <2>3. CASE i # 0
    <3>1. o \in connection_id_tcp_syn(c, b, i, p)
      BY <2>1, <2>3 DEF connection_id_search
    <3>2. \/ o = [c |-> c, id |-> x.id]
          \/ o = [c |-> Opened(c, b, Close(m, i, j)), id |-> c.counter + 1]
          \/ o = [c |-> Opened(c, b, m), id |-> c.counter + 1]
          \/ o = [c |-> Crashed(c), id |-> CONNECTION_ID_NONE]
      BY <3>1 DEF connection_id_tcp_syn
    <3> HIDE DEF m, i, j, l
    <3>3. o.c = c \/ o.c = Opened(c, b, Close(m, i, j)) \/ o.c = Opened(c, b, m) \/ o.c = Crashed(c)
      BY <3>2
    <3>4. /\ Close(m, i, j).moves \in Nat /\ Close(m, i, j).moves >= l.moves
      BY <1>2, <1>3
    <3> QED
      BY <1>2, <3>3, <3>4 DEF l
  <2> QED
    BY <2>2, <2>3
<1> QED
  BY <1>4, <1>5

\* The lists keep their shape, and a list that moved, or a crash, is not undone.
LEMMA ListsStay ==
    ASSUME NEW c, Lists(c), NEW p, Readable(p), NEW o \in connection_id(c, p)
    PROVE  Lists(o.c) /\ (Still(o.c) => Still(c))
<1>1. CASE o.c = c
  BY <1>1
<1>2. CASE o.c = Crashed(c)
  <2>1. /\ Crashed(c).list = c.list /\ Crashed(c).counter = c.counter /\ Crashed(c).crashed = TRUE
        /\ Crashed(c) = [list |-> c.list, counter |-> c.counter, crashed |-> TRUE]
    BY DEF Crashed
  <2>2. c.list = [b \in Buckets |-> c.list[b]]
    BY DEF Lists
  <2>3. /\ o.c = [list |-> (o.c).list, counter |-> (o.c).counter, crashed |-> (o.c).crashed]
        /\ (o.c).list = [b \in Buckets |-> (o.c).list[b]]
    BY <1>2, <2>1, <2>2
  <2>4. /\ \A b \in Buckets : (o.c).list[b].moves \in Nat
        /\ (o.c).counter \in Nat /\ (o.c).crashed \in BOOLEAN /\ (o.c).crashed
    BY <1>2, <2>1 DEF Lists
  <2>5. Lists(o.c)
    BY <2>3, <2>4 DEF Lists
  <2>6. ~Still(o.c)
    BY <2>4 DEF Still
  <2> QED
    BY <2>5, <2>6
<1>3. ASSUME NEW q, o.c = Opened(c, ipv4_bucket_select(p), q), q.moves \in Nat,
             q.moves >= c.list[ipv4_bucket_select(p)].moves
      PROVE  Lists(o.c) /\ (Still(o.c) => Still(c))
  <2>1. ipv4_bucket_select(p) \in Buckets
    BY EntriesOf
  <2> QED
    BY <1>3, <2>1, Opens, SMTT(30)
<1> QED
  BY <1>1, <1>2, <1>3, Leaves

-----------------------------------------------------------------------------
\* A packet of the open connection between its ends.
Stays(c, p, o) ==
    /\ o.c = c /\ o.id \in Nat
    /\ \E seq \in Int : Connected(c, ipv4_forward(p), o.id, seq) /\ ~(p.tcp /\ p.syn /\ ~p.ack /\ seq # p.seq)

\* The lists of o have the connections of those of c, and this one between ends e.
Adds(c, o, e, id, seq) ==
    \A e2 \in OpenEntries : \A id2, seq2 :
        Connected(o, e2, id2, seq2)
        <=> IF e2 \in {e, Reverse(e)} THEN id2 = id /\ seq2 = seq ELSE Connected(c, e2, id2, seq2)

\* A packet that begins one.
Begins(c, p, o) ==
    /\ o.id = c.counter + 1 /\ (o.c).counter = c.counter + 1
    /\ Adds(c, o.c, ipv4_forward(p), o.id, StartSeq(p))
    /\ \/ \A id, seq : ~Connected(c, ipv4_forward(p), id, seq)
       \/ /\ p.tcp /\ p.syn /\ ~p.ack
          /\ \E id \in Nat, seq \in Int : Connected(c, ipv4_forward(p), id, seq) /\ seq # p.seq

\* Between two ends there is one open connection.
LEMMA OneConnection ==
    ASSUME NEW c, Pairs(c), NEW e \in OpenEntries, NEW id1, NEW id2, NEW seq1, NEW seq2,
           Connected(c, e, id1, seq1), Connected(c, e, id2, seq2)
    PROVE  id1 = id2 /\ seq1 = seq2
<1> DEFINE b == ipv4_bucket_select(e)
           l == c.list[b]
<1>1. e \in Entries /\ ~e.finished /\ b \in Buckets
  BY Reverses DEF OpenEntries
<1>2. InPairs(l, b)
  BY <1>1 DEF Pairs
<1>3. PICK i \in DOMAIN l.items : l.items[i].entry = e /\ l.items[i].id = id1 /\ l.items[i].seq = seq1
  BY DEF Connected, Listed
<1>4. PICK k \in DOMAIN l.items : l.items[k].entry = e /\ l.items[k].id = id2 /\ l.items[k].seq = seq2
  BY DEF Connected, Listed
<1> HIDE DEF l, b
<1>5. k \in {i, l.items[i].sibling.at}
  <2>1. ~l.items[i].entry.finished /\ l.items[k].entry = l.items[i].entry
    BY <1>1, <1>3, <1>4
  <2> QED
    BY <1>2, <2>1 DEF InPairs
<1>6. Siblings(l, i, l.items[i].sibling.at, b)
  BY <1>2 DEF InPairs
<1>7. k # i => l.items[k].id = l.items[i].id /\ l.items[k].seq = l.items[i].seq
  BY <1>5, <1>6 DEF Siblings
<1> QED
  BY <1>3, <1>4, <1>7

\* A list in pairs with one more connection makes the lists have one more.
LEMMA Begun ==
    ASSUME NEW c, Lists(c), Pairs(c), NEW b \in Buckets, NEW q, q.moves \in Nat, q.moves >= c.list[b].moves,
           InPairs(q, b), NEW e0 \in OpenEntries, ipv4_bucket_select(e0) = b, NEW id0, NEW seq0,
           Gains(c.list[b], q, e0, id0, seq0)
    PROVE  /\ Pairs(Opened(c, b, q))
           /\ Adds(c, Opened(c, b, q), e0, id0, seq0)
<1> DEFINE o == Opened(c, b, q)
<1>1. o.list[b] = q /\ \A a \in Buckets \ {b} : o.list[a] = c.list[a]
  BY Opens, SMTT(30)
<1> HIDE DEF o
<1>2. Pairs(o)
  <2>1. ASSUME NEW a \in Buckets PROVE InPairs(o.list[a], a)
    <3>1. CASE a = b
      BY <1>1, <3>1
    <3>2. CASE a # b
      BY <1>1, <3>2 DEF Pairs
    <3> QED
      BY <3>1, <3>2
  <2> QED
    BY <2>1 DEF Pairs
<1>3. ASSUME NEW e \in OpenEntries, NEW id, NEW seq
      PROVE  Connected(o, e, id, seq)
             <=> IF e \in {e0, Reverse(e0)} THEN id = id0 /\ seq = seq0 ELSE Connected(c, e, id, seq)
  <2> DEFINE a == ipv4_bucket_select(e)
  <2>1. a \in Buckets
    BY Reverses DEF OpenEntries
  <2>2. e \in {e0, Reverse(e0)} => a = b
    BY Reverses DEF OpenEntries
  <2>3. CASE a = b
    <3>1. Connected(o, e, id, seq) <=> Listed(q, e, id, seq)
      BY <1>1, <2>3 DEF Connected
    <3>2. Connected(c, e, id, seq) <=> Listed(c.list[b], e, id, seq)
      BY <2>3 DEF Connected
    <3> QED
      BY <3>1, <3>2 DEF Gains
  <2>4. CASE a # b
    <3>1. o.list[a] = c.list[a]
      BY <1>1, <2>1, <2>4
    <3>2. Connected(o, e, id, seq) <=> Connected(c, e, id, seq)
      BY <3>1 DEF Connected
    <3> QED
      BY <2>2, <2>4, <3>2
  <2> QED
    BY <2>3, <2>4
<1> QED
  BY <1>2, <1>3 DEF o, Adds

\* The items of a list that did not move.
LEMMA AppendedItems ==
    ASSUME NEW l, NEW n \in Nat, l.items \in Seq(Items), NEW e \in Entries, NEW id \in Nat, NEW seq \in Int,
           NEW m, Appended(l, m, n, e, Reverse(e), id, seq), m.moves = 0
    PROVE  m.items \in [1..(n + 2) -> Items]
<1>1. Reverse(e) \in Entries
  BY Reverses
<1>2. m.items[n + 1] \in Items /\ m.items[n + 2] \in Items
  BY <1>1, PlacesBehind, SMTT(30) DEF Items, Appended
<1>3. m.items \in [1..(n + 2) -> Items \cup {m.items[n + 1], m.items[n + 2]}]
  BY DEF Appended
<1> QED
  BY <1>2, <1>3

\* A connection between new ends.
LEMMA NewEnds ==
    ASSUME NEW l, NEW b, InPairs(l, b), l.moves \in Nat, NEW e \in OpenEntries, ipv4_bucket_select(e) = b,
           NEW id \in Nat, NEW seq \in Int, \A k \in DOMAIN l.items : l.items[k].entry # e,
           NEW m, Appended(l, m, Len(l.items), e, Reverse(e), id, seq), m.moves = 0
    PROVE  InPairs(m, b) /\ Gains(l, m, e, id, seq)
<1> DEFINE n == Len(l.items)
           closed == {}
<1>1. l.items \in Seq(Items) /\ n \in Nat /\ DOMAIN l.items = 1..n
  BY SMTT(30) DEF InPairs
<1>2. e \in Entries /\ Reverse(Reverse(e)) = e
  BY Reverses DEF OpenEntries
<1>3. ASSUME NEW k \in DOMAIN l.items PROVE l.items[k].entry \in {e, Reverse(e)} <=> k \in closed
  <2>1. Siblings(l, k, l.items[k].sibling.at, b)
    BY DEF InPairs
  <2>2. \E j \in DOMAIN l.items : l.items[j].entry = Reverse(l.items[k].entry)
    BY <2>1 DEF Siblings
  <2> QED
    BY <1>2, <2>2
<1>4. closed \subseteq DOMAIN l.items /\ \A i \in closed : l.items[i].sibling.at \in closed
  OBVIOUS
<1>5. n = Len(l.items) /\ Appended(l, m, n, e, Reverse(e), id, seq)
  OBVIOUS
<1>6. \A k : k \notin closed
  OBVIOUS
<1> HIDE DEF n, closed
<1>7. m.items \in [1..(n + 2) -> Items]
  BY <1>1, <1>2, <1>5, AppendedItems
<1>8. Replaces(l, m, n, closed, e, id, seq)
  BY <1>3, <1>4, <1>5, <1>6, <1>7 DEF Replaces, Appended
<1> QED
  BY <1>1, <1>5, <1>8, PairsStay

\* What Close leaves of the items.
ClosesTo(m, q, n, i, j) ==
    /\ q.items \in [1..(n + 2) -> Items]
    /\ \A k \in 1..n : q.items[k] = IF k \in {i, j} THEN Finished(m.items[k]) ELSE m.items[k]
    /\ q.items[n + 1] = m.items[n + 1] /\ q.items[n + 2] = m.items[n + 2]

\* Close finishes two items.
LEMMA ClosesItems ==
    ASSUME NEW m, NEW n \in Nat, m.items \in [1..(n + 2) -> Items], NEW i \in 1..n, NEW j \in 1..n
    PROVE  ClosesTo(m, Close(m, i, j), n, i, j)
<1> DEFINE closed == {i, j}
           s == Close(m, i, j).items
<1>1. s = [k \in 1..(n + 2) |-> IF k \in closed THEN Finished(m.items[k]) ELSE m.items[k]]
  <2>1. DOMAIN m.items = 1..(n + 2)
    OBVIOUS
  <2>2. s = [k \in DOMAIN m.items |-> IF k \in {i, j} THEN Finished(m.items[k]) ELSE m.items[k]]
    BY DEF Close
  <2> QED
    BY <2>1, <2>2
<1>2. n + 1 \notin closed /\ n + 2 \notin closed
  BY PlacesBehind, SMTT(30)
<1> HIDE DEF s
<1>3. ASSUME NEW k \in 1..(n + 2) PROVE m.items[k] \in Items /\ Finished(m.items[k]) \in Items
  BY Finishes
<1> HIDE DEF closed
<1>4. s \in [1..(n + 2) -> Items]
  BY <1>1, <1>3
<1>5. s[n + 1] = m.items[n + 1] /\ s[n + 2] = m.items[n + 2]
  BY <1>1, <1>2, PlacesBehind
<1>6. \A k \in 1..n : s[k] = IF k \in closed THEN Finished(m.items[k]) ELSE m.items[k]
  BY <1>1, PlacesBehind
<1> QED
  BY <1>4, <1>5, <1>6 DEF s, closed, ClosesTo

\* A new connection between ends that have one, which is closed.
LEMMA NewAgain ==
    ASSUME NEW l, NEW b, InPairs(l, b), l.moves \in Nat, NEW i \in DOMAIN l.items, NEW e \in OpenEntries,
           l.items[i].entry = e, NEW j, j = l.items[i].sibling.at, NEW id \in Nat, NEW seq \in Int,
           NEW m, Appended(l, m, Len(l.items), e, Reverse(e), id, seq), m.moves = 0
    PROVE  InPairs(Close(m, i, j), b) /\ Gains(l, Close(m, i, j), e, id, seq)
<1> DEFINE n == Len(l.items)
           q == Close(m, i, j)
           closed == {i, j}
<1>1. l.items \in Seq(Items) /\ n \in Nat /\ DOMAIN l.items = 1..n
  BY SMTT(30) DEF InPairs
<1>2. e \in Entries /\ ~e.finished /\ Reverse(e) \in Entries /\ ~Reverse(e).finished /\ Reverse(Reverse(e)) = e
  BY Reverses DEF OpenEntries
<1>3. Siblings(l, i, j, b)
  BY DEF InPairs
<1>4. /\ j \in DOMAIN l.items /\ l.items[j].entry = Reverse(e) /\ l.items[j].sibling.at = i
      /\ ipv4_bucket_select(e) = b
  <2>1. /\ j \in DOMAIN l.items /\ l.items[j].entry = Reverse(l.items[i].entry)
        /\ l.items[j].sibling = [at |-> i, moves |-> 0] /\ ipv4_bucket_select(l.items[i].entry) = b
    BY <1>3 DEF Siblings
  <2> QED
    BY <2>1
<1>5. n = Len(l.items) /\ Appended(l, m, n, e, Reverse(e), id, seq) /\ i \in 1..n /\ j \in 1..n
  BY <1>1, <1>4
<1>6. closed \subseteq DOMAIN l.items /\ \A k \in closed : l.items[k].sibling.at \in closed
  BY <1>4
<1>7. ASSUME NEW k \in DOMAIN l.items PROVE l.items[k].entry \in {e, Reverse(e)} <=> k \in closed
  <2>1. k \in closed => l.items[k].entry \in {e, Reverse(e)}
    BY <1>4
  <2>2. ASSUME l.items[k].entry \in {e, Reverse(e)} PROVE k \in closed
    BY <1>2, <2>2 DEF InPairs
  <2> QED
    BY <2>1, <2>2
<1> HIDE DEF n
<1>8. m.items \in [1..(n + 2) -> Items]
  BY <1>1, <1>2, <1>5, AppendedItems
<1>a. ClosesTo(m, q, n, i, j)
  BY <1>1, <1>5, <1>8, ClosesItems
<1> HIDE DEF q
<1>9. /\ q.items \in [1..(n + 2) -> Items]
      /\ \A k \in 1..n : q.items[k] = IF k \in {i, j} THEN Finished(m.items[k]) ELSE m.items[k]
      /\ q.items[n + 1] = m.items[n + 1] /\ q.items[n + 2] = m.items[n + 2]
  BY <1>a DEF ClosesTo
<1>10. ASSUME NEW k \in 1..n PROVE q.items[k] = IF k \in closed THEN Finished(l.items[k]) ELSE l.items[k]
  <2>1. m.items[k] = l.items[k]
    BY <1>5 DEF Appended
  <2> QED
    BY <1>9, <2>1
<1>11. /\ q.items[n + 1] = [entry |-> e, id |-> id, seq |-> seq, sibling |-> [at |-> n + 2, moves |-> 0]]
       /\ q.items[n + 2] = [entry |-> Reverse(e), id |-> id, seq |-> seq, sibling |-> [at |-> n + 1, moves |-> 0]]
  BY <1>5, <1>9 DEF Appended
<1> HIDE DEF closed
<1>12. Replaces(l, q, n, closed, e, id, seq)
  BY <1>6, <1>7, <1>9, <1>10, <1>11 DEF Replaces
<1>13. InPairs(q, b) /\ Gains(l, q, e, id, seq)
  BY <1>1, <1>4, <1>5, <1>12, PairsStay
<1> QED
  BY <1>13 DEF q

\* What the call tells of a packet, as long as no list moves.
LEMMA Outcomes ==
    ASSUME NEW c, Lists(c), Pairs(c), NEW p, Readable(p), NEW o \in connection_id(c, p), Still(o.c)
    PROVE  /\ Pairs(o.c)
           /\ \/ ~(p.tcp \/ p.udp) /\ o.c = c /\ o.id = CONNECTION_ID_NONE
              \/ (p.tcp \/ p.udp) /\ Stays(c, p, o)
              \/ (p.tcp \/ p.udp) /\ Begins(c, p, o)
<1> DEFINE b == ipv4_bucket_select(p)
           l == c.list[b]
           e == ipv4_forward(p)
           i == slist_find(l, e)
           id == c.counter + 1
           seq == StartSeq(p)
           new == PutPair(l, e, Reverse(e), id, seq)
           x == l.items[i]
           j == x.sibling.at
           m == PutPair(l, x.entry, l.items[j].entry, id, p.seq)
<1>1. /\ e \in OpenEntries /\ e \in Entries /\ Reverse(e) \in Entries /\ ipv4_backward(p) = Reverse(e)
      /\ b \in Buckets /\ ipv4_bucket_select(e) = b
  BY EntriesOf, Reverses DEF OpenEntries
<1>2. l.moves \in Nat /\ InPairs(l, b) /\ id \in Nat
  BY <1>1, SMTT(30) DEF Lists, Pairs
<1>3. p.tcp \in BOOLEAN /\ p.udp \in BOOLEAN /\ p.syn \in BOOLEAN /\ p.ack \in BOOLEAN /\ p.seq \in Int /\ seq \in Int
  BY SMTT(30) DEF Readable, StartSeq
<1> HIDE DEF b, l, e, i, id, seq, new, x, j, m
<1>4. CASE ~(p.tcp \/ p.udp)
  <2>1. o = [c |-> c, id |-> CONNECTION_ID_NONE]
    BY <1>4 DEF connection_id
  <2>2. o.c = c /\ o.id = CONNECTION_ID_NONE
    BY <2>1
  <2> QED
    BY <1>4, <2>2
<1>5. CASE p.tcp \/ p.udp
  <2>1. o \in connection_id_search(c, b, p)
    BY <1>5 DEF connection_id, b
  <2>2. l.items \in Seq(Items)
    BY <1>2 DEF InPairs
  <2>3. \/ i \in DOMAIN l.items /\ i # 0 /\ x.entry = e
        \/ i = 0 /\ \A k \in DOMAIN l.items : l.items[k].entry # e
    BY <2>2, Finds DEF i, x
  <2>4. CASE i = 0
    <3>1. \A k \in DOMAIN l.items : l.items[k].entry # e
      BY <2>3, <2>4
    <3>2. o = [c |-> Opened(c, b, new), id |-> id]
      BY <1>1, <2>1, <2>4 DEF connection_id_search, StartSeq, i, l, e, id, seq, new
    <3>3. o.c = Opened(c, b, new) /\ o.id = id
      BY <3>2
    <3>4. Appended(l, new, Len(l.items), e, Reverse(e), id, seq) /\ new.moves \in Nat /\ new.moves >= l.moves
      BY <1>1, <1>2, <1>3, <2>2, PutsPair, PutMoves DEF new
    <3>5. new.moves = 0 /\ Opened(c, b, new).counter = c.counter + 1
      <4>1. new.moves \in Nat /\ new.moves >= c.list[b].moves /\ Still(Opened(c, b, new))
        BY <3>3, <3>4 DEF l
      <4> QED
        BY <1>1, <4>1, Opens, SMTT(30)
    <3>6. InPairs(new, b) /\ Gains(l, new, e, id, seq)
      BY <1>1, <1>2, <1>3, <3>1, <3>4, <3>5, NewEnds
    <3>7. Pairs(o.c) /\ Adds(c, o.c, e, id, seq)
      BY <1>1, <3>3, <3>4, <3>6, Begun DEF l
    <3>8. \A id2, seq2 : ~Connected(c, e, id2, seq2)
      BY <1>1, <3>1 DEF Connected, Listed, l
    <3>9. Begins(c, p, o)
      <4>1. o.id = c.counter + 1 /\ (o.c).counter = c.counter + 1
        BY <3>3, <3>5 DEF id
      <4> QED
        BY <1>1, <3>3, <3>7, <3>8, <4>1 DEF Begins, e, seq
    <3> QED
      BY <1>5, <3>7, <3>9
  <2>5. CASE i # 0
    <3>1. i \in DOMAIN l.items /\ x.entry = e
      BY <2>3, <2>5
    <3>2. o \in connection_id_tcp_syn(c, b, i, p)
      BY <2>1, <2>5 DEF connection_id_search, i, l, e
    <3>3. Siblings(l, i, j, b)
      BY <1>2, <3>1 DEF InPairs, j, x
    <3>4. x.sibling = [at |-> j, moves |-> 0] /\ l.items[j].entry = Reverse(x.entry)
      BY <3>3 DEF Siblings, x
    <3>5. x.sibling.moves = 0 /\ l.items[j].entry = Reverse(e) /\ x.id \in Nat /\ x.seq \in Int
      <4>1. x \in Items
        BY <2>2, <3>1 DEF x
      <4> QED
        BY <3>1, <3>4, <4>1, SMTT(30) DEF Items
    <3>6. Connected(c, e, x.id, x.seq)
      BY <1>1, <3>1 DEF Connected, Listed, l, x
    <3>7. CASE ~NewSyn(x, p)
      <4>1. o = [c |-> c, id |-> x.id]
        BY <3>2, <3>7 DEF connection_id_tcp_syn, l, x
      <4>2. o.c = c /\ o.id = x.id
        BY <4>1
      <4>3. ~(p.tcp /\ p.syn /\ ~p.ack /\ x.seq # p.seq)
        BY <3>7 DEF NewSyn
      <4>4. Stays(c, p, o)
        BY <3>5, <3>6, <4>2, <4>3 DEF Stays, e
      <4> QED
        BY <1>5, <4>2, <4>4
    <3>8. CASE NewSyn(x, p)
      <4>1. p.tcp /\ p.syn /\ ~p.ack /\ x.seq # p.seq /\ seq = p.seq
        BY <3>8 DEF NewSyn, StartSeq, seq
      <4>2. m = new
        BY <3>1, <3>5, <4>1 DEF m, new
      <4>3. \/ o = [c |-> Opened(c, b, Close(m, i, j)), id |-> id]
            \/ m.moves # x.sibling.moves /\ o = [c |-> Opened(c, b, m), id |-> id]
            \/ o = [c |-> Crashed(c), id |-> CONNECTION_ID_NONE]
        BY <3>2, <3>8 DEF connection_id_tcp_syn, l, x, j, m, id
      <4>4. \/ o.c = Opened(c, b, Close(m, i, j)) /\ o.id = id
            \/ m.moves # 0 /\ o.c = Opened(c, b, m)
            \/ o.c = Crashed(c)
        BY <3>5, <4>3
      <4>5. o.c # Crashed(c)
        BY DEF Still, Crashed
      <4>6. Appended(l, new, Len(l.items), e, Reverse(e), id, seq) /\ new.moves \in Nat /\ new.moves >= l.moves
        BY <1>1, <1>2, <1>3, <2>2, PutsPair, PutMoves DEF new
      <4>7. ~(m.moves # 0 /\ o.c = Opened(c, b, m))
        <5>1. m.moves \in Nat /\ m.moves >= c.list[b].moves
          BY <4>2, <4>6 DEF l
        <5> QED
          BY <1>1, <5>1, Opens, SMTT(30)
      <4>8. o.c = Opened(c, b, Close(m, i, j)) /\ o.id = id
        BY <4>4, <4>5, <4>7
      <4>9. Close(m, i, j).moves = m.moves
        BY DEF Close
      <4>10. m.moves = 0 /\ Opened(c, b, Close(m, i, j)).counter = c.counter + 1
        <5> DEFINE q == Close(m, i, j)
        <5>1. q.moves = m.moves /\ q.moves \in Nat /\ q.moves >= c.list[b].moves /\ Still(Opened(c, b, q))
          BY <4>2, <4>6, <4>8, <4>9 DEF l
        <5> HIDE DEF q
        <5>2. q.moves = 0 /\ Opened(c, b, q).counter = c.counter + 1
          BY <1>1, <5>1, Opens, SMTT(30)
        <5> QED
          BY <5>1, <5>2 DEF q
      <4>11. j = l.items[i].sibling.at /\ l.items[i].entry = e
        BY <3>1 DEF j, x
      <4>12. InPairs(Close(m, i, j), b) /\ Gains(l, Close(m, i, j), e, id, seq)
        BY <1>1, <1>2, <1>3, <3>1, <4>2, <4>6, <4>10, <4>11, NewAgain
      <4>13. Pairs(o.c) /\ Adds(c, o.c, e, id, seq)
        <5> DEFINE q == Close(m, i, j)
        <5>1. /\ q.moves \in Nat /\ q.moves >= c.list[b].moves /\ InPairs(q, b)
              /\ Gains(c.list[b], q, e, id, seq) /\ o.c = Opened(c, b, q)
          BY <4>2, <4>6, <4>8, <4>9, <4>12 DEF l
        <5> HIDE DEF q
        <5> QED
          BY <1>1, <5>1, Begun
      <4>14. Begins(c, p, o)
        <5>1. o.id = c.counter + 1 /\ (o.c).counter = c.counter + 1
          BY <4>8, <4>10 DEF id
        <5>2. \E id2 \in Nat, seq2 \in Int : Connected(c, e, id2, seq2) /\ seq2 # p.seq
          BY <3>5, <3>6, <4>1
        <5> QED
          BY <1>1, <4>1, <4>8, <4>13, <5>1, <5>2 DEF Begins, e, seq
      <4> QED
        BY <1>5, <4>13, <4>14
    <3> QED
      BY <3>7, <3>8
  <2> QED
    BY <2>4, <2>5
<1> QED
  BY <1>4, <1>5

\* capshow asks twice for a packet it shows: the second answer is the first.
LEMMA AskedTwice ==
    ASSUME NEW c, Lists(c), Pairs(c), NEW p, Readable(p), NEW o \in connection_id(c, p),
           NEW again \in connection_id(o.c, p), Still(again.c)
    PROVE  Still(o.c) /\ again.c = o.c /\ again.id = o.id
<1> DEFINE e == ipv4_forward(p)
           k == o.c
<1>1. Lists(k) /\ Still(k)
  BY ListsStay
<1>2. e \in OpenEntries /\ p.tcp \in BOOLEAN /\ p.syn \in BOOLEAN /\ p.ack \in BOOLEAN
  BY EntriesOf DEF Readable
<1>3. /\ Pairs(k)
      /\ \/ ~(p.tcp \/ p.udp) /\ o.id = CONNECTION_ID_NONE
         \/ (p.tcp \/ p.udp) /\ Stays(c, p, o)
         \/ (p.tcp \/ p.udp) /\ Begins(c, p, o)
  BY <1>1, Outcomes
<1> HIDE DEF k
<1>4. again \in connection_id(k, p)
  BY DEF k
<1>5. \/ ~(p.tcp \/ p.udp) /\ again.c = k /\ again.id = CONNECTION_ID_NONE
      \/ (p.tcp \/ p.udp) /\ Stays(k, p, again)
      \/ (p.tcp \/ p.udp) /\ Begins(k, p, again)
  BY <1>1, <1>3, <1>4, Outcomes
<1>6. CASE ~(p.tcp \/ p.udp)
  BY <1>1, <1>3, <1>5, <1>6 DEF k
<1>7. CASE p.tcp \/ p.udp
  <2>1. \E seq : Connected(k, e, o.id, seq) /\ ~(p.tcp /\ p.syn /\ ~p.ack /\ seq # p.seq)
    <3>1. CASE Stays(c, p, o)
      BY <3>1 DEF Stays, k
    <3>2. CASE Begins(c, p, o)
      <4>1. Adds(c, k, e, o.id, StartSeq(p))
        BY <3>2 DEF Begins, k
      <4>2. Connected(k, e, o.id, StartSeq(p))
        BY <1>2, <4>1 DEF Adds
      <4>3. p.tcp => StartSeq(p) = p.seq
        BY DEF StartSeq
      <4> QED
        BY <4>2, <4>3
    <3> QED
      BY <1>3, <1>7, <3>1, <3>2
  <2>2. PICK seq : Connected(k, e, o.id, seq) /\ ~(p.tcp /\ p.syn /\ ~p.ack /\ seq # p.seq)
    BY <2>1
  <2>3. ~Begins(k, p, again)
    <3>1. ASSUME NEW id2, NEW seq2, Connected(k, e, id2, seq2) PROVE seq2 = seq
      BY <1>2, <1>3, <2>2, <3>1, OneConnection
    <3> QED
      BY <2>2, <3>1 DEF Begins
  <2>4. again.c = k /\ \E seq2 : Connected(k, e, again.id, seq2)
    BY <1>5, <1>7, <2>3 DEF Stays
  <2>5. again.id = o.id
    BY <1>2, <1>3, <2>2, <2>4, OneConnection
  <2> QED
    BY <1>1, <2>4, <2>5 DEF k
<1> QED
  BY <1>6, <1>7

\* The packets before it between the same ends.
LEMMA EndsMatch ==
    ASSUME NEW p, Readable(p), NEW q, Readable(q), p.tcp \/ p.udp
    PROVE  SameEnds(q, p) <=> ipv4_forward(p) \in EndsOf(q)
<1>1. /\ ipv4_backward(p) = Reverse(ipv4_forward(p)) /\ ipv4_forward(p) = Reverse(ipv4_backward(p))
      /\ ipv4_backward(q) = Reverse(ipv4_forward(q)) /\ ipv4_forward(q) = Reverse(ipv4_backward(q))
  BY EntriesOf
<1> QED
  BY <1>1 DEF SameEnds, EndsOf

\* IdBelongs where the lines of the connection are known.
LEMMA BelongsAfter ==
    ASSUME NEW S, NEW ls \in Seq(S), \A k \in DOMAIN ls : Readable(ls[k].pkt), NEW line, Readable(line.pkt),
           line.pkt.tcp \/ line.pkt.udp, NEW id, NEW seq, NEW first \in DOMAIN ls, NEW last \in DOMAIN ls,
           Spans(ls, ipv4_forward(line.pkt), id, seq, first, last),
           IF line.pkt.tcp /\ line.pkt.syn /\ ~line.pkt.ack /\ line.pkt.seq # seq
           THEN \A i \in DOMAIN ls : ls[i].id # line.id ELSE line.id = id
    PROVE  IdBelongs(ls, line)
<1> DEFINE p == line.pkt
           e == ipv4_forward(p)
           before == {i \in DOMAIN ls : SameEnds(ls[i].pkt, p)}
           latest(i) == \A k \in before : k <= i
           la == CHOOSE i \in before : latest(i)
           starts(i) == ls[i].id = ls[la].id /\ \A k \in before : ls[k].id = ls[la].id => i <= k
           st == CHOOSE i \in before : starts(i)
<1>1. \A k \in DOMAIN ls : k \in Nat
  OBVIOUS
<1>2. \A k \in DOMAIN ls : k \in before <=> e \in EndsOf(ls[k].pkt)
  BY EndsMatch
<1>3. /\ e \in EndsOf(ls[first].pkt) /\ ls[first].id = id /\ StartSeq(ls[first].pkt) = seq
      /\ e \in EndsOf(ls[last].pkt) /\ ls[last].id = id
      /\ \A k \in DOMAIN ls : e \in EndsOf(ls[k].pkt) => k <= last /\ (ls[k].id = id => first <= k)
  BY DEF Spans
<1> HIDE DEF e
<1>4. before \subseteq DOMAIN ls /\ first \in before /\ last \in before
  BY <1>2, <1>3
<1>5. latest(last)
  BY <1>2, <1>3
<1>6. \A k \in before : k \in Nat
  BY <1>1, <1>4
<1> HIDE DEF before
<1>7. la \in before /\ latest(la)
  <2> HIDE DEF latest
  <2> QED
    BY <1>4, <1>5
<1>8. la = last
  <2>1. la <= last /\ last <= la
    BY <1>4, <1>5, <1>7
  <2> HIDE DEF la
  <2> QED
    BY <1>4, <1>6, <1>7, <2>1
<1> HIDE DEF la
<1>9. starts(first)
  BY <1>2, <1>3, <1>4, <1>8
<1>10. st \in before /\ starts(st)
  <2> HIDE DEF starts
  <2> QED
    BY <1>4, <1>9
<1>11. st = first
  <2> HIDE DEF st
  <2>1. ls[st].id = id /\ st <= first
    BY <1>3, <1>4, <1>8, <1>10
  <2>2. first <= st
    BY <1>2, <1>3, <1>4, <1>10, <2>1
  <2> QED
    BY <1>4, <1>6, <1>10, <2>1, <2>2
<1>12. IdBelongs(ls, line) <=>
          IF ~(p.tcp \/ p.udp) THEN line.id = CONNECTION_ID_NONE
          ELSE IF before = {} \/ (p.tcp /\ p.syn /\ ~p.ack /\ p.seq # StartSeq(ls[st].pkt))
          THEN \A i \in DOMAIN ls : ls[i].id # line.id
          ELSE line.id = ls[la].id
  BY DEF IdBelongs, before, la
<1> HIDE DEF st
<1>13. before # {} /\ StartSeq(ls[st].pkt) = seq /\ ls[la].id = id
  BY <1>3, <1>4, <1>8, <1>11
<1> QED
  BY <1>12, <1>13

\* A line between other ends changes nothing for these.
LEMMA OtherEnds ==
    ASSUME NEW ls, NEW more, NEW line, Longer(ls, more, line), NEW e, e \notin EndsOf(line.pkt), NEW id, NEW seq,
           NEW first \in DOMAIN ls, NEW last \in DOMAIN ls, Spans(ls, e, id, seq, first, last)
    PROVE  first \in DOMAIN more /\ last \in DOMAIN more /\ Spans(more, e, id, seq, first, last)
BY DEF Longer, Spans

\* A line more of the connection is its last.
LEMMA SameConnection ==
    ASSUME NEW ls, NEW more, NEW line, Longer(ls, more, line), NEW e, e \in EndsOf(line.pkt), NEW id, line.id = id,
           NEW seq, NEW first \in DOMAIN ls, NEW last \in DOMAIN ls, Spans(ls, e, id, seq, first, last)
    PROVE  first \in DOMAIN more /\ Len(ls) + 1 \in DOMAIN more /\ Spans(more, e, id, seq, first, Len(ls) + 1)
BY DEF Longer, Spans

\* The first line of a connection.
LEMMA FirstLine ==
    ASSUME NEW ls, NEW more, NEW line, Longer(ls, more, line), NEW e, e \in EndsOf(line.pkt),
           \A k \in DOMAIN ls : ls[k].id # line.id
    PROVE  /\ Len(ls) + 1 \in DOMAIN more
           /\ Spans(more, e, line.id, StartSeq(line.pkt), Len(ls) + 1, Len(ls) + 1)
BY DEF Longer, Spans

\* Both directions of a connection are listed.
LEMMA BothDirections ==
    ASSUME NEW c, Pairs(c), NEW e \in OpenEntries, NEW id, NEW seq, Connected(c, e, id, seq)
    PROVE  Connected(c, Reverse(e), id, seq)
<1> DEFINE b == ipv4_bucket_select(e)
           l == c.list[b]
<1>1. e \in Entries /\ b \in Buckets /\ ipv4_bucket_select(Reverse(e)) = b
  BY Reverses DEF OpenEntries
<1>2. InPairs(l, b)
  BY <1>1 DEF Pairs
<1>3. PICK i \in DOMAIN l.items : l.items[i].entry = e /\ l.items[i].id = id /\ l.items[i].seq = seq
  BY DEF Connected, Listed
<1>4. Siblings(l, i, l.items[i].sibling.at, b)
  BY <1>2 DEF InPairs
<1> HIDE DEF l, b
<1>5. Listed(l, Reverse(e), id, seq)
  BY <1>3, <1>4 DEF Siblings, Listed
<1> QED
  BY <1>1, <1>5 DEF Connected, l

\* A line of the open connection between its ends.
LEMMA LineStays ==
    ASSUME NEW c, Lists(c), Pairs(c), NEW S, NEW ls \in Seq(S), NEW line \in S, Recorded(c, ls), Readable(line.pkt),
           line.pkt.tcp \/ line.pkt.udp, NEW o, Stays(c, line.pkt, o), line.id = o.id
    PROVE  Recorded(c, Append(ls, line)) /\ IdBelongs(ls, line)
<1> DEFINE p == line.pkt
           e == ipv4_forward(p)
           more == Append(ls, line)
<1>0. Longer(ls, more, line)
  BY OneMore
<1>1. e \in OpenEntries /\ Reverse(e) \in OpenEntries /\ EndsOf(p) = {e, Reverse(e)}
  BY EntriesOf DEF EndsOf
<1>2. PICK seq \in Int : Connected(c, e, o.id, seq) /\ ~(p.tcp /\ p.syn /\ ~p.ack /\ seq # p.seq)
  BY DEF Stays
<1>3. o.id \in Nat
  BY DEF Stays
<1>4. Connected(c, Reverse(e), o.id, seq)
  BY <1>1, <1>2, BothDirections
<1>5. PICK first, last \in DOMAIN ls : Spans(ls, e, o.id, seq, first, last)
  BY <1>1, <1>2, <1>3 DEF Recorded
<1>6. IdBelongs(ls, line)
  <2>1. \A k \in DOMAIN ls : Readable(ls[k].pkt)
    BY DEF Recorded
  <2>2. ~(p.tcp /\ p.syn /\ ~p.ack /\ p.seq # seq)
    BY <1>2
  <2> QED
    BY <1>5, <2>1, <2>2, BelongsAfter
<1> HIDE DEF more
<1>7. line.id \in 0..c.counter
  <2>1. ls[last].id = o.id /\ ls[last].id \in 0..c.counter
    BY <1>5 DEF Spans, Recorded
  <2> QED
    BY <2>1
<1>8. \A k \in DOMAIN more : Readable(more[k].pkt) /\ more[k].id \in 0..c.counter
  BY <1>0, <1>7 DEF Longer, Recorded
<1> HIDE DEF e
<1>9. ASSUME NEW k \in DOMAIN more, NEW e2 \in EndsOf(more[k].pkt)
      PROVE  \E id \in Nat, sq \in Int : Connected(c, e2, id, sq)
  <2>1. CASE k \in DOMAIN ls
    BY <1>0, <2>1 DEF Longer, Recorded
  <2>2. CASE k = Len(ls) + 1
    <3>1. e2 \in {e, Reverse(e)}
      BY <1>0, <1>1, <2>2 DEF Longer
    <3> QED
      BY <1>2, <1>3, <1>4, <3>1
  <2> QED
    BY <1>0, <2>1, <2>2 DEF Longer
<1>10. ASSUME NEW e2 \in OpenEntries, NEW id2 \in Nat, NEW seq2 \in Int, Connected(c, e2, id2, seq2)
       PROVE  \E f, l \in DOMAIN more : Spans(more, e2, id2, seq2, f, l)
  <2>1. PICK f, l \in DOMAIN ls : Spans(ls, e2, id2, seq2, f, l)
    BY <1>10 DEF Recorded
  <2>2. CASE e2 \in EndsOf(p)
    <3>1. id2 = o.id
      <4>1. Connected(c, e2, o.id, seq)
        BY <1>1, <1>2, <1>4, <2>2
      <4> QED
        BY <1>10, <4>1, OneConnection
    <3> QED
      BY <1>0, <2>1, <2>2, <3>1, SameConnection
  <2>3. CASE e2 \notin EndsOf(p)
    BY <1>0, <2>1, <2>3, OtherEnds, SMTT(30)
  <2> QED
    BY <2>2, <2>3
<1> QED
  BY <1>6, <1>8, <1>9, <1>10 DEF Recorded, more

\* A line that begins a connection.
LEMMA LineBegins ==
    ASSUME NEW c, Lists(c), Pairs(c), NEW S, NEW ls \in Seq(S), NEW line \in S, Recorded(c, ls), Readable(line.pkt),
           line.pkt.tcp \/ line.pkt.udp, NEW o, Begins(c, line.pkt, o), line.id = o.id
    PROVE  Recorded(o.c, Append(ls, line)) /\ IdBelongs(ls, line)
<1> DEFINE p == line.pkt
           e == ipv4_forward(p)
           more == Append(ls, line)
           k2 == o.c
<1>0. Longer(ls, more, line)
  BY OneMore
<1>1. e \in OpenEntries /\ Reverse(e) \in OpenEntries /\ EndsOf(p) = {e, Reverse(e)}
  BY EntriesOf DEF EndsOf
<1>2. line.id = c.counter + 1 /\ k2.counter = c.counter + 1 /\ c.counter \in Nat
  BY DEF Begins, Lists
<1>3. Adds(c, k2, e, line.id, StartSeq(p))
  BY DEF Begins
<1>4. StartSeq(p) \in Int /\ p.seq \in Int
  BY DEF StartSeq, Readable
<1>5. \A k \in DOMAIN ls : Readable(ls[k].pkt) /\ ls[k].id \in 0..c.counter
  BY DEF Recorded
<1>6. \A k \in DOMAIN ls : ls[k].id # line.id
  BY <1>2, <1>5
<1>7. IdBelongs(ls, line)
  <2>1. CASE \A id, seq : ~Connected(c, e, id, seq)
    <3>1. ASSUME NEW k \in DOMAIN ls PROVE ~SameEnds(ls[k].pkt, p)
      <4>1. e \notin EndsOf(ls[k].pkt)
        BY <2>1 DEF Recorded
      <4> QED
        BY <1>5, <4>1, EndsMatch
    <3>2. {k \in DOMAIN ls : SameEnds(ls[k].pkt, p)} = {}
      BY <3>1
    <3> QED
      BY <1>6, <3>2 DEF IdBelongs
  <2>2. CASE /\ p.tcp /\ p.syn /\ ~p.ack
             /\ \E id \in Nat, seq \in Int : Connected(c, e, id, seq) /\ seq # p.seq
    <3>1. PICK id \in Nat, seq \in Int : Connected(c, e, id, seq) /\ seq # p.seq
      BY <2>2
    <3>2. PICK first, last \in DOMAIN ls : Spans(ls, e, id, seq, first, last)
      BY <1>1, <3>1 DEF Recorded
    <3>3. p.tcp /\ p.syn /\ ~p.ack /\ p.seq # seq
      BY <2>2, <3>1
    <3> QED
      BY <1>5, <1>6, <3>2, <3>3, BelongsAfter
  <2> QED
    BY <2>1, <2>2 DEF Begins
<1> HIDE DEF more, k2, e
<1>8. \A k \in DOMAIN more : Readable(more[k].pkt) /\ more[k].id \in 0..k2.counter
  BY <1>0, <1>2, <1>5, SMTT(30) DEF Longer
<1>9. ASSUME NEW k \in DOMAIN more, NEW e2 \in EndsOf(more[k].pkt)
      PROVE  \E id \in Nat, sq \in Int : Connected(k2, e2, id, sq)
  <2>0. Readable(more[k].pkt)
    BY <1>8
  <2>1. e2 \in OpenEntries
    BY <2>0, EntriesOf DEF EndsOf
  <2>2. CASE e2 \in {e, Reverse(e)}
    <3>1. Connected(k2, e2, line.id, StartSeq(p))
      BY <1>3, <2>1, <2>2 DEF Adds
    <3> QED
      BY <1>2, <1>4, <3>1
  <2>3. CASE e2 \notin {e, Reverse(e)}
    <3>1. k \in DOMAIN ls /\ more[k] = ls[k]
      BY <1>0, <1>1, <2>3 DEF Longer
    <3>2. PICK id \in Nat, sq \in Int : Connected(c, e2, id, sq)
      BY <3>1 DEF Recorded
    <3>3. Connected(k2, e2, id, sq)
      BY <1>3, <2>1, <2>3, <3>2 DEF Adds
    <3> QED
      BY <3>3
  <2> QED
    BY <2>2, <2>3
<1>10. ASSUME NEW e2 \in OpenEntries, NEW id2 \in Nat, NEW seq2 \in Int, Connected(k2, e2, id2, seq2)
       PROVE  \E f, l \in DOMAIN more : Spans(more, e2, id2, seq2, f, l)
  <2>1. CASE e2 \in EndsOf(p)
    <3>1. id2 = line.id /\ seq2 = StartSeq(p)
      BY <1>1, <1>3, <1>10, <2>1 DEF Adds
    <3> QED
      BY <1>0, <1>6, <2>1, <3>1, FirstLine
  <2>2. CASE e2 \notin EndsOf(p)
    <3>1. Connected(c, e2, id2, seq2)
      BY <1>1, <1>3, <1>10, <2>2 DEF Adds
    <3>2. PICK f, l \in DOMAIN ls : Spans(ls, e2, id2, seq2, f, l)
      BY <3>1 DEF Recorded
    <3> QED
      BY <1>0, <2>2, <3>2, OtherEnds
  <2> QED
    BY <2>1, <2>2
<1> QED
  BY <1>7, <1>8, <1>9, <1>10 DEF Recorded, more, k2

\* Whatever the packet, its line goes to the connection it belongs to.
LEMMA LineBelongs ==
    ASSUME NEW c, Lists(c), Pairs(c), NEW S, NEW ls \in Seq(S), NEW line \in S, Recorded(c, ls), Readable(line.pkt),
           NEW o \in connection_id(c, line.pkt), Still(o.c), line.id = o.id
    PROVE  Pairs(o.c) /\ Recorded(o.c, Append(ls, line)) /\ IdBelongs(ls, line)
<1> DEFINE p == line.pkt
           more == Append(ls, line)
<1>1. /\ Pairs(o.c)
      /\ \/ ~(p.tcp \/ p.udp) /\ o.c = c /\ o.id = CONNECTION_ID_NONE
         \/ (p.tcp \/ p.udp) /\ Stays(c, p, o)
         \/ (p.tcp \/ p.udp) /\ Begins(c, p, o)
  BY Outcomes
<1>2. CASE ~(p.tcp \/ p.udp)
  <2>0. o.c = c /\ line.id = CONNECTION_ID_NONE
    BY <1>1, <1>2
  <2>1. IdBelongs(ls, line)
    BY <1>2, <2>0 DEF IdBelongs
  <2>2. Longer(ls, more, line) /\ EndsOf(p) = {}
    BY <1>2, OneMore DEF EndsOf
  <2> HIDE DEF more
  <2>3. \A k \in DOMAIN more : Readable(more[k].pkt) /\ more[k].id \in 0..c.counter
    BY <2>0, <2>2, SMTT(30) DEF Longer, Recorded, Lists, CONNECTION_ID_NONE
  <2>4. ASSUME NEW k \in DOMAIN more, NEW e2 \in EndsOf(more[k].pkt)
        PROVE  \E id \in Nat, sq \in Int : Connected(c, e2, id, sq)
    BY <2>2 DEF Longer, Recorded
  <2>5. ASSUME NEW e2 \in OpenEntries, NEW id2 \in Nat, NEW seq2 \in Int, Connected(c, e2, id2, seq2)
        PROVE  \E f, l \in DOMAIN more : Spans(more, e2, id2, seq2, f, l)
    <3>1. PICK f, l \in DOMAIN ls : Spans(ls, e2, id2, seq2, f, l)
      BY <2>5 DEF Recorded
    <3> QED
      BY <2>2, <3>1, OtherEnds
  <2> QED
    BY <1>1, <2>0, <2>1, <2>3, <2>4, <2>5 DEF Recorded, more
<1>3. CASE (p.tcp \/ p.udp) /\ Stays(c, p, o)
  <2>1. o.c = c
    BY <1>3 DEF Stays
  <2> QED
    BY <1>1, <1>3, <2>1, LineStays
<1>4. CASE (p.tcp \/ p.udp) /\ Begins(c, p, o)
  BY <1>1, <1>4, LineBegins
<1> QED
  BY <1>1, <1>2, <1>3, <1>4

\* In the beginning there is no connection.
LEMMA NoneConnected == Lists(NoConnections) /\ Pairs(NoConnections) /\ Recorded(NoConnections, <<>>)
<1> DEFINE c == NoConnections
<1>1. c = [list |-> [b \in Buckets |-> slist_init], counter |-> 0, crashed |-> FALSE]
  BY DEF NoConnections
<1>2. c.list = [b \in Buckets |-> slist_init] /\ c.counter = 0 /\ c.crashed = FALSE
  BY <1>1
<1> HIDE DEF c
<1>3. \A b \in Buckets : c.list[b] = slist_init
  BY <1>2
<1>4. slist_init.items = <<>> /\ slist_init.moves = 0
  BY DEF slist_init
<1>5. Lists(c)
  <2>1. c = [list |-> c.list, counter |-> c.counter, crashed |-> c.crashed]
    BY <1>1, <1>2
  <2>2. c.list = [b \in Buckets |-> c.list[b]]
    BY <1>2
  <2>3. \A b \in Buckets : c.list[b].moves \in Nat
    BY <1>3, <1>4
  <2>4. c.counter \in Nat
    BY <1>2
  <2>5. c.crashed \in BOOLEAN
    BY <1>2
  <2> QED
    BY <2>1, <2>2, <2>3, <2>4, <2>5 DEF Lists
<1>6. ASSUME NEW b \in Buckets PROVE InPairs(c.list[b], b)
  <2>1. c.list[b].items = <<>> /\ <<>> \in Seq(Items) /\ DOMAIN <<>> = {}
    BY <1>3, <1>4
  <2> QED
    BY <2>1 DEF InPairs
<1>7. ASSUME NEW e \in OpenEntries, NEW id, NEW seq, Connected(c, e, id, seq) PROVE FALSE
  <2>1. ipv4_bucket_select(e) \in Buckets
    BY Reverses DEF OpenEntries
  <2>2. DOMAIN c.list[ipv4_bucket_select(e)].items = {}
    BY <1>3, <1>4, <2>1
  <2> QED
    BY <1>7, <2>2 DEF Connected, Listed
<1>8. Recorded(c, <<>>)
  <2>1. DOMAIN <<>> = {}
    OBVIOUS
  <2> QED
    BY <1>7, <2>1 DEF Recorded
<1> QED
  BY <1>5, <1>6, <1>8 DEF Pairs, c
=============================================================================
