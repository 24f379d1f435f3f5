------------------------------ MODULE Headers -------------------------------
(***************************************************************************)
(* src/packet.c, src/protocols: the walk over the headers of a packet.     *)
(*                                                                         *)
(* A packet is the number of octets captured of it; what the octets say is *)
(* chosen where the code reads them.  Offsets are from the beginning of    *)
(* the packet, NULL is -1.  The operators give the set of all outcomes.    *)
(***************************************************************************)
EXTENDS Integers

CONSTANTS
    Ihl,           \* header lengths of IPv4 (in words)
    Doff,          \* data offsets of TCP (in words)
    Plens          \* payload octets an IP header may announce

ASSUME HeadersAssumption == Ihl \subseteq Nat /\ Doff \subseteq Nat

NULL == -1

\* Octets needed to read a header: caputils_protocol.size, the one of GTP being read
\* from the header.
Size(p) ==
    IF p = "ETHERNET" THEN 14
    ELSE IF p \in {"VLAN", "MPLS", "PW", "GRE"} THEN 4
    ELSE IF p \in {"IPV4", "IPV6", "TCP"} THEN 20
    ELSE IF p \in {"UDP", "ICMP"} THEN 8
    ELSE IF p \in {"SCTP", "DNS"} THEN 12
    ELSE IF p = "PTPv2" THEN 30
    ELSE 0

\* gtp_header_size, 0 for the versions and the extensions that abort.
GtpSizes == {0, 4, 6, 8, 12}

header_size(p) == IF p = "GTP" THEN GtpSizes ELSE {Size(p)}

\* DATA, DNS and DONE have no next_payload.
HasNext(p) == p \notin {"DATA", "DNS", "DONE"}

limited_caplen(cap, ptr, bytes) == ptr < 0 \/ ptr + bytes > cap

-----------------------------------------------------------------------------
(* next_payload of each protocol: [type, out, plen], out being its argument  *)
(* where the function does not set it.                                       *)

\* plen is only of use to TCP and SCTP, and dropped before a header that ends the walk.
To(type, out, plen) ==
    [type |-> type, out |-> out, plen |-> IF HasNext(type) THEN plen ELSE 0]

ethertype_next == {"ARP", "VLAN", "IPV4", "IPV6", "MPLS", "STP", "PTPv2", "DATA"}
ipproto_next == {"GRE", "ICMP", "IGMP", "IPV4", "IPV6", "OSPF", "TCP", "UDP", "SCTP", "DATA"}

ethernet_next(h) == {To(t, h.ptr + 14, h.plen) : t \in ethertype_next}
vlan_next(h) == {To(t, h.ptr + 4, h.plen) : t \in ethertype_next}

ipv4_next(h) ==
    UNION {IF hl < 5
           THEN {To("DONE", NULL, h.plen)}
           ELSE {To(t, h.ptr + 4 * hl, n) : t \in ipproto_next, n \in Plens} : hl \in Ihl}

\* The header and its hop-by-hop options: where they end, NULL if the capture does first
\* or is shorter than one IPv6 header from the beginning of the packet.  The length octet
\* goes through ntohs: an option has 8 octets, or at least 2056.
SkipExtensions(cap, at) == {NULL, at} \cup {at + 8 * k : k \in 1..((cap - at) \div 8)}
ipv6_total_header_size(cap, ptr) == IF limited_caplen(cap, 0, 40) THEN {NULL} ELSE SkipExtensions(cap, ptr + 40)

ipv6_next(cap, h) ==
    UNION {IF at = NULL
           THEN {To("DONE", NULL, h.plen)}
           ELSE {To(t, at, n) : t \in ipproto_next, n \in Plens} : at \in ipv6_total_header_size(cap, h.ptr)}

mpls_next_payload(h) == {To(t, h.ptr + 4, h.plen) : t \in {"MPLS", "PW", "IPV4", "IPV6", "DATA"}}
pw_next_payload(h) == {To("ETHERNET", h.ptr + 4, h.plen)}
gre_next(h) == {To(t, h.ptr + n, h.plen) : t \in ethertype_next, n \in {4, 8, 12, 16}}

gtp_next(h) == {To(t, h.ptr + n, h.plen) : t \in {"GTP", "DATA", "IPV4", "IPV6"}, n \in GtpSizes \ {0}}

udp_next(h) == {To(t, h.ptr + 8, h.plen) : t \in {"DNS", "GTP", "PTPv2", "DATA"}}

\* The payload is what the last IP header announced, less this header.
tcp_next(h) ==
    UNION {IF h.plen = 4 * n
           THEN {To("DONE", h.ptr + 4 * n, h.plen)}
           ELSE {To("DATA", h.ptr + 4 * n, h.plen), To("DNS", h.ptr + 4 * n + 2, h.plen)} : n \in Doff}

\* The protocols whose next_payload looks for another header.
Carriers == {"ETHERNET", "VLAN", "IPV4", "IPV6", "MPLS", "PW", "GRE", "GTP", "UDP", "TCP"}

protocol_next(cap, h) ==
    CASE h.proto = "ETHERNET" -> ethernet_next(h)
      [] h.proto = "VLAN" -> vlan_next(h)
      [] h.proto = "IPV4" -> ipv4_next(h)
      [] h.proto = "IPV6" -> ipv6_next(cap, h)
      [] h.proto = "MPLS" -> mpls_next_payload(h)
      [] h.proto = "PW" -> pw_next_payload(h)
      [] h.proto = "GRE" -> gre_next(h)
      [] h.proto = "GTP" -> gtp_next(h)
      [] h.proto = "UDP" -> udp_next(h)
      [] h.proto = "TCP" -> tcp_next(h)
      [] h.proto \notin Carriers -> {To("DONE", h.ptr, h.plen)}

-----------------------------------------------------------------------------
(* header_chunk: ptr, protocol, truncated, plen of last_net; ret is what the *)
(* last call of header_walk returned, 2 if it aborted.                       *)

header_init == [ptr |-> NULL, proto |-> "none", truncated |-> FALSE, plen |-> 0, ret |-> 1]

\* The header at ptr, marked where the capture ends before it does.
Arrive(cap, h) ==
    {IF h.proto = "GTP" /\ n = 0
     THEN [h EXCEPT !.ret = 2]
     ELSE [h EXCEPT !.truncated = limited_caplen(cap, h.ptr, n)] : n \in header_size(h.proto)}

next_payload(cap, h) ==
    IF ~HasNext(h.proto) \/ h.truncated
    THEN {[h EXCEPT !.ret = 0]}
    ELSE UNION {IF limited_caplen(cap, n.out, 0)
                THEN {[ptr |-> NULL, proto |-> n.type, truncated |-> TRUE, plen |-> n.plen, ret |-> 0]}
                ELSE Arrive(cap, [ptr |-> n.out, proto |-> n.type, truncated |-> FALSE, plen |-> n.plen,
                                  ret |-> IF n.type = "DONE" THEN 0 ELSE 1])
                   : n \in protocol_next(cap, h)}

header_walk(cap, h) ==
    IF h.ptr = NULL
    THEN Arrive(cap, [ptr |-> 0, proto |-> "ETHERNET", truncated |-> h.truncated, plen |-> h.plen, ret |-> 1])
    ELSE next_payload(cap, h)
=============================================================================
