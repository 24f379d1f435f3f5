------------------------------- MODULE Filter -------------------------------
(***************************************************************************)
(* src/filter.c: does a packet match, and how a filter travels to another  *)
(* host.                                                                   *)
(*                                                                         *)
(* A number that is compared under a mask is the set of its bits, so that  *)
(* x & m is x \cap m.  Ports have Half bits, IP addresses 2 * Half.  A     *)
(* packet has the fields the tests read:                                   *)
(*   tags, tci       number of VLAN tags, and the TCI of the first         *)
(*   type            EtherType behind the tags                             *)
(*   eth_src, eth_dst, ip_src, ip_dst, proto, sport, dport                 *)
(*   nic, mampid, ts, bpf   nic is the set of the names the interface name *)
(*                   contains, bpf the verdict of a BPF program on it      *)
(***************************************************************************)
EXTENDS Picotime, Sequences, FiniteSets

CONSTANTS Half, IpType, VlanType    \* EtherTypes of IPv4 and of a VLAN tag

Masked == {"dst_port", "src_port", "ip_dst", "ip_src", "eth_dst", "eth_src", "eth_type", "vlan", "port"}
Criteria == Masked \cup {"ip_proto", "iface", "mampid", "end_time", "start_time", "frame_max_dt", "frame_num"}

NoTime == timepico_new(0, 0)

\* filter_init.
InitFilter ==
    [index |-> {}, mode |-> "AND",
     val |-> [c \in Masked |-> {}], mask |-> [c \in Masked |-> {}],
     ip_proto |-> "none", iface |-> "none", mampid |-> "none",
     start_time |-> NoTime, end_time |-> NoTime, frame_max_dt |-> NoTime,
     frame_num |-> <<>>, bpf |-> FALSE, caplen |-> -1,
     first |-> TRUE, frame_counter |-> 1, frame_last_ts |-> NoTime]

-----------------------------------------------------------------------------
(* The fields of a packet. *)

\* find_ether_vlan_header looks behind one tag only.
HProto(p) == IF p.tags > 1 THEN VlanType ELSE p.type

\* find_ipv4_header goes through all tags.
HasIp(p) == p.type = IpType

\* find_tcp_header and find_udp_header: 0 without a transport header.  They
\* expect it behind at most one tag, and with two read the 4 octets before it,
\* the end of an IP header without options.
Ports(p) ==
    IF ~HasIp(p) \/ p.proto \notin {"tcp", "udp"} THEN [src |-> {}, dst |-> {}]
    ELSE IF p.tags <= 1 THEN [src |-> p.sport, dst |-> p.dport]
    ELSE [src |-> {b - Half : b \in {x \in p.ip_dst : x >= Half}}, dst |-> {b \in p.ip_dst : b < Half}]

\* filter_vlan_tci, filter_h_proto, filter_eth_*, filter_ip_*, filter_*port.
Test(f, c, x) == x \cap f.mask[c] = f.val[c]

\* filter_frame_dt: matched if not more than frame_max_dt after the last match;
\* packets out of order match.
FrameDt(f, p) ==
    \/ timecmp(p.ts, f.frame_last_ts) < 0
    \/ timecmp(timepico_sub(p.ts, f.frame_last_ts), f.frame_max_dt) <= 0

\* filter_frame_num: only the first range is looked at.
FrameNum(f) ==
    /\ f.frame_num # <<>>
    /\ f.frame_counter >= Head(f.frame_num).lower
    /\ Head(f.frame_num).upper > 0 => f.frame_counter <= Head(f.frame_num).upper

Matches(f, p) ==
    [c \in Criteria |->
        CASE c = "dst_port"     -> Test(f, c, Ports(p).dst)
          [] c = "src_port"     -> Test(f, c, Ports(p).src)
          [] c = "port"         -> Test(f, c, Ports(p).src) \/ Test(f, c, Ports(p).dst)
          [] c = "ip_dst"       -> HasIp(p) /\ Test(f, c, p.ip_dst)
          [] c = "ip_src"       -> HasIp(p) /\ Test(f, c, p.ip_src)
          [] c = "ip_proto"     -> HasIp(p) /\ p.proto = f.ip_proto
          [] c = "eth_dst"      -> Test(f, c, p.eth_dst)
          [] c = "eth_src"      -> Test(f, c, p.eth_src)
          [] c = "eth_type"     -> Test(f, c, HProto(p))
          [] c = "vlan"         -> p.tags > 0 /\ Test(f, c, p.tci)
          [] c = "iface"        -> f.iface \in p.nic
          [] c = "mampid"       -> f.mampid = p.mampid
          [] c = "end_time"     -> timecmp(f.end_time, p.ts) > 0
          [] c = "start_time"   -> timecmp(f.start_time, p.ts) <= 0
          [] c = "frame_max_dt" -> FrameDt(f, p)
          [] c = "frame_num"    -> FrameNum(f)]

\* filter_core: each test counts only if its bit of the index is set.
\* filter_frame_num does not look at the bit; no list exists without it.
FilterCore(f, p) ==
    LET match == {c \in f.index : Matches(f, p)[c]}
    IN IF f.mode = "AND" THEN match = f.index ELSE match # {}

\* Mutant of Prune: an open range ("23-") is taken for one that has passed.
PruneOpen(f) ==
    IF f.frame_num # <<>> /\ f.frame_counter > Head(f.frame_num).upper THEN Tail(f.frame_num) ELSE f.frame_num

\* At most one range is dropped per packet, after the packet was tested.
Prune(f) ==
    IF /\ f.frame_num # <<>>
       /\ Head(f.frame_num).upper > 0
       /\ f.frame_counter > Head(f.frame_num).upper
    THEN Tail(f.frame_num) ELSE f.frame_num

\* The exception for the first packet.
FirstSeen(f, p) == IF f.first THEN [f EXCEPT !.frame_last_ts = p.ts, !.first = FALSE] ELSE f

Verdict(f, p) ==
    LET g == FirstSeen(f, p)
    IN (g.index = {} \/ FilterCore(g, p)) /\ (g.bpf => p.bpf)

\* Mutant of FilterMatch: the last timestamp follows every packet.
MatchEveryTs(f, p) ==
    [FirstSeen(f, p) EXCEPT !.frame_num = Prune(f), !.frame_counter = @ + 1, !.frame_last_ts = p.ts]

\* filter_match: the filter behind the packet.
FilterMatch(f, p) ==
    [FirstSeen(f, p) EXCEPT
        !.frame_num = Prune(f),
        !.frame_counter = @ + 1,
        !.frame_last_ts = IF Verdict(f, p) THEN p.ts ELSE @]

-----------------------------------------------------------------------------
(* On the wire.  Unsent criteria are those filter_pack leaves out, and the *)
(* port, which filter_unpack does not read.                                *)

Unsent == {"mampid", "start_time", "end_time", "frame_max_dt", "frame_num", "port"}

\* filter_pack.  The addresses are sent twice, as numbers and as text.
FilterPack(f) ==
    [version |-> 2, index |-> f.index, mode |-> f.mode, val |-> f.val, mask |-> f.mask,
     text |-> [c \in {"ip_src", "ip_dst"} |-> [val |-> f.val[c], mask |-> f.mask[c]]],
     ip_proto |-> f.ip_proto, iface |-> f.iface, caplen |-> f.caplen]

\* Mutant of FilterUnpack: every filter is taken for one of the old format.
UnpackOld(w, d) ==
    [d EXCEPT !.index = w.index, !.mode = "AND",
        !.val = [c \in Masked |-> IF c = "port" THEN @[c] ELSE w.val[c]],
        !.mask = [c \in Masked |-> IF c = "port" THEN @[c] ELSE w.mask[c]],
        !.ip_proto = w.ip_proto, !.iface = w.iface, !.caplen = w.caplen, !.frame_num = <<>>]

\* filter_unpack into the memory d, whose other fields stay.
FilterUnpack(w, d) ==
    LET old(c) == w.version = 0 /\ c \in {"ip_src", "ip_dst"}
    IN [d EXCEPT
        !.index = w.index,
        !.mode = IF w.version >= 2 THEN w.mode ELSE "AND",
        !.val = [c \in Masked |-> IF c = "port" THEN @[c] ELSE IF old(c) THEN w.text[c].val ELSE w.val[c]],
        !.mask = [c \in Masked |-> IF c = "port" THEN @[c] ELSE IF old(c) THEN w.text[c].mask ELSE w.mask[c]],
        !.ip_proto = w.ip_proto, !.iface = w.iface, !.caplen = w.caplen, !.frame_num = <<>>]
=============================================================================
