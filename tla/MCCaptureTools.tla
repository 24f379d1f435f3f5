--------------------------- MODULE MCCaptureTools ---------------------------
(* CaptureTools for TLC: four packets, and command lines that exercise the *)
(* splitting, the parsers, the ranges and the limits.                      *)
EXTENDS CaptureTools

Val(v) == [Junk EXCEPT !.bad = "no", !.val = v]
MaskVal(v, m) == [Val(v) EXCEPT !.mask = m, !.has_mask = TRUE]
BadMask(v) == [Val(v) EXCEPT !.bad = "mask", !.has_mask = TRUE]
Name(x) == [Junk EXCEPT !.bad = "no", !.name = x]
Time(s, f, d) == [Junk EXCEPT !.bad = "no", !.sec = s, !.frac = f, !.digits = d]
Num(x) == [Junk EXCEPT !.n = x]
Frames(s) == [Junk EXCEPT !.ranges = s]
Mode(m) == [Junk EXCEPT !.mode = m]
One(n) == [form |-> "single", a |-> n, b |-> n]
Both(n, m) == [form |-> "both", a |-> n, b |-> m]
Upto(n) == [form |-> "upper", a |-> n, b |-> n]
From(n) == [form |-> "lower", a |-> n, b |-> n]
BadRange == [form |-> "bad", a |-> 0, b |-> 0]

Opt(o, v) == [opts |-> {o}, eq |-> TRUE, dash |-> TRUE, val |-> v, tool |-> "none"]
Bare(o) == [opts |-> o, eq |-> FALSE, dash |-> TRUE, val |-> Junk, tool |-> "none"]
Word(v) == [opts |-> {}, eq |-> FALSE, dash |-> FALSE, val |-> v, tool |-> "none"]
Tool(name, n) == [opts |-> {}, eq |-> FALSE, dash |-> TRUE, val |-> Num(n), tool |-> name]
File == Word(Junk)

Packet(tags, type, proto, ip, port, ts, bpf) ==
    [tags |-> tags, tci |-> {0}, type |-> type, proto |-> proto, ip_src |-> {0}, ip_dst |-> ip,
     eth_src |-> {0}, eth_dst |-> {1}, sport |-> port, dport |-> {}, nic |-> {"e", "eth0"},
     mampid |-> "mp1", ts |-> ts, bpf |-> bpf, caplen |-> 2]

MCPackets ==
    {Packet(0, {0}, "tcp", {1, 2}, {0}, timepico_new(0, 6), TRUE),
     Packet(1, {0}, "udp", {3}, {0, 1}, timepico_new(1, 2), FALSE),
     Packet(2, {0}, "tcp", {2, 3}, {1}, timepico_new(1, 9), TRUE),
     Packet(0, {1}, "none", {}, {}, timepico_new(3, 0), FALSE)}

MCSettings ==
    {<<"ip_src", MaskVal({0, 1}, {0})>>, <<"ip_dst", BadMask({1})>>, <<"src_port", MaskVal({0}, {0})>>,
     <<"dst_port", Val({})>>, <<"port", Val({0})>>, <<"vlan", MaskVal({0, 1}, {0})>>, <<"eth_type", Val({0})>>,
     <<"eth_src", Junk>>, <<"eth_dst", MaskVal({1}, {1})>>, <<"ip_proto", Name("tcp")>>, <<"iface", Name("e")>>,
     <<"mampid", Name("mp1")>>, <<"start_time", Time(1, 2, 1)>>, <<"end_time", Time(1, 9, 1)>>,
     <<"frame_max_dt", Time(1, 0, 0)>>, <<"frame_num", Frames(<<One(1)>>)>>}

FrameArgvs ==
    {<<Opt("frame_num", Frames(r)), File>> :
        r \in {<<One(1), From(3)>>, <<Upto(1), Both(3, 4)>>, <<Both(2, 3)>>, <<BadRange, From(2)>>,
               <<BadRange>>, <<One(0)>>, <<One(1), One(2)>>}}
DtArgvs ==
    {<<Opt("frame_max_dt", Time(0, 7, 1)), File>>,
     <<Opt("frame_max_dt", Time(0, 6, 1)), Opt("eth_type", Val({0})), File>>,
     <<Opt("frame_max_dt", Time(1, 0, 0)), Opt("mode", Mode("OR")), Opt("start_time", Time(1, 0, 0)), File>>,
     <<Opt("frame_max_dt", Time(0, 25, 2)), File>>}
ValueArgvs ==
    {<<Opt(o, v), Opt("start_time", Time(1, 0, 0)), File>> :
        o \in {"ip_dst", "eth_dst", "src_port", "port", "vlan", "ip_proto", "frame_max_dt"},
        v \in {Junk, BadMask({1}), MaskVal({1, 0}, {1})}}
LineArgvs ==
    {<<Bare({"ip_proto"}), Word(Name("udp")), Tool("rejects", 0), File, Tool("packets", 3)>>,
     <<Bare({"ip_src"}), Opt("ip_dst", Val({1, 2})), File>>,
     <<Tool("invert", 0), Tool("rejects", 0), Bare({"mampid"}), File>>,
     <<File, Bare({"ip_dst"})>>, <<Bare({"ip_src", "ip_dst", "ip_proto"}), File>>,
     <<Opt("bpf", Junk), File>>, <<Opt("bpf", Name("expr")), Tool("matched", 1), File>>,
     <<Opt("caplen", Num(1)), Tool("matched", 2), Tool("packets", 3), File, File>>,
     <<Opt("ip_src", Val({0})), Opt("ip_src", BadMask({1})), File>>,
     <<Opt("iface", Name("eth")), Tool("output", 0), Tool("input", 0)>>,
     <<Opt("caplen", Num(0)), File>>, <<>>, <<File, File, File>>}

MCArgvs == FrameArgvs \cup DtArgvs \cup ValueArgvs \cup LineArgvs
=============================================================================
