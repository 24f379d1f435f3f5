---------------------------- MODULE CaptureTools ----------------------------
(***************************************************************************)
(* The tools that read one stream through a filter: tools/capfilter.c,     *)
(* capshow.c, capwalk.c and cap2pcap.c; pcap2cap.c, which reads with       *)
(* libpcap and has no filter; and a manager, a program that builds a       *)
(* filter with filter_*_set and sends it to a measurement point.           *)
(*                                                                         *)
(* capfilter and capshow call filter_match themselves; capwalk and         *)
(* cap2pcap hand the filter to stream_read, which goes on reading until a  *)
(* packet matches.  A packet is written or printed as its number in the    *)
(* stream and the octets kept of it.                                       *)
(***************************************************************************)
EXTENDS CreateFilter, Functions

CONSTANTS
    Argvs,         \* command lines considered
    Packets,       \* packets a stream may hold
    Settings,      \* calls of filter_*_set: <<option, value>>
    MaxPackets, MaxSettings    \* bounds

\* A name an option of the tool itself has, or "none".
Arguments == [opts : SUBSET Options, eq : BOOLEAN, dash : BOOLEAN, val : Values, tool : STRING]

\* caplen is a uint32_t in both headers, and a time is not negative.
ASSUME CaptureAssumption ==
    /\ Argvs \subseteq Seq(Arguments)
    /\ Settings \subseteq Criteria \X Values
    /\ \A p \in Packets : p.ts \in Timepico /\ p.caplen \in Nat

VARIABLES
    tool, argv,
    pc,            \* start, open, loop, reading, close, exit, aborted; set, sent (manager)
    filter, opt,   \* the filter, and the options of the tool
    keep_running, ret, status,
    read, matched, \* stat.read; packets that passed the filter
    out, rej,      \* what was written (printed) and, by capfilter, to --rejects
    failed, lost,  \* history: a write failed; the end of a file was lost when it was closed
    seen, verdict, \* history: the packets and what the filter said
    peer           \* the filter as it arrived at the measurement point

config == <<tool, argv>>
output == <<read, matched, out, rej, failed, lost, seen, verdict>>
vars == <<config, pc, filter, opt, keep_running, ret, status, output, peer>>

EAGAIN == 11
EIO == 5

NoOptions ==
    [max_read |-> 0, max_matched |-> 0, caplen |-> -1, invert |-> FALSE, rejects |-> FALSE, extra |-> FALSE]

\* pcap2cap is given files and its --caplen only.
Init ==
    /\ tool \in {"capfilter", "capshow", "capwalk", "cap2pcap", "pcap2cap", "manager"}
    /\ argv \in IF tool = "manager" THEN {<<>>} ELSE Argvs
    /\ tool = "pcap2cap" => \A t \in Range(argv) : t.opts \subseteq {"caplen"} /\ t.tool = "none"
    /\ pc = IF tool = "manager" THEN "set" ELSE "start"
    /\ filter = InitFilter /\ peer = InitFilter
    /\ opt = NoOptions
    /\ keep_running = TRUE /\ ret = 0 /\ status = 0
    /\ read = 0 /\ matched = 0 /\ out = <<>> /\ rej = <<>>
    /\ failed = FALSE /\ lost = [out |-> FALSE, rej |-> FALSE] /\ seen = <<>> /\ verdict = <<>>

Exit(s) == pc' = "exit" /\ status' = s

-----------------------------------------------------------------------------
(* Start-up *)

LastOf(s) == s[Len(s)]

Limit(rest, name) ==
    LET s == SelectSeq(rest, LAMBDA t : t.tool = name) IN IF s = <<>> THEN 0 ELSE LastOf(s).val.n
Given(rest, name) == \E t \in Range(rest) : t.tool = name
Words(rest) == Len(SelectSeq(rest, LAMBDA t : ~t.dash))

\* The options of the tools, from what filter_from_argv has left of the command
\* line.  Only capfilter takes a second name; for the others it would be a second
\* address of a stream, which a file does not have.
CapfilterOptions(rest) ==
    [max_read |-> Limit(rest, "packets"), max_matched |-> Limit(rest, "matched"), caplen |-> -1,
     invert |-> Given(rest, "invert"), rejects |-> Given(rest, "rejects"), extra |-> FALSE]
CapshowOptions(rest) ==
    [NoOptions EXCEPT !.max_read = Limit(rest, "packets"), !.max_matched = Limit(rest, "matched"),
                      !.extra = Words(rest) > 1]
\* capwalk has the limits and does not use them.
CapwalkOptions(rest) == [NoOptions EXCEPT !.extra = Words(rest) > 1]
\* cap2pcap's --packets limits the packets that stream_read returned.
Cap2pcapOptions(rest) == [NoOptions EXCEPT !.max_matched = Limit(rest, "packets"), !.extra = Words(rest) > 1]
\* pcap2cap has no filter, and reads --caplen itself.
Pcap2capOptions(rest) ==
    LET s == SelectSeq(rest, LAMBDA t : t.opts = {"caplen"})
    IN [NoOptions EXCEPT !.caplen = IF s = <<>> THEN -1 ELSE LastOf(s).val.n, !.extra = Words(rest) > 1]

\* capshow and capwalk report success for a bad filter.
ParseArgv ==
    /\ pc = "start"
    /\ LET r == IF tool = "pcap2cap" THEN [ret |-> 0, filter |-> InitFilter, rest |-> argv] ELSE FilterFromArgv(argv)
       IN /\ filter' = r.filter
          /\ IF r.ret # 0 THEN Exit(IF tool \in {"capfilter", "cap2pcap"} THEN 1 ELSE 0) /\ UNCHANGED opt
             ELSE /\ pc' = "open" /\ UNCHANGED status
                  /\ opt' = CASE tool = "capfilter" -> CapfilterOptions(r.rest)
                              [] tool = "capshow"   -> CapshowOptions(r.rest)
                              [] tool = "capwalk"   -> CapwalkOptions(r.rest)
                              [] tool = "cap2pcap"  -> Cap2pcapOptions(r.rest)
                              [] tool = "pcap2cap"  -> Pcap2capOptions(r.rest)
    /\ UNCHANGED <<config, keep_running, ret, output, peer>>

\* A stream cannot be opened, or is a terminal and no file was given instead.
OpenFails ==
    /\ pc = "open"
    /\ Exit(1)
    /\ UNCHANGED <<config, filter, opt, keep_running, ret, output, peer>>

Open ==
    /\ pc = "open" /\ ~opt.extra
    /\ pc' = IF tool = "pcap2cap" THEN "reading" ELSE "loop"
    /\ UNCHANGED <<config, filter, opt, keep_running, ret, status, output, peer>>

-----------------------------------------------------------------------------
(* The loop *)

\* Only between two calls of stream_read is keep_running looked at.
LoopHead ==
    /\ pc = "loop"
    /\ pc' = IF keep_running THEN "reading" ELSE "close"
    /\ UNCHANGED <<config, filter, opt, keep_running, ret, status, output, peer>>

\* The limits.  stat.matched counts what stream_read returned.
Enough(n, m) == (opt.max_read > 0 /\ n >= opt.max_read) \/ (opt.max_matched > 0 /\ m >= opt.max_matched)

Truncated(p, caplen) == IF caplen = -1 \/ caplen > p.caplen THEN p.caplen ELSE caplen

ReadPacket(p) ==
    /\ pc = "reading" /\ Len(seen) < MaxPackets
    /\ seen' = Append(seen, p)
    /\ verdict' = Append(verdict, Verdict(filter, p))
    /\ filter' = FilterMatch(filter, p)
    /\ read' = read + 1

\* Mutant of WriteFailed: a failed stream_copy does not end the loop.
WriteFailedGoesOn(fails) == UNCHANGED keep_running

\* A failed stream_copy ends the loop.
WriteFailed(fails) == keep_running' = (keep_running /\ ~fails)

\* capfilter: to the output or to the rejects.
FilterPacket(p) ==
    /\ tool = "capfilter" /\ ReadPacket(p)
    /\ LET post == Verdict(filter, p) # opt.invert
           pkt == [n |-> read + 1, caplen |-> Truncated(p, filter.caplen)]
       IN /\ matched' = IF post THEN matched + 1 ELSE matched
          /\ \E fails \in {FALSE, post \/ opt.rejects} :
                /\ out' = IF post /\ ~fails THEN Append(out, pkt) ELSE out
                /\ rej' = IF ~post /\ opt.rejects /\ ~fails THEN Append(rej, pkt) ELSE rej
                /\ ret' = IF fails THEN EIO ELSE 0
                /\ WriteFailed(fails)
                /\ failed' = (failed \/ fails)
    /\ pc' = IF Enough(read', matched') THEN "close" ELSE "loop"
    /\ UNCHANGED <<config, opt, status, lost, peer>>

Show(p) ==
    /\ matched' = IF Verdict(filter, p) THEN matched + 1 ELSE matched
    /\ out' = IF Verdict(filter, p) THEN Append(out, [n |-> read + 1, caplen |-> p.caplen]) ELSE out
    /\ UNCHANGED <<config, opt, keep_running, status, rej, failed, lost, peer>>

\* capshow: a packet that does not match is counted by format_ignore.
ShowPacket(p) ==
    /\ tool = "capshow" /\ ReadPacket(p) /\ Show(p)
    /\ pc' = IF Enough(read', matched') THEN "close" ELSE "loop"
    /\ ret' = 0

\* cap2pcap: stream_read goes on reading behind a packet that does not match.
DumpPacket(p) ==
    /\ tool = "cap2pcap" /\ ReadPacket(p) /\ Show(p)
    /\ IF ~Verdict(filter, p) THEN UNCHANGED <<pc, ret>>
       ELSE pc' = (IF Enough(read', matched') THEN "close" ELSE "loop") /\ ret' = 0

\* capwalk: the same, through stream_read_cb and handle_packet.
WalkPacket(p) ==
    /\ tool = "capwalk" /\ ReadPacket(p) /\ Show(p)
    /\ IF ~Verdict(filter, p) THEN UNCHANGED <<pc, ret>> ELSE pc' = "loop" /\ ret' = 0

\* stream_write_separate: all, nothing, or the header without the octets.  A
\* packet of no octets is refused.
WriteSeparate(pkt) ==
    \E done \in IF pkt.caplen = 0 THEN {"none"} ELSE {"none", "header", "all"} :
        /\ out' = CASE done = "all" -> Append(out, pkt)
                    [] done = "header" -> Append(out, [pkt EXCEPT !.caplen = 0])
                    [] done = "none" -> out
        /\ failed' = (failed \/ done # "all")

\* pcap2cap: a packet is asked for before `run' is looked at, and a failed write is
\* only reported.
ConvertPacket(p) ==
    /\ tool = "pcap2cap" /\ pc = "reading" /\ Len(seen) < MaxPackets
    /\ seen' = Append(seen, p) /\ verdict' = Append(verdict, TRUE)
    /\ read' = read + 1
    /\ IF keep_running THEN WriteSeparate([n |-> read + 1, caplen |-> Truncated(p, opt.caplen)]) /\ UNCHANGED pc
       ELSE pc' = "close" /\ UNCHANGED <<out, failed>>
    /\ UNCHANGED <<config, opt, filter, keep_running, ret, status, matched, rej, lost, peer>>

\* EAGAIN: nothing came for a second.
ReadAgain ==
    /\ pc = "reading" /\ tool # "pcap2cap"
    /\ ret' = EAGAIN /\ pc' = "loop"
    /\ UNCHANGED <<config, filter, opt, keep_running, status, output, peer>>

\* -1 or an error.  capfilter leaves its loop through keep_running.
ReadEnds ==
    /\ pc = "reading"
    /\ ret' \in {-1, EIO}
    /\ IF tool = "capfilter" THEN keep_running' = FALSE /\ pc' = "loop"
       ELSE pc' = "close" /\ UNCHANGED keep_running
    /\ UNCHANGED <<config, filter, opt, status, output, peer>>

\* handle_sigint, installed before the loop.  The second signal aborts, except in
\* pcap2cap.
Sigint ==
    /\ pc \in {"loop", "reading", "close"}
    /\ keep_running' = FALSE
    /\ pc' = IF keep_running \/ tool = "pcap2cap" THEN pc ELSE "aborted"
    /\ UNCHANGED <<config, filter, opt, ret, status, output, peer>>

\* What is left of s when its buffer cannot be written.
Flushed(s) == {SubSeq(s, 1, k) : k \in 0..Len(s)}

\* filter_close and the streams; capfilter reports what stream_read or stream_copy
\* returned last.  fwrite has kept the last packets in its buffer: what becomes of them
\* nobody looks at.
Close ==
    /\ pc = "close"
    /\ filter' = [filter EXCEPT !.bpf = FALSE, !.frame_num = <<>>]
    /\ out' \in Flushed(out) /\ rej' \in Flushed(rej)
    /\ lost' = [out |-> out' # out, rej |-> rej' # rej]
    /\ Exit(IF tool = "capfilter" /\ ret \notin {0, -1} THEN 1 ELSE 0)
    /\ UNCHANGED <<config, opt, keep_running, ret, read, matched, failed, seen, verdict, peer>>

-----------------------------------------------------------------------------
(* The manager *)

\* filter_*_set.  `matched' counts the calls.
Set(o, v) ==
    /\ pc = "set" /\ matched < MaxSettings
    /\ filter' = FilterSet(filter, o, v)
    /\ matched' = matched + 1
    /\ UNCHANGED <<config, pc, opt, keep_running, ret, status, read, out, rej, failed, lost, seen, verdict, peer>>

\* The mode is a field of the filter that clients set.
SetMode ==
    /\ pc = "set" /\ filter.mode = "AND"
    /\ filter' = [filter EXCEPT !.mode = "OR"]
    /\ UNCHANGED <<config, pc, opt, keep_running, ret, status, output, peer>>

\* filter_pack, the network, and filter_unpack into fresh or zeroed memory.
Send ==
    /\ pc = "set"
    /\ \E d \in {InitFilter, [InitFilter EXCEPT !.caplen = 0, !.first = FALSE, !.frame_counter = 0]} :
          peer' = FilterUnpack(FilterPack(filter), d)
    /\ pc' = "sent"
    /\ UNCHANGED <<config, filter, opt, keep_running, ret, status, output>>

Ended == pc \in {"exit", "aborted", "sent"} /\ UNCHANGED vars

Next ==
    \/ ParseArgv \/ OpenFails \/ Open \/ LoopHead \/ ReadAgain \/ ReadEnds \/ Sigint \/ Close
    \/ \E p \in Packets : FilterPacket(p) \/ ShowPacket(p) \/ DumpPacket(p) \/ WalkPacket(p) \/ ConvertPacket(p)
    \/ \E s \in Settings : Set(s[1], s[2])
    \/ SetMode \/ Send \/ Ended

Spec == Init /\ [][Next]_vars
-----------------------------------------------------------------------------
(* Properties *)

Value(t) == t.sec * PICODIVIDER + t.psec
Parsed == FilterFromArgv(argv).filter
Filtering == tool # "pcap2cap" /\ pc \in {"loop", "reading", "close"}

\* Ranges in order, with a gap between one and the next; each ends at a packet, or has no
\* end ("3-", -1).
Apart(r) ==
    /\ \A i \in DOMAIN r : r[i].upper > 0 \/ r[i].upper = -1
    /\ \A i \in 1..Len(r) - 1 : 0 < r[i].upper /\ r[i].lower <= r[i].upper /\ r[i].upper + 1 < r[i + 1].lower
InRange(n, x) == n >= x.lower /\ (x.upper # -1 => n <= x.upper)

\* --frame-num with ranges that are in order and leave a gap selects exactly the
\* packets whose number lies in a range, although filter_match looks at the first
\* range only and drops one range per packet.  (Without a gap the first packet of
\* the second range is tested against the range before it.  A range that ends at 0,
\* as --frame-num=0 does, is taken for one without an end and selects every packet.)
FrameNumSelects ==
    LET r == Parsed.frame_num
    IN Filtering /\ Parsed.index = {"frame_num"} /\ ~Parsed.bpf /\ Apart(r)
       => \A n \in DOMAIN seen : verdict[n] <=> \E i \in DOMAIN r : InRange(n, r[i])

\* The time that packet n of s is measured from: that of the last match before it, or
\* of the first packet.
Since(s, v, n) ==
    LET m == {k \in 1..n - 1 : v[k]} IN IF m = {} THEN s[1].ts ELSE s[CHOOSE k \in m : \A j \in m : j <= k].ts
Late(s, v, n, dt) == Value(s[n].ts) - Value(Since(s, v, n)) > Value(dt)
InOrder(s) ==
    /\ \A n \in DOMAIN s : Normal(s[n].ts)
    /\ \A n \in 1..Len(s) - 1 : Value(s[n].ts) <= Value(s[n + 1].ts)

\* --frame-max-dt: once the time since the last match (or the first packet) is
\* larger, "no more packets will be matched" (caputils/filter.h), whatever the
\* other criteria and however the fractions carry, if the packets are in order.
\* Alone, the option rejects nothing else.
RejectionLatches ==
    LET late(n) == Late(seen, verdict, n, Parsed.frame_max_dt)
    IN /\ Filtering /\ InOrder(seen)
       /\ "frame_max_dt" \in Parsed.index /\ Parsed.mode = "AND" /\ Normal(Parsed.frame_max_dt)
       => /\ \A i, j \in DOMAIN seen : i <= j /\ late(i) => ~verdict[j]
          /\ Parsed.index = {"frame_max_dt"} /\ ~Parsed.bpf
             => \A n \in DOMAIN seen : ~verdict[n] => \E i \in 1..n : late(i)

\* What the parsers call "Ignoring": the filter decides as if a refused option had
\* not been given, if every option is given once and has a value.  (Given again, a
\* refused value has overwritten part of the one before it.)
RefusedValueIgnored ==
    LET formed == \A i \in DOMAIN argv : argv[i].opts # {} =>
                      argv[i].eq \/ (i < Len(argv) /\ ~argv[i + 1].dash)
        value(i) == IF argv[i].eq THEN argv[i].val ELSE argv[i + 1].val
        option(i) == CHOOSE o \in argv[i].opts : TRUE
        single == /\ \A i \in DOMAIN argv : Cardinality(argv[i].opts) <= 1
                  /\ \A i, j \in DOMAIN argv : argv[i].opts \cap argv[j].opts # {} => i = j
        bad(i) == argv[i].opts # {} /\ Refused(option(i), value(i))
        kept == {i \in DOMAIN argv : ~bad(i) /\ ~(i > 1 /\ bad(i - 1) /\ ~argv[i - 1].eq)}
        good == FilterFromArgv([k \in 1..Cardinality(kept) |->
                    argv[CHOOSE i \in kept : Cardinality({j \in kept : j <= i}) = k]])
    IN pc = "open" /\ tool # "pcap2cap" /\ formed /\ single
       => /\ filter.index = good.filter.index
          /\ \A p \in Packets : Verdict(filter, p) = Verdict(good.filter, p)

\* A filter that arrives at a measurement point gives the manager's verdict on every
\* packet, unless it uses a criterion that filter_pack or filter_unpack leaves out.
WirePreservesVerdict ==
    pc = "sent" /\ filter.index \cap Unsent = {}
    => \A p \in Packets : Verdict(peer, p) = Verdict(filter, p)

\* s has the packets with these numbers, in order: all of them, or if its end was lost
\* all up to some packet.
Holds(s, chosen, cut) ==
    LET numbers == {s[k].n : k \in DOMAIN s}
    IN /\ numbers \subseteq chosen
       /\ \A j, k \in DOMAIN s : j < k => s[j].n < s[k].n
       /\ \A n \in chosen \ numbers : cut /\ \A k \in DOMAIN s : s[k].n < n

\* capfilter exits with 0 only if every packet it read is where it belongs: in the
\* output if it matches (or does not, with --invert), else in the rejects, in the
\* order read and never longer than --caplen.  What may be missing is the end of a file
\* that could not be written when it was closed: no other failure goes unnoticed.
ExitZeroMeansWritten ==
    pc = "exit" /\ tool = "capfilter" /\ status = 0
    => /\ Holds(out, {n \in DOMAIN seen : verdict[n] # opt.invert}, lost.out)
       /\ IF opt.rejects THEN Holds(rej, {n \in DOMAIN seen : verdict[n] = opt.invert}, lost.rej) ELSE rej = <<>>
       /\ \A s \in {out, rej} : \A k \in DOMAIN s : s[k].caplen <= seen[s[k].n].caplen
       /\ filter.caplen # -1 => \A k \in DOMAIN out : out[k].caplen <= filter.caplen
=============================================================================
