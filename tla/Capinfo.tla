------------------------------ MODULE Capinfo -------------------------------
(***************************************************************************)
(* tools/capinfo.c: statistics of each trace given on the command line,    *)
(* over all packets and by measurement point, interface and location.      *)
(*                                                                         *)
(* A name (mampid, nic) has at most eight characters: [stem, last, len] is *)
(* the first seven, the eighth ("" without one), and how many there are.   *)
(* A timestamp is [left, at]: a place in the file that is read when so     *)
(* many others are left.                                                   *)
(***************************************************************************)
EXTENDS Integers, Sequences, FiniteSets

CONSTANTS
    InfoPackets,   \* [mampid, nic, len, type, ipproto, marker]
    MaxFiles,
    MaxRead        \* packets in a file

ASSUME InfoAssumption == \A p \in InfoPackets : p.len \in Nat

VARIABLES
    todo,          \* files still to process; with none at all stdin is read
    ipc,           \* off | next | read | ended, or undefined once a pointer was overwritten
    global,        \* statistics of all packets
    mpid, CI, location,  \* lists of [key, stats]
    ipproto,       \* packets by protocol of IP
    status,        \* what main returns
    seen           \* packets of the current file

ivars == <<todo, ipc, global, mpid, CI, location, ipproto, status, seen>>

UINT16_MAX == 65535
UINT8_MAX == 255
LOCATION == 16     \* characters in the buffer of get_location
ETHERTYPE_IP == 2048
ETHERTYPE_VLAN == 33024

Epoch == [left |-> -1, at |-> 0]     \* of a static variable
NoStats == [packets |-> 0, bytes |-> 0, byte_min |-> 0, byte_max |-> 0, first |-> Epoch, last |-> Epoch]

\* The times stay as they are.
reset_stats(s) ==
    [packets |-> 0, bytes |-> 0, byte_min |-> UINT16_MAX, byte_max |-> 0, first |-> s.first, last |-> s.last]
NoCounts == [packets |-> 0, bytes |-> 0]
ResetGlobal(g) == [all |-> reset_stats(g.all), marker |-> 0, transport |-> <<>>]

store_stats(s, p, ts) ==
    [packets |-> s.packets + 1, bytes |-> s.bytes + p.len,
     byte_min |-> IF p.len < s.byte_min THEN p.len ELSE s.byte_min,
     byte_max |-> IF p.len > s.byte_max THEN p.len ELSE s.byte_max,
     first |-> IF s.packets = 0 THEN ts ELSE s.first, last |-> ts]

\* The interface loses its last character when both names have eight, and then may read
\* as one of seven.
get_location(p) ==
    <<p.mampid, IF p.mampid.len + 1 + p.nic.len > LOCATION THEN [p.nic EXCEPT !.last = "", !.len = 7] ELSE p.nic>>

\* store_unique, and store_stats on what it returns, which sets the times of a new entry.
store_unique(l, key, p, ts) ==
    IF \E i \in DOMAIN l : l[i].key = key
    THEN [i \in DOMAIN l |-> IF l[i].key = key THEN [key |-> key, stats |-> store_stats(l[i].stats, p, ts)] ELSE l[i]]
    ELSE Append(l, [key |-> key, stats |-> store_stats(reset_stats(NoStats), p, ts)])

\* A counter of an array that has n of them.
Count(a, i, len, n) ==
    LET old == IF i \in DOMAIN a THEN a[i] ELSE NoCounts
    IN IF i >= n THEN a
       ELSE [j \in DOMAIN a \cup {i} |->
                IF j = i THEN [packets |-> old.packets + 1, bytes |-> old.bytes + len] ELSE a[j]]

IInit ==
    /\ todo \in 0..MaxFiles
    /\ ipc = "next"
    /\ global = [all |-> NoStats, marker |-> 0, transport |-> <<>>]
    /\ mpid = <<>> /\ CI = <<>> /\ location = <<>>
    /\ ipproto = <<>>
    /\ status = 0
    /\ seen = <<>>

-----------------------------------------------------------------------------
\* reset, forgetting one of the lists.
ResetAllButLocation ==
    /\ global' = ResetGlobal(global)
    /\ mpid' = <<>> /\ CI' = <<>> /\ UNCHANGED location
    /\ ipproto' = <<>>

reset ==
    /\ global' = ResetGlobal(global)
    /\ mpid' = <<>> /\ CI' = <<>> /\ location' = <<>>
    /\ ipproto' = <<>>

\* process, up to stream_open: the next file, or stdin if none was given and it is not a
\* terminal.
process ==
    /\ ipc = "next"
    /\ reset
    /\ seen' = <<>>
    /\ \/ ipc' = "read" /\ UNCHANGED status
       \/ ipc' = (IF todo > 1 THEN "next" ELSE "ended") /\ status' = 1
    /\ todo' = IF todo > 0 THEN todo - 1 ELSE 0

ShowUsage ==
    /\ ipc = "next" /\ todo = 0
    /\ ipc' = "ended"
    /\ UNCHANGED <<todo, global, mpid, CI, location, ipproto, status, seen>>

\* The arrays have no place for their last index.
OverTransport(p) == p.type = UINT16_MAX
OverIpproto(p) == p.type \in {ETHERTYPE_IP, ETHERTYPE_VLAN} /\ p.ipproto = UINT8_MAX

\* What is counted behind the end of an array is counted in what the build has put there:
\* padding, the other statistics, or a pointer of the stream or of a list.
Overrun(p) ==
    (IF OverTransport(p) THEN {"padding", "pointer", "ipproto"} ELSE {})
    \cup (IF OverIpproto(p) THEN {"padding", "pointer", "global"} ELSE {})

\* store_stats for the overview, and parse_ethernetII; hit is what an overrun counts in.
parse_ethernetII(p, ts, hit) ==
    LET all == store_stats(global.all, p, ts)
    IN /\ global' = [all |-> IF hit = "global" THEN [all EXCEPT !.packets = @ + 1, !.bytes = @ + p.len] ELSE all,
                     marker |-> IF global.marker = 0 THEN p.marker ELSE global.marker,
                     transport |-> IF p.type <= 1500 THEN global.transport
                                   ELSE Count(global.transport, p.type, p.len, UINT16_MAX)]
       /\ ipproto' = IF p.type \in {ETHERTYPE_IP, ETHERTYPE_VLAN} THEN Count(ipproto, p.ipproto, p.len, UINT8_MAX)
                     ELSE IF hit = "ipproto" THEN Count(ipproto, 0, p.len, UINT8_MAX) ELSE ipproto

\* show_info: one packet.
ReadInfo(p) ==
    /\ ipc = "read" /\ Len(seen) < MaxRead
    /\ LET ts == [left |-> todo, at |-> Len(seen) + 1]
       IN /\ \E hit \in IF Overrun(p) = {} THEN {"nothing"} ELSE Overrun(p) :
                parse_ethernetII(p, ts, hit) /\ ipc' = IF hit = "pointer" THEN "undefined" ELSE "read"
          /\ mpid' = store_unique(mpid, p.mampid, p, ts)
          /\ CI' = store_unique(CI, p.nic, p, ts)
          /\ location' = store_unique(location, get_location(p), p, ts)
    /\ seen' = Append(seen, p)
    /\ UNCHANGED <<todo, status>>

\* The end of the file or an error: both print what there is, and neither is the status.
ShowInfo ==
    /\ ipc = "read"
    /\ ipc' = IF todo > 0 THEN "next" ELSE "ended"
    /\ UNCHANGED <<todo, global, mpid, CI, location, ipproto, status, seen>>

INext == process \/ ShowUsage \/ (\E p \in InfoPackets : ReadInfo(p)) \/ ShowInfo

-----------------------------------------------------------------------------
\* The sums of the first numbers of w.
Sums(w) ==
    LET sum[n \in Nat] == IF n = 0 THEN 0 ELSE sum[n - 1] + w[n]
    IN sum

\* The octets of the packets of ps at these places.
Bytes(ps, at) == Sums([n \in Nat |-> IF n \in at THEN ps[n].len ELSE 0])[Len(ps)]

\* The statistics of the packets at these places of the file that is read when so many
\* are left.  The smallest is not larger than the value byte_min begins with.
Describes(s, ps, at, left) ==
    LET Lens == {ps[i].len : i \in at}
    IN /\ s.packets = Cardinality(at) /\ s.bytes = Bytes(ps, at)
       /\ s.byte_min \in Lens \cup {UINT16_MAX} /\ \A n \in Lens \cup {UINT16_MAX} : s.byte_min <= n
       /\ s.byte_max \in Lens \cup {0} /\ \A n \in Lens : n <= s.byte_max
       /\ at # {} =>
             /\ s.first.left = left /\ s.first.at \in at /\ \A i \in at : s.first.at <= i
             /\ s.last.left = left /\ s.last.at \in at /\ \A i \in at : i <= s.last.at

\* keys: the name of every packet of the file.
Tallies(l, ps, keys, left) ==
    /\ \A i, j \in DOMAIN l : l[i].key = l[j].key => i = j
    /\ {l[i].key : i \in DOMAIN l} = {keys[i] : i \in DOMAIN ps}
    /\ \A i \in DOMAIN l : Describes(l[i].stats, ps, {k \in DOMAIN ps : keys[k] = l[i].key}, left)

\* What capinfo would print is about the file being read and nothing else, whatever the
\* files before were ("only for the current file", reset): the overview has the number,
\* sizes and times of its packets, and each list one entry for every name, with those of
\* its packets.  Of the times this is said when the file has packets: for an empty file
\* the overview keeps those of the file before, which reset_stats does not clear.
\* Nothing is said of a file with a packet that is counted behind the end of an array.
\* Locations are told apart by what get_location leaves of the names.
StatsAddUp ==
    ipc = "read" /\ (\A i \in DOMAIN seen : Overrun(seen[i]) = {}) =>
        /\ Describes(global.all, seen, DOMAIN seen, todo)
        /\ Tallies(mpid, seen, [i \in DOMAIN seen |-> seen[i].mampid], todo)
        /\ Tallies(CI, seen, [i \in DOMAIN seen |-> seen[i].nic], todo)
        /\ Tallies(location, seen, [i \in DOMAIN seen |-> get_location(seen[i])], todo)
=============================================================================
