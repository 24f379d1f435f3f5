# TLA+ models of libcap_utils

libcap_utils reads and writes network captures: packets with a `cap_header`,
taken from capture files or received as measurement frames from measurement
points.  This directory holds TLA+ models of its parts, TLC configurations that
check them on small instances, and TLAPS proofs for all instances.

## The system

| Part | State | Operations | What is hard |
|---|---|---|---|
| Frame ring, `src/stream_buffer.c` | slots, `writePos`, `readPos`, `read_ptr`, `num_packets` | init, `read_frame`, `stream_frame_buffer_read` | full and empty look alike; receiving while consuming; a returned pointer into a released slot |
| Ethernet stream, `src/stream_ethernet.c`, `match_inc_seqnr` | addresses, expected sequence numbers, socket, flushed | open, `stream_add`, receive loop, write, close | loss, duplicates, interleaved senders, wrap of the number, foreign and damaged frames, signals |
| UDP and PF_RING streams | as above, without sequence check | open, add, receive, write, close | every datagram is stored |
| File stream, `src/stream.c`, `src/stream_file.c` | byte buffer, positions, file | open, create, `stream_read`, `stream_peek`, `stream_write`, flush, close | packets across the end of the buffer, truncated files, read errors, oversized packets, three header formats |
| Filter, `src/filter.c`, `src/createfilter.c` | counter, ranges, last timestamp | create, match, pack, unpack | state that changes with each packet; what a refused value leaves behind |
| MArC, `src/marc.c` | socket, compatibility mode | init, push, poll | lost, late and repeated datagrams; two legacy dialects |
| Connections, `src/packet/connection_id.c`, `src/slist.c` | buckets, entries, siblings | `connection_id` | pointers into a list that grows |
| Packet headers and formats, `src/packet.c`, `src/format.c`, `src/protocols/` | position in the packet | walk, print | loops whose length the packet decides |
| `capmerge` | streams, peeked packets, memory to sort | merge, close, sort | streams that end while others go on |
| `capdump` | output stream, marker counters, flags | main loop, signal handlers, UDP, TCP thread | three actors share the output without a lock |
| `capfilter`, `capshow`, `capwalk`, `cap2pcap`, `pcap2cap`, `capinfo` | options, counters, outputs | loops over `stream_read` | limits, failed reads and writes, exit status |

A stream is one of the transports behind `stream_read`.  Ethernet, UDP and
PF_RING receive whole frames into the ring and take packets from it; files fill
a byte buffer.  The tools call `stream_read` or `stream_peek`, with a filter or
without, and write with `stream_copy`.  Measurement points get their filters from
MArCd, packed by `filter_pack`, in the events of `marc.c`.

## Modules

| Module | Models |
|---|---|
| `PacketStream` | The promise of a stream: packets arrive, are taken in order, and those that match are delivered. |
| `FrameBuffer` | The ring, driven by any transport callback. Implements `PacketStream`. |
| `EthernetStream` | The ethernet callback, the sequence check and the network, composed with the ring by `EXTENDS FrameBuffer`, whose steps it takes. |
| `FileStream` | `stream_read`, `stream_peek`, `fill_buffer` and the file callback. Implements `PacketStream`. |
| `Address`, `StreamFile`, `StreamOpen` | Parsing of stream addresses; opening and creating capfiles; `stream_open`, `stream_create`, `stream_add`, `stream_from_getopt`. Used by `Capdump`. |
| `Picotime`, `Filter`, `CreateFilter` | Timestamps; `filter_match`, `filter_pack`, `filter_unpack`; `filter_from_argv` and the setters. Used by `CaptureTools`. |
| `CaptureTools` | capfilter, capshow, capwalk, cap2pcap, pcap2cap, and a program that sends a filter. |
| `Capmerge`, `Capdump`, `Capinfo` | The tool of that name. |
| `Marc` | Both ends of `marc.c` and the network between them. |
| `Headers`, `Dns`, `ConnectionId` | `header_walk` with every `next_payload`; DNS names and sections; `connection_id`. Used by `FormatPacket`. |
| `FormatPacket` | `format_pkg`: the walk, the loops over TCP options, SCTP chunks and DNS, and where ICMP and HTTP read behind their data. |
| `PacketTools` | `FormatPacket` and `Capinfo`: a run of capshow or of capinfo. |
| `*Proofs` | Theorems about the module named. `EthernetStreamProofs` begins with those of the ring, `CaptureToolsProofs` with those of `Filter` and `CreateFilter`; `FormatProofs` is about `Headers`, `Dns` and `ConnectionId`. |
| `MC*` | Instances for TLC. |

**FrameBuffer.**  A frame is a sequence of packets; `slot[s]` is the memory of
`frame[s]`; `read_ptr` counts the packets already passed in the current frame
(`NULL` as in the code).  `pc` is the place in `stream_frame_buffer_read`: `empty` and
`topup` are its two calls of `read_frame`, `take` the rest; between calls it is `returned`
behind a packet, and `idle` before the first call and behind EAGAIN, which leaves
`*header` alone.  What a callback can
do is one action each: `FrameStored` (non-zero), `FrameRefused` and `Nothing`
(zero, with or without having received), `FrameSkipped` (looks for another),
`FrameFatal` (the process dies in it).  `rx`, `out`, `delivered` and `origin` are
history variables; `out` and `delivered` stand for `stat.read` and `stat.matched`.

**EthernetStream.**  Each turn of the loop in `stream_ethernet_read_frame` is an
action conjoined with the ring action it causes.  `sane` stands for
`valid_framesize`, `version` for `is_valid_version`.  The network (`Send`) is
external: it loses frames, and on a loopback interface it delivers them twice.
Sequence numbers are taken modulo `SeqWrap`, which is 0xFFFF in the code; that
the sender wraps at the same value is an assumption the code makes too.
A `stream_add` that fails changes nothing and is not an action.  `stat.recv` is
left out.

**FileStream.**  A byte is its offset in the file, so a byte in the wrong place
shows.  The size of a packet is read from the byte at `readPos`, as the code
reads `caplen` there.  Files may be cut short at any byte.  `fread` may fail at any
refill that has room, after which the caller closes the stream, as all tools do.
The `EAGAIN` branches are left out: the file callback does not wait.  So is the
test of `flushed`: only the ethernet and PF_RING callbacks set it, and those
streams do not use the byte buffer.

**Capmerge.**  Streams are abstracted to what `FileStream` promises: the packets
of a file in order, ended by the end of the file or by a place where `stream_peek`
fails (a packet with `caplen` 0, or a read error), after which the stream is closed
like one that has ended.  All packets have `len` > 0, which the sort uses as its mark.
`stream_read` may fail although the packet was peeked (`ReadFails`), and so may the
creation of the sorted file: both end the program with an error.  A write may fail; the
merge stops then, the sort does not notice.  What stdio still holds when a file is
closed counts as written.

**CaptureTools.**  A number under a mask is the set of its bits, a BPF program its
verdict.  An argument of the command line is a record of what each parser would
find in it, so splitting, `getopt` and parsing are modelled by what they leave in
`filter` and `opt`.  capfilter and capshow call `filter_match` themselves; capwalk and
cap2pcap hand the filter to `stream_read`, which reads on until a packet matches
(`ReadAgain`).  When the outputs are closed, `fclose` may lose the end of each (`Flushed`,
kept in `lost`): its result is not looked at.  `seen` and `verdict` are history variables.

**Capdump.**  Each thread has its `pc`, the marker it handles and its copy of `dst`;
a step ends where the thread touches what the other thread or the SIGALRM handler
uses.  `Alarm` may come at any point of either.  A file name is the sequence number
of the marker and the suffix `generate_filename` adds; `buffer` and `suffix` are its
static variables, shared by the threads as in the code.  `stream_file_open` reads
back what `stream_file_create` and `stream_copy` wrote, with sizes in a few units and the
16 bits of `comment_size`.  A stream is `saved` when `stream_close` could flush it; a FIFO is
removed instead.  A thread that still holds a pointer to a closed stream may find
it without effect, crash, or use a later stream that has its memory (`Memory`).  A TCP
connection that brings nothing leaves the last message in `tcprelay`'s buffer, which is
handled again (`TcpEmpty`).  A FIFO that is read from is no file of `disk`.

**Marc.**  `net` holds every datagram that was sent; any may arrive any number of
times, or never.  MArCd 0.6, the web interface, old measurement points and the
relay are external and only send.  `meant`, `meant_id` and `dialects` are history: what
the sender wanted to say, and the modes of the receiver it said it for.
`server_version` is stored from the answer and read nowhere; it is left out.

**FormatPacket.**  What a header says is chosen each time it is read, so every
content of a packet is covered, also ones no two reads would agree on.  DNS
messages are octets, because references point back into them.  A pointer into a
list of `connection_id` is an index and the number of reallocations at the time.
Printing an ICMP message looks its code up in a table without a last entry, and printing
HTTP compares beyond the captured octets; both may come back or not (`Printed`).

**Capinfo.**  A timestamp is the file and the place of its packet, so the time of another
file shows.  `reset_stats` leaves the times alone, as in the code.  The counters of
types and protocols have one place too few; what a packet with the last index is counted
in depends on the layout of the build: padding, other statistics, or a pointer (`Overrun`).

## Runs

| Run | Shows |
|---|---|
| `frame_buffer` | `FIFO`, `RingAccounting`, `HeaderValid`, `UnreadKept`, `EveryPacketTaken`, and that the ring implements `PacketStream`. |
| `ethernet_stream` | `SeqnumTracksSender`, `GapsDetected`, and `AgainMeansDrained`: whatever ends a wait, EAGAIN is said only when nothing stored is left. |
| `file_stream` | `WindowAligned`, `PacketsInOrder`, `DataValid`, `EofComplete`, `PeekIsNext`, `CallsReturn`, and `PacketStream`. |
| `capmerge` | `StreamsAccounted`, `MergeComplete`, `TwoFilesSorted`, `SortStable`, `Terminates`. |
| `capture_tools` | `FrameNumSelects`: `--frame-num` selects the frames of its ranges, if they leave gaps. `RejectionLatches`: `--frame-max-dt` ends the matching for good. `RefusedValueIgnored`: a value a parser refuses changes nothing. `WirePreservesVerdict`: a filter decides the same after packing and unpacking. `ExitZeroMeansWritten`: capfilter's status 0 means every packet is where it belongs. |
| `capdump` | `OnceInOrder`, `MarkerHeadsFile`, `TracesKept`, `CreatedFilesOpen`, and `TerminateStops`: a terminate marker ends the saving even if other streams send none. |
| `marc` | `MeaningPreserved`: an event is read as it was meant, where both ends agree on the version. `InitEnds`: `marc_init_client` returns. |
| `packets` | `FormatEnds`: a packet of any contents is printed to its end. `NameFits`: a DNS name stays in its buffer. `ConnectionIds`: packets between two ends, in both directions, have one id until a new SYN gives them another, and other ends have other ids (TCP and UDP between the same ends share one). `StatsAddUp`: capinfo's numbers are those of the file at hand. |
| `ethernet_duplicates` | Violated: duplicates "will be ignored" (`src/stream.c:112`), but they are delivered. |
| `file_oversize` | Violated: -1 means "finished" (`caputils/stream.h:162`), but a packet larger than the buffer gives -1 too. |
| `file_peek_filter` | Violated: `stream_peek` discards non-matches and does not block (`caputils/stream.h:185`), but it loops on the first one. |
| `capmerge_order` | Violated: sorted files give a sorted trace (`man/capmerge.1:24`), but three may not. |

**Premises.**  Some properties hold under a condition that the code needs:

- `FrameNumSelects` needs a gap between ranges. Ranges that touch lose the first
  frame of the second, which is tested against the range before it
  (`src/filter.c:178`, `250`). Each range has to end at a frame or not at all: an end
  of 0 is taken for none (`185`).
- `ExitZeroMeansWritten` excepts the end of a file that `fclose` could not write, and
  `CreatedFilesOpen` is about files that were saved, with a comment shorter than 2^16.
- `OnceInOrder` excepts what `tcprelay` writes for a TCP connection that brought nothing.
- `StatsAddUp` says nothing of a file with a packet that is counted behind the end of an
  array, and of the times only when the file has packets.
- `RefusedValueIgnored` needs each option once. Given again, a refused value has
  already overwritten part of the accepted one.
- `WirePreservesVerdict` excludes the criteria that `filter_pack` or `filter_unpack`
  leaves out (`Unsent`). A BPF program does not travel either.
- `TracesKept` and `MarkerHeadsFile` exclude `--listen`, where two threads share the
  static buffer of `generate_filename`. In mode A, `TracesKept` is about the file that
  is open: returning to an earlier file truncates it (`tools/capdump.c:375-386`).
- `MeaningPreserved` excludes an event read in a mode its sender did not know of, and
  STATUS and FILTER_REQUEST from a client in compatibility mode, which
  `legacy_compat` maps to types a libmarc server reads otherwise.
- `ConnectionIds` holds until a list is reallocated: the pointers between siblings
  are stale after that.

**Bounds.**  The ring has three slots and five received packets in frames of zero to
two: it fills, empties and wraps, with a current frame in any slot and the next
frame in the first.  The ethernet run has two slots, two senders, four frames,
`SeqWrap` = 3, so that a number wraps and is passed again, room for two frames in
the socket and one signal; frames have one packet, as the ring run covers the
others, the caller's filter rejects the second, and the addresses are symmetric.  Files have up to three packets of up to
five bytes with a header of two, and buffers from exactly a header to more than
a packet: packets that straddle the end, fit exactly, and do not fit.  capmerge
gets up to three files of two packets with two timestamps, which has ties,
unsorted files, and every order of ending; the order violation needs three.

`capture_tools` has streams of up to four packets out of four that differ in tags,
protocol, address bits, ports and time, and about 45 command lines: seven options,
each with a masked value, a bad one and a bad mask; the four
forms of a range; options that lack their argument; and limits.  `PICODIVIDER` = 10 makes fractions carry.  A sender
of filters makes up to `MaxSettings` = 2 calls.  `capdump` has 27 invocations, for
every kind of input, output and mode, with and without a key and with a comment that is
too long, `MaxEvents` = 3 arrivals (`MaxRelayed` = 2 with the TCP thread), two marker
sequence numbers and a terminate marker: enough for a marker, a return to its file, and a
terminate behind them.  A marker with a wrong key is treated like any other packet, so
none is sent.  `marc` has
`MaxSent` = 2 datagrams next to those of the relay, each delivered any number of times
at any later moment; 31 interfaces is the largest number whose size fits the octet.
`packets` has every DNS body of four octets over five values (a label, its end, a
reference and two places it may lead to) and three longer with a question and an
answer, buffers of `NAME` = 8 and `MAX_LABEL_REFERENCES` = 2, so that both limits are
hit; up to four packets between two pairs of hosts that share a bucket, in lists
that grow at four; and two files of up to three packets for capinfo, among them names
that agree once the location is cut and packets with the last type and protocol.

**Fairness.**  The ring run assumes that the program keeps calling, and that the
callback returns (weak fairness of `Call`, `Nothing`, `AbortEmptyFrame` and
`TakePacket`).  The callback returns when the queue of the socket runs dry or a
signal arrives; under an endless run of frames for others it would not, and the
code does not exclude that, so this is an assumption on the network.  No fairness
is put on the arrival of frames.  `file_stream` assumes that a call that was made
runs on (`Reading`, `Peeking`), and `capmerge` that the program runs; both are
sequential.  The two `file_*` violation runs use the same fairness.  `capdump` assumes
that SIGALRM comes again and again (`setitimer`, every second) and that the main thread
runs, except where it waits in `fread`; no fairness for the TCP thread or for arrivals.
`marc` assumes that `select` returns when its time is over, `packets` that formatting,
which waits for nobody, goes on.

**Deadlock** is checked in all runs; a process that has aborted or ended stutters
by an action of its own.

## Proofs

All theorems hold for every value of the constants that satisfies the assumptions.

*Ring.*  `FIFO` is not inductive: that the next packet is the right one depends on
where its slot's packets are in the history.  `FBInv` adds `RingAccounting` (each
unread slot holds its part of `rx`, and the parts are consecutive) and `ReaderPlace`
(the place in the code agrees with `read_ptr`).  The crux is `WriteSlotFree`: while
the callback is at work the slot at `writePos` is not an unread one.  From `FBInv`
follow `TypeCorrect`, `PacketsInOrder`, `RingAccounts`, `ReturnedPacketValid`,
`UnreadNeverOverwritten` and `ImplementsPacketStream`.

*Ethernet.*  Each step is a ring step or a stutter (the lemma `EthernetImplementsRing`), so
the ring's theorems carry over (`EthernetPacketsInOrder`).  `EthernetAgainMeansDrained` is
one of them seen from the socket: a wait that ends without a frame gives EAGAIN only in
the call made with `read_ptr` = `NULL`, and `ReaderPlace` then leaves no frame unread.  `SeqnumTracksSender` is
not inductive: a `stream_add` could add an address that has already had frames
stored, with no expected number.  `SeqInv` adds `LastKnown`, that only addresses of the
stream have stored frames.  `SeqnumTracks` and `GapsAreDetected` follow, with lemmas
on remainders.

*File.*  `WindowInv` is the window's alignment, the order of packets, that a peeked
packet is the next, that the file position is within the file, and that there is a
header when the body is looked at.  `NextPacket` derives from it that the size
read at `readPos` is the size of the next packet.  `EofReached` is the argument for
the end of the file: no bytes to read and room to read them means the file is
exhausted, and then the next packet is not whole.

*capmerge*, for any number of files of any length.  `CapmergeInv` adds to
`StreamsAccounted` that the packets written are those taken from the files
(`Accounted`), that a packet seen in this turn is still the next of the stream at its
place (`Peeked`), and that what the sort has copied comes before all that is left
(`Copied`).  `CapmergeStreams`, `CapmergeComplete` and `CapmergeSortStable` follow.  For
two files `TwoInv` adds that all streams have been seen when a packet is chosen, and
that no packet to come is older than the last one written; `CapmergeTwoFiles` follows.
With three files the first of these fails, which is the violation of `capmerge_order`.

*MArC.*  What a datagram is turned into depends on the datagram, the end that reads
it and the mode of that end, so `MarcInv` says of each datagram on the net that it is
`Understood`: read as it was meant, by its receiver, in each mode it is meant for.  Loss,
repetition and reordering then need no argument.  `MarcPreservesMeaning` follows.

*capdump*, for any files, messages and modes.  `CapdumpInv` adds to the four properties
what they rest on.  `WrittenInv`: what a thread has written is not newer than what it
handles, and older while it has that still to write; so nothing is written twice although
`dst` is shared, whichever stream a stale pointer leads to.  `FilesInv`: the file of the
last stream of a name is what `stream_file_create` makes, which `stream_file_open` accepts.  `SingleInv` is about one thread: the stream of `dst` is the
only one that can be written to, a file a marker has begun is empty only while that marker is on its
way to it, and the name `generate_filename` has chosen belongs to no file (`FreeNameFree`:
there are more suffixes than files).  `WrittenOnceInOrder`, `MarkersHeadFiles`,
`CreatedFilesReopen` and `MarkersKeepTraces` follow.

*Headers.*  `WalkOnward`: a header that `header_walk` returns lies in the captured
octets, and behind the one before it, or at the same place if it ends the walk.
`Forward` says the same of each `next_payload`.  Twice the octets left is then a bound
on the headers to come; that the walk ends for this reason is checked by TLC.

*DNS.*  `DecoderInv` says that the name, and all that may still be added to it, leave
free the three octets kept back for `...`.  `PrintInv` carries it through capshow: what
the walk hands to the decoder is a message whose header was captured.
`NamesFitBuffer` follows.

*Connections.*  `ConnectionIds` speaks of all lines printed so far, the lists only of
the connections.  `ConnectionInv` relates them, as long as no list has moved: the items of
a list are in pairs that point to each other (`Pairs`), two ends have at most one pair that
is not finished (`OneConnection`), and that pair has the id of the last line between them
and the sequence number of the first line with that id (`Recorded`).  `Outcomes` shows that
`connection_id` either finds that pair and leaves the lists alone, or begins a new one with
a new id; `AskedTwice` that the second call for the same packet finds what the first began.
`ConnectionsRecorded` and `IdsTellConnections` follow, for any number of buckets.

*capinfo.*  `StatsInv` is `StatsAddUp` with the type of the history; `reset` begins it anew.  The octets of a set of packets are a sum
over their places: `BytesGrow` says what one packet more adds.  It rests on lemmas on sums
(`PartialSums`, `SumsAgree`) that look at the smallest place where one would fail, since
induction is out of the prover's reach.  `TalliesGrow` is the step of `store_unique`.
`StatisticsAddUp` follows, for files of any length.

*Filters and the tools that use them*, for any command line, settings and packets.
`WireVerdict`: `filter_unpack` of `filter_pack` gives the same verdict on every
packet, because the tests look only at fields both carry (`Alike`); `WireInv` says that
the filter at a measurement point came that way from the manager's, and `WirePreserves`
follows.  `FilterInv` relates the filter, which changes with each packet, to the one that
was parsed and the packets seen: the ranges left are the parsed ones without
those that ended before the counter, and `frame_last_ts` is the time of the last match.
`FrameNumbers` and `RejectionStays` follow; the second from the order of the packets, by
which one that is late makes all later ones late.  `CopyInv` says that behind a failed
write capfilter is on its way out with an error, and that the outputs hold what they should
otherwise; `ExitZero` follows.

Assumptions are those of the `ASSUME`s: at least one slot, frames are sequences of
packets, a wrap of at least 2 and room for at least one address, a buffer not
smaller than a header, packets not smaller than a header; capmerge has at least one
file and times are naturals; numbers of interfaces, header lengths and DNS octets are
naturals; a name buffer has room for the three octets kept back; the header of a capfile
is not longer than the size above which extensions are looked for; the fields of markers, packets and arguments have the types of
the structs; there are file names for what the markers ask for and a highest
suffix among them, and the texts of a command line are those of `Address`; a list of
connections begins with an even capacity (32 in the code), so that a pair is never split by a
reallocation.

Only model-checked: the liveness properties, which are out of the prover's reach;
the refinement of `PacketStream` by `FileStream`, whose mapping selects from a
sequence, a recursive definition; and `RefusedValueIgnored`, which compares the parsing of
two command lines of different length, turn by turn: that is an induction over the
arguments.

## Seen while modelling

The models follow the code in these places too; no run is about them.

- `man/capdump.1` says of mode A "Retain the previous trace and append packets to
  it"; that holds for the open file only (`tools/capdump.c:375`).
- `man/capfilter.1` describes ranges of frames without asking for gaps.  By
  `src/createfilter.c:326` a single number matches "this frame frame only";
  `--frame-num=0` matches every frame.
- capinfo's results are "only for the current file" (`tools/capinfo.c:119`), but
  `reset_stats` (`84`) keeps the times, and an empty file is shown with those of the
  file before it.  Its counters have no place for type 65535 and protocol 255.
- A TCP connection that brings nothing makes capdump handle and write the marker before
  it once more.
- A comment of 2^16 octets or more does not fit `comment_size`; the file is written and
  the first packet is then looked for inside the comment.
- `stream_close` does not look at what `fclose` returns, so a full disk may cut the end of a
  trace although the tool exits with 0.
- capwalk has the options for limits and does not use them; cap2pcap's `--packets`
  counts matched packets where its help says read.
- capshow and capwalk exit with 0 after a filter they could not parse, capinfo after
  a read error.
- An option of a filter without its argument takes the next word, even an option.
- The relay is asked once, though each of its five tries is logged as a request, and any datagram
  that arrives during the wait is taken for its answer.
- Error paths of `marc_init_client` leave the socket open, so that a second attempt
  fails at `bind`.
- An IPv6 header counts 20 octets in the test for truncation.

## Not modelled

- PF_RING, a vendor library behind the same ring, and the TCP stream, which is not
  built.
- Writing and closing of network streams: one system call each.  Receiving of the UDP
  stream is the ring with a callback that stores every datagram, which `FrameBuffer`
  covers; it has no instance of its own.
- The text of ARP, CDP, ICMP, IGMP, OSPF, PTPv2, STP and HTTP (of ICMP and HTTP only
  whether printing comes back is modelled), hex dumps, `filter_print`, logging and usage texts:
  output only.
- Queries of network interfaces; the contents of the MArC status report.
- `timepico_add`, which nothing calls, and the conversions to and from `timeval`.
- capmarker, which sends one marker (an input of `Capdump`), and ifstat, which prints
  one report.
