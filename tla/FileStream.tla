----------------------------- MODULE FileStream -----------------------------
(***************************************************************************)
(* Reading packets of a capture file through the byte buffer of a stream:  *)
(* stream_read, stream_peek and fill_buffer of src/stream.c with the       *)
(* callback of src/stream_file.c.                                          *)
(*                                                                         *)
(* A byte is its offset in the file, behind the file header; a packet is   *)
(* its number.  Packet i starts at start[i] and ends before start[i+1]:    *)
(* a header of Hdr bytes and caplen bytes.                                 *)
(***************************************************************************)
EXTENDS Integers, Sequences

CONSTANTS
    Hdr,          \* sizeof(struct cap_header)
    Starts,       \* the files: sequences of the offsets where packets start
    BufSizes,     \* buffer sizes of a stream
    Match,        \* packets the filter of stream_read matches
    PeekMatch     \* packets the filter of stream_peek matches

ASSUME HdrAssumption == Hdr \in Nat \ {0}
ASSUME BufSizesAssumption == BufSizes \subseteq {b \in Nat : b >= Hdr}
ASSUME StartsAssumption ==
    \A s \in Starts :
        /\ s \in Seq(Nat) /\ Len(s) >= 1 /\ s[1] = 0
        /\ \A i, j \in 1..Len(s) : i < j => s[i] + Hdr <= s[j]

VARIABLES
    start,        \* offsets of the packets of this file, and of its end
    size,         \* bytes of the file; less than the end when it is cut short
    buffer_size,
    buffer,       \* the byte at each position of the buffer, -1 for none yet
    readPos,
    writePos,
    fpos,         \* bytes read from the file
    pc,           \* where the reader is in stream_read or stream_peek
    data,         \* where *data or *header points in the buffer, -1 for NULL
    ret,          \* what the last call returned
    out,          \* history: packets taken; stat.read is its length
    delivered,    \* history: packets returned; stat.matched is its length
    peeked        \* history: the packet the last stream_peek returned, 0 for none

file == <<start, size, buffer_size>>
window == <<buffer, readPos, writePos, fpos>>
vars == <<file, window, pc, data, ret, out, delivered, peeked>>

Packets == 1..Len(start)-1

TypeOK ==
    /\ start \in Starts
    /\ size \in Nat
    /\ buffer_size \in BufSizes
    /\ buffer \in [0..buffer_size-1 -> Int]
    /\ readPos \in 0..buffer_size
    /\ writePos \in 0..buffer_size
    /\ fpos \in Nat
    /\ pc \in {"idle", "read", "body", "peek", "closed"}
    /\ data \in Int
    /\ ret \in {"none", "ok", "eof", "error", "invalid"}
    /\ out \in Seq(Nat)
    /\ delivered \in Seq(Nat)
    /\ peeked \in Nat

Init ==
    /\ start \in Starts
    /\ size \in 0..start[Len(start)]
    /\ buffer_size \in BufSizes
    /\ buffer = [p \in 0..buffer_size-1 |-> -1]
    /\ readPos = 0
    /\ writePos = 0
    /\ fpos = 0
    /\ pc = "idle"
    /\ data = -1
    /\ ret = "none"
    /\ out = <<>>
    /\ delivered = <<>>
    /\ peeked = 0

\* The packet whose header starts with the byte at a position, 0 for garbage.
PacketAt(p) ==
    IF \E i \in Packets : start[i] = buffer[p]
    THEN CHOOSE i \in Packets : start[i] = buffer[p]
    ELSE 0

\* sizeof(struct cap_header) + cp->caplen.
PacketSize(p) ==
    IF PacketAt(p) = 0 THEN Hdr ELSE start[PacketAt(p) + 1] - start[PacketAt(p)]

HasHeader == writePos - readPos >= Hdr
HasPacket == readPos + PacketSize(readPos) <= writePos

-----------------------------------------------------------------------------
(* fill_buffer, with the result r.                                         *)

\* Mutant of Undrained: a packet larger than the buffer counts as read.
UndrainedHeader ==
    /\ writePos = buffer_size
    /\ writePos - readPos > Hdr

\* A full buffer with more than the next packet is not touched.
Undrained ==
    /\ writePos = buffer_size
    /\ writePos - readPos > Hdr
    /\ writePos - readPos > PacketSize(readPos)

\* Mutant of Refill: the content stays where it is.
RefillNoMove(n) ==
    LET bytes == writePos - readPos
    IN  /\ buffer' = [p \in 0..buffer_size-1 |->
                         IF p < bytes THEN buffer[p]
                         ELSE IF p < bytes + n THEN fpos + (p - bytes)
                         ELSE buffer[p]]
        /\ readPos' = 0
        /\ writePos' = bytes + n

\* memmove to the front, then n bytes from the file behind them.
Refill(n) ==
    LET bytes == writePos - readPos
    IN  /\ buffer' = [p \in 0..buffer_size-1 |->
                         IF p < bytes THEN buffer[p + readPos]
                         ELSE IF p < bytes + n THEN fpos + (p - bytes)
                         ELSE buffer[p]]
        /\ readPos' = 0
        /\ writePos' = bytes + n

\* Mutant of Room: the content of the buffer is not subtracted.
RoomAll == buffer_size

\* What fread has to give: as much as there is room for, or up to the end.
Room == buffer_size - (writePos - readPos)
Readable == IF size - fpos < Room THEN size - fpos ELSE Room

\* Bytes were read.
FillOk ==
    \/ Undrained /\ UNCHANGED window
    \/ /\ ~Undrained
       /\ Readable > 0
       /\ Refill(Readable)
       /\ fpos' = fpos + Readable

\* fread returned 0.
FillEof ==
    /\ ~Undrained
    /\ Readable = 0
    /\ Refill(0)
    /\ UNCHANGED fpos

\* fread failed before it had all bytes; those it had are not counted.
FillError ==
    /\ ~Undrained
    /\ Refill(0)
    /\ \E lost \in 0..Readable : lost < Room /\ fpos' = fpos + lost

-----------------------------------------------------------------------------

\* Return r to the caller, which gives the stream up after an error.
Return(r) ==
    /\ ret' = r
    /\ pc' = IF r = "error" THEN "closed" ELSE "idle"

\* fill_buffer said there is nothing, or failed: return that.
FillReturn ==
    /\ \/ FillEof /\ Return("eof")
       \/ FillError /\ Return("error")
    /\ UNCHANGED <<file, data, out, delivered, peeked>>

\* fill_buffer found bytes: once more from the top of the loop.
FillAgain(top) ==
    /\ FillOk
    /\ pc' = top
    /\ UNCHANGED <<file, data, ret, out, delivered, peeked>>

ReadCall ==
    /\ pc = "idle"
    /\ pc' = "read"
    /\ data' = -1
    /\ UNCHANGED <<file, window, ret, out, delivered, peeked>>

\* Less than a header in the buffer.
ReadHeader ==
    /\ pc = "read" /\ ~HasHeader
    /\ FillAgain("read") \/ FillReturn

\* Mutant of ReadTopUp: the end of the file ends the stream at once.
ReadTopUpEof ==
    /\ pc = "read" /\ HasHeader
    /\ \/ FillOk /\ pc' = "body" /\ UNCHANGED ret
       \/ FillEof /\ Return("eof")
       \/ FillError /\ Return("error")
    /\ UNCHANGED <<file, data, out, delivered, peeked>>

\* There is a header: top up without waiting, the end of the file is no error.
ReadTopUp ==
    /\ pc = "read" /\ HasHeader
    /\ \/ FillOk /\ pc' = "body" /\ UNCHANGED ret
       \/ FillEof /\ pc' = "body" /\ UNCHANGED ret
       \/ FillError /\ Return("error")
    /\ UNCHANGED <<file, data, out, delivered, peeked>>

\* The packet is not in the buffer as a whole.
ReadBody ==
    /\ pc = "body" /\ ~HasPacket
    /\ FillAgain("read") \/ FillReturn

\* Mutant of ReadTake: readPos stays for a packet that does not match.
ReadTakeStays ==
    /\ pc = "body" /\ HasPacket
    /\ LET cp == PacketAt(readPos)
       IN  /\ out' = Append(out, cp)
           /\ data' = readPos
           /\ IF cp \in Match
              THEN /\ delivered' = Append(delivered, cp) /\ Return("ok")
                   /\ readPos' = readPos + PacketSize(readPos)
              ELSE pc' = "read" /\ UNCHANGED <<delivered, ret, readPos>>
    /\ peeked' = 0
    /\ UNCHANGED <<file, buffer, writePos, fpos>>

\* Mutant of ReadTake: *data is set after readPos has moved on.
ReadTakeLate ==
    /\ pc = "body" /\ HasPacket
    /\ LET cp == PacketAt(readPos)
       IN  /\ out' = Append(out, cp)
           /\ data' = readPos + PacketSize(readPos)
           /\ readPos' = readPos + PacketSize(readPos)
           /\ IF cp \in Match
              THEN delivered' = Append(delivered, cp) /\ Return("ok")
              ELSE pc' = "read" /\ UNCHANGED <<delivered, ret>>
    /\ peeked' = 0
    /\ UNCHANGED <<file, buffer, writePos, fpos>>

\* Mutant of ReadTake: a packet the filter rejects counts as matched.
ReadTakeCountsAll ==
    /\ pc = "body" /\ HasPacket
    /\ LET cp == PacketAt(readPos)
       IN  /\ out' = Append(out, cp)
           /\ data' = readPos
           /\ readPos' = readPos + PacketSize(readPos)
           /\ delivered' = Append(delivered, cp)
           /\ IF cp \in Match THEN Return("ok") ELSE pc' = "read" /\ UNCHANGED ret
    /\ peeked' = 0
    /\ UNCHANGED <<file, buffer, writePos, fpos>>

\* Take the packet; return it if the filter matches, else take another.
ReadTake ==
    /\ pc = "body" /\ HasPacket
    /\ LET cp == PacketAt(readPos)
       IN  /\ out' = Append(out, cp)
           /\ data' = readPos
           /\ readPos' = readPos + PacketSize(readPos)
           /\ IF cp \in Match
              THEN delivered' = Append(delivered, cp) /\ Return("ok")
              ELSE pc' = "read" /\ UNCHANGED <<delivered, ret>>
    /\ peeked' = 0
    /\ UNCHANGED <<file, buffer, writePos, fpos>>

PeekCall ==
    /\ pc = "idle"
    /\ pc' = "peek"
    /\ UNCHANGED <<file, window, data, ret, out, delivered, peeked>>

PeekHeader ==
    /\ pc = "peek" /\ ~HasHeader
    /\ FillAgain("peek") \/ FillReturn

\* A packet with caplen 0 is an error for stream_peek.
PeekInvalid ==
    /\ pc = "peek" /\ HasHeader
    /\ PacketSize(readPos) = Hdr
    /\ Return("invalid")
    /\ UNCHANGED <<file, window, data, out, delivered, peeked>>

PeekBody ==
    /\ pc = "peek" /\ HasHeader
    /\ PacketSize(readPos) # Hdr
    /\ ~HasPacket
    /\ FillAgain("peek") \/ FillReturn

\* Mutant of PeekFound: the packet is popped.
PeekPops ==
    /\ pc = "peek" /\ HasHeader
    /\ PacketSize(readPos) # Hdr
    /\ HasPacket
    /\ data' = readPos
    /\ readPos' = readPos + PacketSize(readPos)
    /\ IF PacketAt(readPos) \in PeekMatch
       THEN Return("ok") /\ peeked' = PacketAt(readPos)
       ELSE UNCHANGED <<pc, ret, peeked>>
    /\ UNCHANGED <<file, buffer, writePos, fpos, out, delivered>>

\* Return the packet if the filter matches, else look again.
PeekFound ==
    /\ pc = "peek" /\ HasHeader
    /\ PacketSize(readPos) # Hdr
    /\ HasPacket
    /\ data' = readPos
    /\ IF PacketAt(readPos) \in PeekMatch
       THEN Return("ok") /\ peeked' = PacketAt(readPos)
       ELSE UNCHANGED <<pc, ret, peeked>>
    /\ UNCHANGED <<file, window, out, delivered>>

Reading == ReadHeader \/ ReadTopUp \/ ReadBody \/ ReadTake
Peeking == PeekHeader \/ PeekInvalid \/ PeekBody \/ PeekFound

\* The stream was closed after an error.
Closed == pc = "closed" /\ UNCHANGED vars

Next ==
    \/ ReadCall
    \/ PeekCall
    \/ Reading
    \/ Peeking
    \/ Closed

Spec == Init /\ [][Next]_vars

\* A call that was made runs on; nothing obliges the program to call.
FairSpec == Spec /\ WF_vars(Reading) /\ WF_vars(Peeking)

-----------------------------------------------------------------------------

\* The buffer between readPos and writePos is the part of the file before
\* fpos, and its first byte is the first byte of the next packet: neither the
\* memmove nor a refill at the boundary of a packet shifts the stream.
WindowAligned ==
    pc # "closed" =>
        /\ readPos <= writePos
        /\ \A p \in readPos..writePos-1 : buffer[p] = fpos - (writePos - p)
        /\ Len(out) + 1 \in 1..Len(start)
        /\ start[Len(out) + 1] = fpos - (writePos - readPos)

\* Every packet is taken once, in the order of the file.
PacketsInOrder == \A i \in DOMAIN out : out[i] = i

\* Until the next call the packet that was returned is in the buffer as a
\* whole, at *data, although readPos is already behind it.
DataValid ==
    pc = "idle" /\ ret = "ok" /\ data # -1 =>
        LET i == IF peeked # 0 THEN peeked ELSE out[Len(out)]
            n == start[i + 1] - start[i]
        IN  /\ data >= 0 /\ data + n <= writePos
            /\ \A k \in 0..n-1 : buffer[data + k] = start[i] + k

\* If no packet is larger than the buffer, "finished" means that every packet
\* that is in the file as a whole was taken.
EofComplete ==
    ret = "eof" /\ (\A i \in Packets : start[i + 1] - start[i] <= buffer_size) =>
        \A i \in Packets : start[i + 1] <= size => i <= Len(out)

\* stream_read takes the packet that stream_peek has returned before.
PeekIsNext ==
    [][out' # out /\ peeked # 0 => out' = Append(out, peeked)]_vars

\* Neither loop runs for ever: each turn that does not return has moved bytes.
CallsReturn == pc \in {"read", "body", "peek"} ~> pc \in {"idle", "closed"}

\* caputils/stream.h: stream_read returns "-1 when finished".
EofMeansFinished ==
    ret = "eof" => \A i \in Packets : start[i + 1] <= size => i <= Len(out)

\* caputils/stream.h: a filter of stream_peek "_will_ discard non-matches", and
\* there is "no blocking version of this call".
PeekReturns == pc = "peek" ~> pc # "peek"

\* The packets that have entered the stream as a whole, for PacketStream.
Entered == [i \in 1..Len(SelectSeq(start, LAMBDA s : s <= fpos)) - 1 |-> i]

\* The file stream implements the promise of a stream.
Promise == INSTANCE PacketStream WITH Packet <- Nat, rx <- Entered
RefinesPacketStream == Promise!Spec
=============================================================================
