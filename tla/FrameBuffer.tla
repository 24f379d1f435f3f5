---------------------------- MODULE FrameBuffer -----------------------------
(***************************************************************************)
(* The ring of measurement frames between a socket and the reader of a     *)
(* stream (src/stream_buffer.c).  A transport supplies the callback that   *)
(* receives one frame into a slot; this module leaves open what it         *)
(* receives, the module of a transport says it (EthernetStream).           *)
(*                                                                         *)
(* A frame is the sequence of its packets.  read_ptr, a byte pointer in C, *)
(* is the number of packets of the current frame that were taken.          *)
(***************************************************************************)
EXTENDS Integers, Sequences

CONSTANTS
    Packet,      \* captured packets
    Frame,       \* measurement frames that may arrive: sequences of packets
    Match,       \* packets the caller's filter matches
    NumFrames    \* slots of the ring, fb->num_frames

ASSUME FrameAssumption == Frame \subseteq Seq(Packet)
ASSUME NumFramesAssumption == NumFrames \in Nat \ {0}

NULL == -1
Slots == 0..NumFrames-1

VARIABLES
    slot,          \* frame[]: what each slot's memory holds
    writePos,      \* slot the next frame is received into
    readPos,       \* slot packets are taken from
    read_ptr,      \* NULL when the ring is empty
    num_packets,   \* packets left in the current frame
    pc,            \* where the reader is: in stream_frame_buffer_read, or out of it,
                   \* "idle" without a packet and "returned" with one
    header,        \* where *header points: a slot and a packet of it, 0 for none
    rx,            \* history: packets of the frames put in the ring
    out,           \* history: packets taken; stat.read is its length
    delivered,     \* history: packets returned; stat.matched is its length
    origin         \* history: Len(rx) when the frame of a slot was put there

ring == <<slot, writePos, readPos, read_ptr, num_packets, header, rx, out, delivered, origin>>
fbvars == <<ring, pc>>

NoHeader == [slot |-> 0, idx |-> 0]

FBTypeOK ==
    /\ slot \in [Slots -> Seq(Packet)]
    /\ writePos \in Slots
    /\ readPos \in Slots
    /\ read_ptr \in Nat \cup {NULL}
    /\ num_packets \in Nat
    /\ pc \in {"idle", "returned", "empty", "topup", "take", "aborted"}
    /\ header \in [slot : Slots, idx : Nat]
    /\ rx \in Seq(Packet)
    /\ out \in Seq(Packet)
    /\ delivered \in Seq(Packet)
    /\ origin \in [Slots -> Nat]

\* Mutant of Succ: the position is not wrapped.
SuccNoWrap(s) == s + 1

Succ(s) == (s + 1) % NumFrames

\* stream_alloc zeroes the stream and its buffer, stream_frame_init the ring.
FBInit ==
    /\ slot = [s \in Slots |-> <<>>]
    /\ writePos = 0
    /\ readPos = 0
    /\ read_ptr = NULL
    /\ num_packets = 0
    /\ pc = "idle"
    /\ header = NoHeader
    /\ rx = <<>>
    /\ out = <<>>
    /\ delivered = <<>>
    /\ origin = [s \in Slots |-> 0]

\* Mutant of Retry: another frame is read although the ring is full.
RetryWhenFull(ptr, w, r) == IF ptr = NULL THEN "empty" ELSE "topup"

\* Where the code goes from `retry:` with this read_ptr, writePos and readPos.
Retry(ptr, w, r) ==
    IF ptr = NULL THEN "empty" ELSE IF w # r THEN "topup" ELSE "take"

\* The caller calls stream_read.
Call ==
    /\ pc \in {"idle", "returned"}
    /\ pc' = Retry(read_ptr, writePos, readPos)
    /\ UNCHANGED ring

-----------------------------------------------------------------------------
(* The callback is at work in states "empty" (with the caller's timeout)   *)
(* and "topup" (without waiting).  Whatever it receives lands in the slot  *)
(* at writePos, also the frames it turns down.                             *)

Receiving == pc \in {"empty", "topup"}

Received(f) == slot' = [slot EXCEPT ![writePos] = f]

\* The callback turns the frame down and waits for another.
FrameSkipped(f) ==
    /\ Receiving
    /\ Received(f)
    /\ UNCHANGED <<writePos, readPos, read_ptr, num_packets, pc, header, rx, out, delivered, origin>>

\* Mutant of NoFrame: the result of the top-up call is not ignored.
NoFrameReturns ==
    /\ Receiving
    /\ pc' = "idle"
    /\ UNCHANGED <<writePos, readPos, read_ptr, num_packets, header, rx, out, delivered, origin>>

\* The callback returned 0: EAGAIN for an empty ring, otherwise go on.
NoFrame ==
    /\ Receiving
    /\ pc' = IF pc = "empty" THEN "idle" ELSE "take"
    /\ UNCHANGED <<writePos, readPos, read_ptr, num_packets, header, rx, out, delivered, origin>>

\* Nothing was received.
Nothing == NoFrame /\ UNCHANGED slot

\* A frame was received before the callback gave up.
FrameRefused(f) == NoFrame /\ Received(f)

\* The callback returned non-zero: the frame is in the ring.
FrameStored(f) ==
    /\ Receiving
    /\ Received(f)
    /\ writePos' = Succ(writePos)
    /\ rx' = rx \o f
    /\ origin' = [origin EXCEPT ![writePos] = Len(rx)]
    /\ IF pc = "empty"
       THEN /\ read_ptr' = 0
            /\ num_packets' = Len(slot'[readPos])
            /\ pc' = Retry(0, writePos', readPos)
       ELSE /\ pc' = "take"
            /\ UNCHANGED <<read_ptr, num_packets>>
    /\ UNCHANGED <<readPos, header, out, delivered>>

\* The process dies inside the callback.
FrameFatal(f) ==
    /\ Receiving
    /\ Received(f)
    /\ pc' = "aborted"
    /\ UNCHANGED <<writePos, readPos, read_ptr, num_packets, header, rx, out, delivered, origin>>

-----------------------------------------------------------------------------

\* "st->num_packets is 0 but st->read_ptr is set".
AbortEmptyFrame ==
    /\ pc = "take"
    /\ num_packets = 0
    /\ pc' = "aborted"
    /\ UNCHANGED ring

\* Mutant of MoveToNextFrame: the frame is done when its last packet is next.
MoveOnePacketEarly ==
    IF num_packets > 2
    THEN /\ read_ptr' = read_ptr + 1
         /\ num_packets' = num_packets - 1
         /\ UNCHANGED readPos
    ELSE /\ readPos' = Succ(readPos)
         /\ read_ptr' = IF readPos' = writePos THEN NULL ELSE 0
         /\ num_packets' = IF readPos' = writePos THEN 0 ELSE Len(slot[readPos'])

\* Mutant of MoveToNextFrame: read_ptr is cleared after every frame.
MoveAlwaysClears ==
    IF num_packets > 1
    THEN /\ read_ptr' = read_ptr + 1
         /\ num_packets' = num_packets - 1
         /\ UNCHANGED readPos
    ELSE /\ readPos' = Succ(readPos)
         /\ read_ptr' = NULL
         /\ num_packets' = 0

\* The current frame has a packet after this one, or it was its last packet
\* and the next slot becomes current, if there is a frame in it.
MoveToNextFrame ==
    IF num_packets > 1
    THEN /\ read_ptr' = read_ptr + 1
         /\ num_packets' = num_packets - 1
         /\ UNCHANGED readPos
    ELSE /\ readPos' = Succ(readPos)
         /\ read_ptr' = IF readPos' = writePos THEN NULL ELSE 0
         /\ num_packets' = IF readPos' = writePos THEN 0 ELSE Len(slot[readPos'])

\* Mutant of TakePacket: *header is set after the ring has moved on.
TakeHeaderLate ==
    /\ pc = "take"
    /\ num_packets # 0
    /\ LET cp == slot[readPos][read_ptr + 1]
       IN  /\ out' = Append(out, cp)
           /\ delivered' = IF cp \in Match THEN Append(delivered, cp) ELSE delivered
           /\ MoveToNextFrame
           /\ pc' = IF cp \in Match THEN "returned" ELSE Retry(read_ptr', writePos, readPos')
    /\ header' = [slot |-> readPos', idx |-> IF read_ptr' = NULL THEN 1 ELSE read_ptr' + 1]
    /\ UNCHANGED <<slot, writePos, rx, origin>>

\* Mutant of TakePacket: a packet the filter rejects counts as matched.
TakeCountsAll ==
    /\ pc = "take"
    /\ num_packets # 0
    /\ LET cp == slot[readPos][read_ptr + 1]
       IN  /\ out' = Append(out, cp)
           /\ delivered' = Append(delivered, cp)
           /\ MoveToNextFrame
           /\ pc' = IF cp \in Match THEN "returned" ELSE Retry(read_ptr', writePos, readPos')
    /\ header' = [slot |-> readPos, idx |-> read_ptr + 1]
    /\ UNCHANGED <<slot, writePos, rx, origin>>

\* Take the next packet; return it if the filter matches, else goto retry.
TakePacket ==
    /\ pc = "take"
    /\ num_packets # 0
    /\ LET cp == slot[readPos][read_ptr + 1]
       IN  /\ out' = Append(out, cp)
           /\ delivered' = IF cp \in Match THEN Append(delivered, cp) ELSE delivered
           /\ MoveToNextFrame
           /\ pc' = IF cp \in Match THEN "returned" ELSE Retry(read_ptr', writePos, readPos')
    /\ header' = [slot |-> readPos, idx |-> read_ptr + 1]
    /\ UNCHANGED <<slot, writePos, rx, origin>>

FBNext ==
    \/ Call
    \/ Nothing
    \/ \E f \in Frame :
          \/ FrameSkipped(f)
          \/ FrameRefused(f)
          \/ FrameStored(f)
          \/ FrameFatal(f)
    \/ AbortEmptyFrame
    \/ TakePacket

FBSpec == FBInit /\ [][FBNext]_fbvars

\* The program that owns the stream keeps reading it, and the callback does
\* not turn frames down for ever.
FBFairness == WF_fbvars(Call) /\ WF_fbvars(Nothing) /\ WF_fbvars(AbortEmptyFrame) /\ WF_fbvars(TakePacket)

-----------------------------------------------------------------------------

\* The slots from r up to, not including, w; all of them if r = w.
Between(r, w) ==
    IF r < w
    THEN {s \in Slots : r <= s /\ s < w}
    ELSE {s \in Slots : r <= s \/ s < w}

\* The slots whose packets were not all taken (the current one included).
Unread == IF read_ptr = NULL THEN {} ELSE Between(readPos, writePos)

\* The packets stream_frame_buffer_read takes are the packets the transport
\* put in the ring, in that order: none is lost, repeated or passed by another
\* while frames wrap around the ring.
FIFO ==
    /\ Len(out) <= Len(rx)
    /\ \A i \in 1..Len(out) : out[i] = rx[i]

\* Slot s holds its part of what was received; the next slot goes on from
\* there, or there is no next one.
SlotHolds(s) ==
    /\ origin[s] + Len(slot[s]) <= Len(rx)
    /\ \A k \in 1..Len(slot[s]) : slot[s][k] = rx[origin[s] + k]
    /\ IF Succ(s) = writePos
       THEN origin[s] + Len(slot[s]) = Len(rx)
       ELSE origin[Succ(s)] = origin[s] + Len(slot[s])

\* What the ring believes it still holds is what was received and not taken:
\* with read_ptr NULL nothing is left, otherwise the packets of the unread
\* slots, from read_ptr on, are exactly the untaken packets.
RingAccounting ==
    IF read_ptr = NULL
    THEN readPos = writePos /\ Len(out) = Len(rx)
    ELSE /\ read_ptr + num_packets = Len(slot[readPos])
         /\ origin[readPos] + read_ptr = Len(out)
         /\ \A s \in Unread : SlotHolds(s)

\* The reader's place in the code agrees with read_ptr and the positions.
ReaderPlace ==
    /\ pc \in {"idle", "empty"} => read_ptr = NULL
    /\ pc = "topup" => read_ptr # NULL /\ writePos # readPos
    /\ pc = "take" => read_ptr # NULL

\* From the return of stream_read with a packet to the next call the caller
\* may use *header: it points at the packet that was returned, although the
\* slot may already be free and the next frame is received into it.
HeaderValid ==
    pc = "returned" =>
        /\ header.idx \in 1..Len(slot[header.slot])
        /\ slot[header.slot][header.idx] = delivered[Len(delivered)]

\* Receiving, also of a frame that is turned down, never touches the memory
\* of a frame with unread packets.
UnreadKept == [][\A s \in Unread : slot'[s] = slot[s]]_fbvars

\* A program that keeps reading takes every packet that was put in the ring,
\* unless the process aborts: no packet is forgotten behind a read_ptr that
\* says the ring is empty.
EveryPacketTaken == Len(out) < Len(rx) ~> Len(out) = Len(rx) \/ pc = "aborted"

\* The ring implements the promise of a stream.
Promise == INSTANCE PacketStream
RefinesPacketStream == Promise!Spec
=============================================================================
