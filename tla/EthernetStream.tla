--------------------------- MODULE EthernetStream ---------------------------
(***************************************************************************)
(* A stream of measurement frames on ethernet multicast                    *)
(* (src/stream_ethernet.c) with the sequence check of src/stream.c, on top *)
(* of the ring of FrameBuffer, and the network in front of it.  Frames of  *)
(* several senders, told apart by multicast address, interleave in one     *)
(* socket; the network loses frames and a loopback interface delivers them *)
(* twice.                                                                  *)
(***************************************************************************)
EXTENDS FrameBuffer, Functions

CONSTANTS
    Addr,           \* multicast addresses frames are sent to
    Attributes,     \* what a frame may be like: records [sane, version, flush]
    MaxAddress,     \* MAX_ADDRESS
    SeqWrap,        \* 0xFFFF in match_inc_seqnr
    MaxSent,        \* bound: frames sent
    SockCap,        \* bound: frames the kernel queues for the socket
    MaxInterrupts   \* bound: signals that interrupt the wait for a frame

ASSUME AttributesAssumption ==
    Attributes \subseteq [sane : BOOLEAN, version : BOOLEAN, flush : BOOLEAN]
ASSUME BoundsAssumption ==
    /\ MaxAddress \in Nat \ {0}
    /\ SeqWrap \in Nat \ {0, 1}
    /\ {MaxSent, SockCap, MaxInterrupts} \subseteq Nat

VARIABLES
    addresses,     \* address[0..num_addresses-1], as a sequence
    seqnum,        \* seqnum[]: the sequence number expected next, 0 also for "any"
    if_loopback,
    flushed,
    sock,          \* frames queued for the socket, oldest first
    sent,          \* frames sent to each address
    produced,      \* packets in all frames sent; packet numbers are consecutive
    interrupts,    \* signals so far
    last           \* history: the last frame of an address put in the ring, -1 if none

net == <<sock, sent, produced>>
vars == <<fbvars, addresses, seqnum, if_loopback, flushed, net, interrupts, last>>

Datagram == [addr : Addr, n : Nat, pkts : Frame, sane : BOOLEAN, version : BOOLEAN, flush : BOOLEAN]

NetTypeOK ==
    /\ addresses \in Seq(Addr) /\ Len(addresses) <= MaxAddress
    /\ seqnum \in [1..MaxAddress -> 0..SeqWrap-1]
    /\ if_loopback \in BOOLEAN
    /\ flushed \in BOOLEAN
    /\ sock \in Seq(Datagram) /\ Len(sock) <= SockCap
    /\ sent \in [Addr -> Nat]
    /\ produced \in Nat
    /\ interrupts \in 0..MaxInterrupts
    /\ last \in [Addr -> Nat \cup {-1}]

TypeOK == FBTypeOK /\ NetTypeOK

\* stream_ethernet_init opens the stream with one address.
Init ==
    /\ FBInit
    /\ \E a \in Addr : addresses = <<a>>
    /\ seqnum = [m \in 1..MaxAddress |-> 0]
    /\ if_loopback \in BOOLEAN
    /\ flushed = FALSE
    /\ sock = <<>>
    /\ sent = [a \in Addr |-> 0]
    /\ produced = 0
    /\ interrupts = 0
    /\ last = [a \in Addr |-> -1]

-----------------------------------------------------------------------------
(* The network: frame number n of an address carries sequence number       *)
(* n % SeqWrap.                                                            *)

NewDatagram(a, f, attr) ==
    [addr |-> a, n |-> sent[a], pkts |-> f,
     sane |-> attr.sane, version |-> attr.version, flush |-> attr.flush]

\* A frame is sent and lost, or it is queued for the socket with the next
\* packets, on a loopback interface perhaps twice.
Send(a) ==
    /\ SumFunction(sent) < MaxSent
    /\ sent' = [sent EXCEPT ![a] = @ + 1]
    /\ \/ UNCHANGED <<sock, produced>>
       \/ \E f \in Frame, attr \in Attributes, copies \in {1, 2} :
             LET d == NewDatagram(a, f, attr)
             IN  /\ \A k \in DOMAIN f : f[k] = produced + k
                 /\ copies = 2 => if_loopback
                 /\ Len(sock) + copies <= SockCap
                 /\ sock' = sock \o [c \in 1..copies |-> d]
                 /\ produced' = produced + Len(f)
    /\ UNCHANGED <<fbvars, addresses, seqnum, if_loopback, flushed, interrupts, last>>

-----------------------------------------------------------------------------

\* stream_add: another address on the same stream, unless there is no room.
StreamAdd(a) ==
    /\ pc \in {"idle", "returned"}
    /\ Len(addresses) < MaxAddress
    /\ addresses' = Append(addresses, a)
    /\ UNCHANGED <<fbvars, seqnum, if_loopback, flushed, net, interrupts, last>>

\* Address m is the first of its kind; match_ma_pkt returns no other.
First(m) == \A j \in 1..m-1 : addresses[j] # addresses[m]

\* match_ma_pkt returns m for frame d, and the size of the frame is what its
\* packets add up to.
Matched(d, m) == addresses[m] = d.addr /\ First(m) /\ d.sane

Got(d) == d.n % SeqWrap

\* With no expected number the frame's own is taken.
Expected(d, m) == IF seqnum[m] = 0 THEN Got(d) ELSE seqnum[m]

\* The version is looked at only while no sequence number is set.
VersionOK(d, m) == seqnum[m] # 0 \/ d.version

\* match_inc_seqnr tells a duplicate of a loopback device by its number.
LoopbackDup(d, m) == if_loopback /\ Expected(d, m) = Got(d) + 1

\* Mutant of IncSeqnr: the number wraps one too late.
IncSeqnrLate(seq) == IF seq + 1 > SeqWrap THEN 0 ELSE seq + 1

IncSeqnr(seq) == IF seq + 1 >= SeqWrap THEN 0 ELSE seq + 1

Queued == {sock[i] : i \in DOMAIN sock}

\* select or recvfrom had nothing to give before the timeout.
Timeout ==
    /\ sock = <<>>
    /\ Nothing
    /\ UNCHANGED <<addresses, seqnum, if_loopback, flushed, net, interrupts, last>>

\* select or recvfrom failed, as when a signal arrives, frames or no frames.
Interrupt ==
    /\ interrupts < MaxInterrupts
    /\ interrupts' = interrupts + 1
    /\ Nothing
    /\ UNCHANGED <<addresses, seqnum, if_loopback, flushed, net, last>>

\* One turn of the loop in stream_ethernet_read_frame, with frame d to read.
Receive(d) ==
    /\ sock # <<>>
    /\ d = Head(sock)
    /\ sock' = Tail(sock)
    /\ UNCHANGED <<addresses, if_loopback, sent, produced, interrupts>>

\* Not for us, or damaged: continue.
SkipFrame ==
    \E d \in Queued :
        /\ Receive(d)
        /\ \A m \in DOMAIN addresses : ~Matched(d, m)
        /\ FrameSkipped(d.pkts)
        /\ UNCHANGED <<seqnum, flushed, last>>

\* A version this library cannot read: break.
RefuseFrame ==
    \E d \in Queued, m \in DOMAIN addresses :
        /\ Receive(d)
        /\ Matched(d, m) /\ ~VersionOK(d, m)
        /\ FrameRefused(d.pkts)
        /\ UNCHANGED <<seqnum, flushed, last>>

\* A mismatch of sequence numbers: abort.
MismatchFrame ==
    \E d \in Queued, m \in DOMAIN addresses :
        /\ Receive(d)
        /\ Matched(d, m) /\ VersionOK(d, m)
        /\ ~LoopbackDup(d, m) /\ Expected(d, m) # Got(d)
        /\ FrameFatal(d.pkts)
        /\ seqnum' = [seqnum EXCEPT ![m] = Got(d)]
        /\ UNCHANGED <<flushed, last>>

\* The frame is stored: return 1.
StoreFrame(d, m) ==
    /\ Receive(d)
    /\ Matched(d, m) /\ VersionOK(d, m)
    /\ FrameStored(d.pkts)
    /\ flushed' = (flushed \/ d.flush)
    /\ last' = [last EXCEPT ![d.addr] = d.n]

\* Mutant of AcceptFrame: a later number than the expected one is accepted.
AcceptLater ==
    \E d \in Queued, m \in DOMAIN addresses :
        /\ StoreFrame(d, m)
        /\ ~LoopbackDup(d, m) /\ Expected(d, m) <= Got(d)
        /\ seqnum' = [seqnum EXCEPT ![m] = IncSeqnr(Got(d))]

\* The expected frame, or the first one.
AcceptFrame ==
    \E d \in Queued, m \in DOMAIN addresses :
        /\ StoreFrame(d, m)
        /\ ~LoopbackDup(d, m) /\ Expected(d, m) = Got(d)
        /\ seqnum' = [seqnum EXCEPT ![m] = IncSeqnr(Expected(d, m))]

\* Mutant of AcceptDuplicate: the duplicate is counted.
AcceptCountsDuplicate ==
    \E d \in Queued, m \in DOMAIN addresses :
        /\ StoreFrame(d, m)
        /\ LoopbackDup(d, m)
        /\ seqnum' = [seqnum EXCEPT ![m] = IncSeqnr(Expected(d, m))]

\* A frame the loopback device delivers again.
AcceptDuplicate ==
    \E d \in Queued, m \in DOMAIN addresses :
        /\ StoreFrame(d, m)
        /\ LoopbackDup(d, m)
        /\ UNCHANGED seqnum

ReadFrame ==
    \/ Timeout
    \/ Interrupt
    \/ SkipFrame
    \/ RefuseFrame
    \/ MismatchFrame
    \/ AcceptFrame
    \/ AcceptDuplicate

\* The steps of stream_frame_buffer_read outside the callback.
ReadStep ==
    /\ Call \/ AbortEmptyFrame \/ TakePacket
    /\ UNCHANGED <<addresses, seqnum, if_loopback, flushed, net, interrupts, last>>

Reader == ReadFrame \/ ReadStep

\* abort() has ended the process.
Aborted == pc = "aborted" /\ UNCHANGED vars

Next ==
    \/ \E a \in Addr : Send(a) \/ StreamAdd(a)
    \/ Reader
    \/ Aborted

Spec == Init /\ [][Next]_vars

-----------------------------------------------------------------------------

\* seqnum follows the sender of each address: the number expected next is
\* that of the frame after the last one stored, also behind the wrap, behind
\* a duplicate and when the address is added a second time.
SeqnumTracksSender ==
    pc # "aborted" =>
        \A m \in DOMAIN addresses :
            First(m) /\ last[addresses[m]] # -1 =>
                seqnum[m] = (last[addresses[m]] + 1) % SeqWrap

\* stream_read says EAGAIN only when it has nothing left to give: whatever
\* mix of timeouts, signals and refused frames ended the waits in the callback,
\* also in the top-up call made while packets are buffered, every packet of
\* every frame stored has been taken by then.
AgainMeansDrained == pc = "idle" => out = rx

\* Once the stream is in step with a sender, a frame that does not continue
\* the numbering never enters the ring, except where the expected number has
\* wrapped to 0: each frame stored is the successor of the one before it (or,
\* on a loopback interface, that one again), counted modulo the wrap.
GapsDetected ==
    [][\A a \in Addr :
          last'[a] # last[a] /\ last[a] # -1 /\ (last[a] + 1) % SeqWrap # 0
             => \/ (last'[a] - last[a]) % SeqWrap = 1
                \/ if_loopback /\ (last'[a] - last[a]) % SeqWrap = 0]_vars

\* The warning of match_inc_seqnr: duplicates of a loopback device "will be
\* ignored", so no packet is given to the caller twice.
DuplicatesIgnored ==
    \A i, j \in DOMAIN delivered : i # j => delivered[i] # delivered[j]
=============================================================================
