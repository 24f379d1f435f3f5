------------------------ MODULE EthernetStreamProofs ------------------------
(***************************************************************************)
(* The ring of FrameBuffer, for every number of slots, every set of        *)
(* packets and frames and every filter; and EthernetStream: it is a        *)
(* transport of the ring, so that the ring's theorems hold for it, and its *)
(* sequence check detects gaps, for every wrap of the sequence number.     *)
(***************************************************************************)
EXTENDS EthernetStream, SequenceTheorems, TLAPS

\* Zenon, then SMT, unless a step says otherwise, with time for the larger steps.
USE ZenonT(10), SMTT(30)

-----------------------------------------------------------------------------
(* Positions in the ring.                                                  *)

\* Succ stays in the ring and wraps only behind the last slot.
LEMMA SuccValue ==
    ASSUME NEW s \in Slots
    PROVE  /\ Succ(s) \in Slots
           /\ Succ(s) = IF s + 1 = NumFrames THEN 0 ELSE s + 1
  BY NumFramesAssumption DEF Succ, Slots

\* Two slots have different successors.
LEMMA SuccInjective ==
    ASSUME NEW s \in Slots, NEW t \in Slots, Succ(s) = Succ(t)
    PROVE  s = t
  BY SuccValue, NumFramesAssumption, SMTT(30) DEF Slots

\* A ring with one frame has one unread slot.
LEMMA BetweenOne ==
    ASSUME NEW r \in Slots
    PROVE  Between(r, Succ(r)) = {r}
  BY SuccValue, NumFramesAssumption, SMTT(30) DEF Between, Slots

\* Storing a frame in a ring that is neither empty nor full adds its slot,
\* which was not unread.
LEMMA BetweenGrow ==
    ASSUME NEW r \in Slots, NEW w \in Slots, r # w
    PROVE  /\ Between(r, Succ(w)) = Between(r, w) \cup {w}
           /\ w \notin Between(r, w)
  BY SuccValue, NumFramesAssumption, SMTT(30) DEF Between, Slots

\* Leaving a slot behind removes it and nothing else.
LEMMA BetweenShrink ==
    ASSUME NEW r \in Slots, NEW w \in Slots, Succ(r) # w
    PROVE  /\ Between(Succ(r), w) \subseteq Between(r, w)
           /\ Succ(r) \in Between(Succ(r), w)
  BY SuccValue, NumFramesAssumption, SMTT(30) DEF Between, Slots

\* The current slot is one of the unread ones.
LEMMA BetweenFirst ==
    ASSUME NEW r \in Slots, NEW w \in Slots
    PROVE  r \in Between(r, w) /\ Between(r, w) \subseteq Slots
  BY NumFramesAssumption DEF Between, Slots

-----------------------------------------------------------------------------
(* Type correctness.                                                       *)

\* What a place Retry returns may be.
LEMMA RetryValue ==
    ASSUME NEW ptr, NEW w, NEW r
    PROVE  /\ Retry(ptr, w, r) \in {"empty", "topup", "take"}
           /\ Retry(ptr, w, r) = "empty" <=> ptr = NULL
           /\ Retry(ptr, w, r) = "topup" => w # r
  BY DEF Retry

\* Taking a packet keeps the types; it exists because of RingAccounting.
LEMMA TypeTake ==
    ASSUME FBTypeOK, RingAccounting, ReaderPlace, TakePacket
    PROVE  FBTypeOK'
<1>. DEFINE cp == slot[readPos][read_ptr + 1]
<1>1. read_ptr # NULL /\ read_ptr \in Nat
  BY DEF FBTypeOK, ReaderPlace, TakePacket
<1>2. read_ptr + 1 \in 1..Len(slot[readPos])
  BY <1>1, SMTT(30) DEF RingAccounting, TakePacket, FBTypeOK
<1>3. slot[readPos] \in Seq(Packet)
  BY DEF FBTypeOK
<1>4. cp \in Packet
  BY <1>2, <1>3, ElementOfSeq
<1>5. out' \in Seq(Packet) /\ delivered' \in Seq(Packet)
  BY <1>4, SMTT(30) DEF TakePacket, FBTypeOK
<1>6. readPos' \in Slots /\ read_ptr' \in Nat \cup {NULL} /\ num_packets' \in Nat
  <2>1. CASE num_packets > 1
    BY <2>1, <1>1, SMTT(30) DEF TakePacket, MoveToNextFrame, FBTypeOK
  <2>2. CASE ~(num_packets > 1)
    <3>1. readPos' = Succ(readPos) /\ readPos' \in Slots
      BY <2>2, SuccValue DEF TakePacket, MoveToNextFrame, FBTypeOK
    <3>2. Len(slot[readPos']) \in Nat
      BY <3>1, LenProperties DEF FBTypeOK
    <3> QED BY <2>2, <3>1, <3>2 DEF TakePacket, MoveToNextFrame
  <2> QED BY <2>1, <2>2
<1>7. pc' \in {"idle", "returned", "empty", "topup", "take", "aborted"}
  BY RetryValue DEF TakePacket
<1>8. header' \in [slot : Slots, idx : Nat]
  BY <1>1, SMTT(30) DEF TakePacket, FBTypeOK
<1> QED BY <1>5, <1>6, <1>7, <1>8 DEF TakePacket, FBTypeOK

\* Storing a frame keeps the types.
LEMMA TypeStored ==
    ASSUME FBTypeOK, NEW f \in Frame, FrameStored(f)
    PROVE  FBTypeOK'
<1>1. f \in Seq(Packet)
  BY FrameAssumption
<1>2. slot' \in [Slots -> Seq(Packet)]
  BY <1>1 DEF FrameStored, Received, FBTypeOK
<1>3. Len(slot'[readPos]) \in Nat
  BY <1>2, LenProperties DEF FBTypeOK
<1>4. writePos' \in Slots
  BY SuccValue DEF FrameStored, FBTypeOK
<1>5. rx' \in Seq(Packet)
  BY <1>1, SMTT(30) DEF FrameStored, FBTypeOK
<1>6. origin' \in [Slots -> Nat]
  <2>1. Len(rx) \in Nat
    BY LenProperties DEF FBTypeOK
  <2> QED BY <2>1 DEF FrameStored, FBTypeOK
<1>7. pc' \in {"idle", "returned", "empty", "topup", "take", "aborted"}
  BY RetryValue, SMTT(30) DEF FrameStored
<1>8. read_ptr' \in Nat \cup {NULL} /\ num_packets' \in Nat
  BY <1>3, SMTT(30) DEF FrameStored, FBTypeOK
<1> QED BY <1>2, <1>4, <1>5, <1>6, <1>7, <1>8 DEF FrameStored, FBTypeOK

\* A frame that is received and not stored keeps the types.
LEMMA TypeNotStored ==
    ASSUME FBTypeOK, NEW f \in Frame,
           FrameSkipped(f) \/ FrameRefused(f) \/ FrameFatal(f)
    PROVE  FBTypeOK'
<1>1. slot' \in [Slots -> Seq(Packet)]
  BY FrameAssumption DEF FrameSkipped, FrameRefused, FrameFatal, Received, FBTypeOK
<1> QED BY <1>1 DEF FrameSkipped, FrameRefused, FrameFatal, NoFrame, FBTypeOK

-----------------------------------------------------------------------------
(* The inductive invariant.  FIFO alone is not inductive: that the packet  *)
(* under read_ptr is the next one received follows from the accounting of  *)
(* the ring, and that nothing unread is overwritten from the reader's      *)
(* place.                                                                  *)

FBInv == FBTypeOK /\ ReaderPlace /\ RingAccounting /\ FIFO

\* The empty ring satisfies the invariant.
LEMMA InvInit == FBInit => FBInv
<1>. SUFFICES ASSUME FBInit PROVE FBInv
  OBVIOUS
<1>1. FBTypeOK
  <2>1. <<>> \in Seq(Packet)
    OBVIOUS
  <2>2. 0 \in Slots
    BY NumFramesAssumption DEF Slots
  <2> QED BY <2>1, <2>2 DEF FBInit, FBTypeOK, NULL, NoHeader
<1>2. Len(<<>>) = 0
  OBVIOUS
<1> QED BY <1>1, <1>2 DEF FBInit, FBInv, ReaderPlace, RingAccounting, FIFO, NULL

\* A slot at writePos where frames are received is not unread.
LEMMA WriteSlotFree ==
    ASSUME FBTypeOK, ReaderPlace, RingAccounting, Receiving
    PROVE  writePos \notin Unread
<1>1. CASE pc = "empty"
  BY <1>1 DEF ReaderPlace, Unread
<1>2. CASE pc = "topup"
  BY <1>2, BetweenGrow DEF ReaderPlace, Unread, FBTypeOK
<1> QED BY <1>1, <1>2 DEF Receiving

\* Receiving into the free slot leaves what the unread slots hold alone.
LEMMA AccountingKept ==
    ASSUME FBTypeOK, RingAccounting, writePos \notin Unread,
           NEW f, Received(f) \/ UNCHANGED slot,
           UNCHANGED <<writePos, readPos, read_ptr, num_packets, rx, out, origin>>
    PROVE  RingAccounting'
<1>1. CASE read_ptr = NULL
  BY <1>1 DEF RingAccounting
<1>2. CASE read_ptr # NULL
  <2>1. Unread' = Unread
    BY DEF Unread
  <2>2. ASSUME NEW s \in Unread PROVE slot'[s] = slot[s]
    BY <2>2, BetweenFirst DEF Received, FBTypeOK, Unread
  <2>3. readPos \in Unread
    BY <1>2, BetweenFirst DEF Unread, FBTypeOK
  <2>4. ASSUME NEW s \in Unread PROVE SlotHolds(s)'
    BY <1>2, <2>2, <2>4 DEF RingAccounting, SlotHolds
  <2> QED BY <1>2, <2>1, <2>2, <2>3, <2>4 DEF RingAccounting
<1> QED BY <1>1, <1>2

\* Frames that are received and not stored, and calls, keep the invariant.
LEMMA InvNotStored ==
    ASSUME FBInv,
           \/ Call \/ Nothing \/ AbortEmptyFrame
           \/ \E f \in Frame : FrameSkipped(f) \/ FrameRefused(f) \/ FrameFatal(f)
    PROVE  FBInv'
<1>1. FBTypeOK'
  <2>1. CASE Call
    BY <2>1, RetryValue DEF FBInv, FBTypeOK, Call, ring
  <2>2. CASE Nothing
    BY <2>2 DEF FBInv, FBTypeOK, Nothing, NoFrame
  <2>3. CASE AbortEmptyFrame
    BY <2>3 DEF FBInv, FBTypeOK, AbortEmptyFrame, ring
  <2>4. CASE \E f \in Frame : FrameSkipped(f) \/ FrameRefused(f) \/ FrameFatal(f)
    BY <2>4, TypeNotStored DEF FBInv
  <2> QED BY <2>1, <2>2, <2>3, <2>4
<1>2. RingAccounting'
  <2>1. CASE Call \/ AbortEmptyFrame
    BY <2>1 DEF Call, AbortEmptyFrame, ring, FBInv, RingAccounting, Unread, SlotHolds
  <2>2. CASE Nothing
    BY <2>2, WriteSlotFree, AccountingKept DEF FBInv, Nothing, NoFrame
  <2>3. CASE \E f \in Frame : FrameSkipped(f) \/ FrameRefused(f) \/ FrameFatal(f)
    <3>1. PICK f \in Frame : FrameSkipped(f) \/ FrameRefused(f) \/ FrameFatal(f)
      BY <2>3
    <3>2. Receiving /\ Received(f)
      BY <3>1 DEF FrameSkipped, FrameRefused, FrameFatal, NoFrame
    <3>3. UNCHANGED <<writePos, readPos, read_ptr, num_packets, rx, out, origin>>
      BY <3>1 DEF FrameSkipped, FrameRefused, FrameFatal, NoFrame
    <3> QED BY <3>2, <3>3, WriteSlotFree, AccountingKept DEF FBInv
  <2> QED BY <2>1, <2>2, <2>3
<1>3. ReaderPlace'
  BY RetryValue, SMTT(30) DEF FBInv, ReaderPlace, Call, Nothing, NoFrame, AbortEmptyFrame, ring,
     FrameSkipped, FrameRefused, FrameFatal, Receiving
<1>4. FIFO'
  BY DEF FBInv, FIFO, Call, Nothing, NoFrame, AbortEmptyFrame, ring,
     FrameSkipped, FrameRefused, FrameFatal
<1> QED BY <1>1, <1>2, <1>3, <1>4 DEF FBInv

\* What was received before a frame is stored stays where it is, and the
\* frame follows it.
LEMMA StoredHistory ==
    ASSUME FBTypeOK, NEW f \in Frame, FrameStored(f)
    PROVE  /\ Len(rx') = Len(rx) + Len(f)
           /\ Len(rx) \in Nat /\ Len(f) \in Nat
           /\ \A i \in 1..Len(rx) : rx'[i] = rx[i]
           /\ \A k \in 1..Len(f) : rx'[Len(rx) + k] = f[k]
<1>1. f \in Seq(Packet) /\ rx \in Seq(Packet) /\ rx' = rx \o f
  BY FrameAssumption DEF FBTypeOK, FrameStored
<1>2. Len(rx') = Len(rx) + Len(f) /\ Len(rx) \in Nat /\ Len(f) \in Nat
  BY <1>1
<1> QED BY <1>1, <1>2

\* The slot a frame is stored in holds it.
LEMMA StoredSlot ==
    ASSUME FBTypeOK, NEW f \in Frame, FrameStored(f), NEW s, s = writePos
    PROVE  SlotHolds(s)'
<1>1. /\ slot'[s] = f
      /\ origin'[s] = Len(rx)
      /\ writePos' = Succ(s)
  BY DEF FrameStored, Received, FBTypeOK
<1> QED BY <1>1, StoredHistory, SMTT(30) DEF SlotHolds

\* Storing a frame keeps the invariant.
LEMMA InvStored ==
    ASSUME FBInv, NEW f \in Frame, FrameStored(f)
    PROVE  FBInv'
<1>. USE DEF FBInv
<1>1. FBTypeOK'
  BY TypeStored
<1>2. FIFO'
  BY StoredHistory, SMTT(30) DEF FIFO, FrameStored, FBTypeOK
<1>3. ReaderPlace'
  BY RetryValue, <1>1, SMTT(30) DEF ReaderPlace, FrameStored, Receiving, NULL
<1>4. RingAccounting'
  <2>1. CASE pc = "empty"
    <3>1. /\ read_ptr = NULL
          /\ readPos = writePos
          /\ Len(out) = Len(rx)
      BY <2>1 DEF ReaderPlace, RingAccounting
    <3>2. /\ read_ptr' = 0
          /\ num_packets' = Len(slot'[readPos])
          /\ readPos' = readPos
          /\ out' = out
          /\ writePos' = Succ(writePos)
          /\ origin'[readPos] = Len(rx)
      BY <2>1, <3>1 DEF FrameStored, FBTypeOK
    <3>3. Unread' = {writePos}
      BY <3>1, <3>2, BetweenOne, SMTT(30) DEF Unread, FBTypeOK, NULL
    <3>4. Len(slot'[readPos]) \in Nat
      BY <1>1, LenProperties DEF FBTypeOK
    <3>5. \A s \in Unread' : SlotHolds(s)'
      BY <3>3, StoredSlot
    <3> QED BY <3>1, <3>2, <3>4, <3>5, StoredHistory, SMTT(30) DEF RingAccounting, NULL
  <2>2. CASE pc = "topup"
    <3>1. /\ read_ptr # NULL
          /\ readPos # writePos
      BY <2>2 DEF ReaderPlace
    <3>2. UNCHANGED <<read_ptr, num_packets, readPos, out>> /\ writePos' = Succ(writePos)
      BY <2>2 DEF FrameStored
    <3>3. Unread' = Unread \cup {writePos} /\ writePos \notin Unread /\ Unread \subseteq Slots
      BY <3>1, <3>2, BetweenGrow, BetweenFirst DEF Unread, FBTypeOK
    <3>4. readPos \in Unread
      BY <3>1, BetweenFirst DEF Unread, FBTypeOK
    <3>5. ASSUME NEW s \in Unread PROVE SlotHolds(s)'
      <4>1. slot'[s] = slot[s] /\ origin'[s] = origin[s] /\ s # writePos
        BY <3>3 DEF FrameStored, Received, FBTypeOK
      <4>2. SlotHolds(s)
        BY <3>1 DEF RingAccounting
      <4>3. Succ(s) # writePos'
        BY <3>2, <3>3, <4>1, SuccInjective DEF FBTypeOK
      <4>4. /\ Len(slot[s]) \in Nat /\ origin[s] \in Nat /\ Succ(s) \in Slots
        BY <3>3, LenProperties, SuccValue DEF FBTypeOK
      <4>5. origin'[Succ(s)] = origin[s] + Len(slot[s])
        BY <4>2, <4>4 DEF SlotHolds, FrameStored, FBTypeOK
      <4>6. \A k \in 1..Len(slot[s]) : slot[s][k] = rx'[origin[s] + k]
        <5>. TAKE k \in 1..Len(slot[s])
        <5>1. origin[s] + k \in 1..Len(rx)
          BY <4>2, <4>4, StoredHistory, SMTT(30) DEF SlotHolds
        <5> QED BY <4>2, <5>1, StoredHistory DEF SlotHolds
      <4> QED BY <4>1, <4>2, <4>3, <4>4, <4>5, <4>6, StoredHistory, SMTT(30) DEF SlotHolds
    <3>6. slot'[readPos] = slot[readPos] /\ origin'[readPos] = origin[readPos]
      BY <3>1 DEF FrameStored, Received, FBTypeOK
    <3>7. \A s \in Unread' : SlotHolds(s)'
      BY <3>3, <3>5, StoredSlot
    <3> QED BY <3>1, <3>2, <3>6, <3>7 DEF RingAccounting
  <2> QED BY <2>1, <2>2 DEF FrameStored, Receiving
<1> QED BY <1>1, <1>2, <1>3, <1>4

\* The packet that is taken is the next one that was received.
LEMMA TakesNextReceived ==
    ASSUME FBInv, TakePacket
    PROVE  /\ Len(out) + 1 <= Len(rx)
           /\ slot[readPos][read_ptr + 1] = rx[Len(out) + 1]
           /\ read_ptr \in Nat
           /\ read_ptr + 1 \in 1..Len(slot[readPos])
<1>1. read_ptr # NULL /\ read_ptr \in Nat
  BY DEF FBInv, FBTypeOK, ReaderPlace, TakePacket
<1>2. read_ptr + 1 \in 1..Len(slot[readPos])
  BY <1>1, SMTT(30) DEF FBInv, RingAccounting, TakePacket, FBTypeOK
<1>3. SlotHolds(readPos)
  BY <1>1, BetweenFirst DEF FBInv, RingAccounting, Unread, FBTypeOK
<1>4. Len(out) = origin[readPos] + read_ptr /\ origin[readPos] \in Nat
  BY <1>1 DEF FBInv, RingAccounting, FBTypeOK
<1>5. Len(rx) \in Nat /\ Len(slot[readPos]) \in Nat
  BY LenProperties DEF FBInv, FBTypeOK
<1>6. slot[readPos][read_ptr + 1] = rx[origin[readPos] + (read_ptr + 1)]
  BY <1>2, <1>3 DEF SlotHolds
<1> QED BY <1>1, <1>2, <1>3, <1>4, <1>5, <1>6, SMTT(30) DEF SlotHolds

\* Taking a packet keeps the invariant.
LEMMA InvTake ==
    ASSUME FBInv, TakePacket
    PROVE  FBInv'
<1>. USE DEF FBInv
<1>1. FBTypeOK'
  BY TypeTake
<1>2. Len(out') = Len(out) + 1 /\ Len(out) \in Nat /\ Len(rx) \in Nat
  BY LenProperties, SMTT(30) DEF TakePacket, FBTypeOK
<1>3. FIFO'
  <2>1. \A i \in 1..Len(out) : out'[i] = out[i]
    BY <1>2, SMTT(30) DEF TakePacket, FBTypeOK
  <2>2. out'[Len(out) + 1] = rx[Len(out) + 1]
    BY <1>2, TakesNextReceived, SMTT(30) DEF TakePacket, FBTypeOK
  <2>3. rx' = rx
    BY DEF TakePacket
  <2> QED BY <1>2, <2>1, <2>2, <2>3, TakesNextReceived DEF FIFO
<1>4. ReaderPlace'
  BY RetryValue DEF ReaderPlace, TakePacket
<1>5. RingAccounting'
  <2>1. /\ UNCHANGED <<slot, writePos, rx, origin>>
        /\ read_ptr # NULL /\ num_packets \in Nat \ {0}
    BY DEF TakePacket, ReaderPlace, FBTypeOK
  <2>2. /\ read_ptr + num_packets = Len(slot[readPos])
        /\ origin[readPos] + read_ptr = Len(out)
        /\ origin[readPos] \in Nat /\ read_ptr \in Nat
    BY <2>1 DEF RingAccounting, FBTypeOK
  <2>3. \A s \in Between(readPos, writePos) : SlotHolds(s) /\ SlotHolds(s)'
    BY <2>1 DEF RingAccounting, Unread, SlotHolds
  <2>4. CASE num_packets > 1
    <3>1. /\ read_ptr' = read_ptr + 1 /\ num_packets' = num_packets - 1
          /\ readPos' = readPos
      BY <2>4 DEF TakePacket, MoveToNextFrame
    <3>2. read_ptr' # NULL /\ Unread' = Between(readPos, writePos)
      BY <2>1, <2>2, <3>1 DEF Unread, NULL
    <3> QED BY <1>2, <2>1, <2>2, <2>3, <3>1, <3>2 DEF RingAccounting
  <2>5. CASE ~(num_packets > 1)
    <3>1. num_packets = 1 /\ readPos' = Succ(readPos)
      BY <2>1, <2>5 DEF TakePacket, MoveToNextFrame
    <3>2. SlotHolds(readPos) /\ readPos \in Slots
      BY <2>3, BetweenFirst DEF FBTypeOK
    <3>3. CASE readPos' = writePos
      <4>1. read_ptr' = NULL
        BY <2>5, <3>3 DEF TakePacket, MoveToNextFrame
      <4> QED BY <1>2, <2>1, <2>2, <3>1, <3>2, <3>3, <4>1, SMTT(30) DEF RingAccounting, SlotHolds
    <3>4. CASE readPos' # writePos
      <4>1. read_ptr' = 0 /\ num_packets' = Len(slot[readPos'])
        BY <2>5, <3>4 DEF TakePacket, MoveToNextFrame
      <4>2. Unread' = Between(Succ(readPos), writePos)
        BY <2>1, <3>1, <4>1 DEF Unread, NULL
      <4>3. \A s \in Unread' : SlotHolds(s)'
        BY <2>1, <2>3, <3>1, <3>2, <3>4, <4>2, BetweenShrink DEF FBTypeOK
      <4>4. origin[Succ(readPos)] = origin[readPos] + Len(slot[readPos])
        BY <3>1, <3>2, <3>4 DEF SlotHolds
      <4>5. Len(slot[readPos']) \in Nat
        BY <1>1, <2>1, LenProperties DEF FBTypeOK
      <4>6. origin'[readPos'] + read_ptr' = Len(out')
        BY <1>2, <2>1, <2>2, <3>1, <4>1, <4>4
      <4>7. read_ptr' + num_packets' = Len(slot'[readPos'])
        BY <2>1, <4>1, <4>5
      <4> QED BY <4>1, <4>3, <4>6, <4>7 DEF RingAccounting, NULL
    <3> QED BY <3>3, <3>4
  <2> QED BY <2>4, <2>5
<1> QED BY <1>1, <1>3, <1>4, <1>5

\* The invariant holds in every state.
THEOREM RingInvariant == FBSpec => []FBInv
<1>1. FBInit => FBInv
  BY InvInit
<1>2. FBInv /\ [FBNext]_fbvars => FBInv'
  <2>. SUFFICES ASSUME FBInv, [FBNext]_fbvars PROVE FBInv'
    OBVIOUS
  <2>1. CASE Call \/ Nothing \/ AbortEmptyFrame
    BY <2>1, InvNotStored
  <2>2. CASE \E f \in Frame : FrameSkipped(f) \/ FrameRefused(f) \/ FrameFatal(f)
    BY <2>2, InvNotStored
  <2>3. CASE \E f \in Frame : FrameStored(f)
    BY <2>3, InvStored
  <2>4. CASE TakePacket
    BY <2>4, InvTake
  <2>5. CASE UNCHANGED fbvars
    BY <2>5 DEF fbvars, ring, FBInv, FBTypeOK, ReaderPlace, RingAccounting, Unread,
       SlotHolds, FIFO
  <2> QED BY <2>1, <2>2, <2>3, <2>4, <2>5 DEF FBNext
<1> QED BY <1>1, <1>2, PTL DEF FBSpec

-----------------------------------------------------------------------------
(* What the ring guarantees.                                               *)

\* The types of the ring's variables, for every ring.
THEOREM TypeCorrect == FBSpec => []FBTypeOK
  BY RingInvariant, PTL DEF FBInv

\* stream_frame_buffer_read takes the packets in the order they were
\* received, each once.
THEOREM PacketsInOrder == FBSpec => []FIFO
  BY RingInvariant, PTL DEF FBInv

\* The positions, read_ptr and num_packets account for every packet received
\* and not taken.
THEOREM RingAccounts == FBSpec => []RingAccounting
  BY RingInvariant, PTL DEF FBInv

\* The packet *header points at stays readable until the next call.
THEOREM ReturnedPacketValid == FBSpec => []HeaderValid
<1>1. FBInit => HeaderValid
  BY DEF FBInit, HeaderValid
<1>2. FBInv /\ HeaderValid /\ [FBNext]_fbvars => HeaderValid'
  <2>. SUFFICES ASSUME FBInv, HeaderValid, [FBNext]_fbvars, pc' = "returned"
                PROVE  /\ header'.idx \in 1..Len(slot'[header'.slot])
                       /\ slot'[header'.slot][header'.idx] = delivered'[Len(delivered')]
    BY DEF HeaderValid
  <2>1. CASE TakePacket
    <3>. DEFINE cp == slot[readPos][read_ptr + 1]
    <3>1. cp \in Match
      BY <2>1, RetryValue, SMTT(30) DEF TakePacket
    <3>2. delivered' = Append(delivered, cp) /\ delivered \in Seq(Packet) /\ delivered' \in Seq(Packet)
      BY <2>1, <3>1, InvTake DEF TakePacket, FBInv, FBTypeOK
    <3>3. delivered'[Len(delivered')] = cp
      BY <3>2
    <3>4. header'.slot = readPos /\ header'.idx = read_ptr + 1 /\ slot' = slot
      BY <2>1 DEF TakePacket
    <3> QED BY <2>1, <3>3, <3>4, TakesNextReceived
  <2>2. CASE UNCHANGED fbvars
    BY <2>2 DEF fbvars, ring, HeaderValid
  <2>3. CASE Call \/ AbortEmptyFrame
    BY <2>3, RetryValue DEF Call, AbortEmptyFrame
  <2>4. CASE Nothing \/ \E f \in Frame : FrameRefused(f)
    BY <2>4 DEF Nothing, FrameRefused, NoFrame
  <2>5. CASE \E f \in Frame : FrameSkipped(f) \/ FrameStored(f) \/ FrameFatal(f)
    BY <2>5, RetryValue DEF FrameSkipped, FrameStored, FrameFatal, Receiving
  <2> QED BY <2>1, <2>2, <2>3, <2>4, <2>5 DEF FBNext
<1> QED BY <1>1, <1>2, RingInvariant, PTL DEF FBSpec

\* No step overwrites a frame that has unread packets.
THEOREM UnreadNeverOverwritten == FBSpec => UnreadKept
<1>1. FBInv /\ [FBNext]_fbvars => [\A s \in Unread : slot'[s] = slot[s]]_fbvars
  <2>. SUFFICES ASSUME FBInv, FBNext, NEW s \in Unread PROVE slot'[s] = slot[s]
    OBVIOUS
  <2>1. CASE Call \/ Nothing \/ AbortEmptyFrame \/ TakePacket
    BY <2>1 DEF Call, Nothing, AbortEmptyFrame, TakePacket, ring
  <2>2. CASE \E f \in Frame : FrameSkipped(f) \/ FrameRefused(f) \/ FrameStored(f) \/ FrameFatal(f)
    <3>1. PICK f \in Frame : Receiving /\ Received(f)
      BY <2>2 DEF FrameSkipped, FrameRefused, FrameStored, FrameFatal, NoFrame
    <3>2. s # writePos
      BY <3>1, WriteSlotFree DEF FBInv
    <3> QED BY <3>1, <3>2, SMTT(30) DEF Received, FBInv, FBTypeOK
  <2> QED BY <2>1, <2>2 DEF FBNext
<1> QED BY <1>1, RingInvariant, PTL DEF FBSpec, UnreadKept

\* The ring implements PacketStream: a stored frame is an arrival, a packet
\* taken is the oldest one not taken, every other step is invisible.
THEOREM ImplementsPacketStream == FBSpec => RefinesPacketStream
<1>1. FBInit => Promise!Init
  BY DEF FBInit, Promise!Init
<1>2. FBInv /\ [FBNext]_fbvars => [Promise!Next]_(Promise!vars)
  <2>. SUFFICES ASSUME FBInv, [FBNext]_fbvars
                PROVE  Promise!Next \/ UNCHANGED Promise!vars
    OBVIOUS
  <2>1. CASE TakePacket
    <3>1. Len(out) < Len(rx)
      BY <2>1, TakesNextReceived, LenProperties, SMTT(30) DEF FBInv, FBTypeOK
    <3>2. Promise!Take
      BY <2>1, <3>1, TakesNextReceived DEF Promise!Take, TakePacket
    <3> QED BY <3>2 DEF Promise!Next
  <2>2. CASE \E f \in Frame : FrameStored(f)
    <3>1. PICK f \in Frame : FrameStored(f)
      BY <2>2
    <3>2. CASE Len(f) = 0
      <4>1. f = <<>> /\ rx \in Seq(Packet) /\ rx' = rx \o f
        BY <3>1, <3>2, FrameAssumption, EmptySeq DEF FBInv, FBTypeOK, FrameStored
      <4>2. rx' = rx
        BY <4>1
      <4> QED BY <3>1, <4>2 DEF FrameStored, Promise!vars
    <3>3. CASE Len(f) # 0
      <4>1. Len(rx') > Len(rx) /\ \A i \in 1..Len(rx) : rx'[i] = rx[i]
        BY <3>1, <3>3, StoredHistory DEF FBInv
      <4>2. rx' \in Seq(Packet)
        BY <3>1, TypeStored DEF FBInv, FBTypeOK
      <4> QED BY <3>1, <4>1, <4>2 DEF FrameStored, Promise!Next, Promise!Arrive
    <3> QED BY <3>2, <3>3
  <2>3. CASE \/ Call \/ Nothing \/ AbortEmptyFrame \/ UNCHANGED fbvars
             \/ \E f \in Frame : FrameSkipped(f) \/ FrameRefused(f) \/ FrameFatal(f)
    BY <2>3 DEF Call, Nothing, NoFrame, AbortEmptyFrame, ring, fbvars, FrameSkipped,
       FrameRefused, FrameFatal, Promise!vars
  <2> QED BY <2>1, <2>2, <2>3 DEF FBNext
<1> QED BY <1>1, <1>2, RingInvariant, PTL DEF FBSpec, RefinesPacketStream, Promise!Spec

-----------------------------------------------------------------------------
(* Arithmetic modulo the wrap.                                             *)

\* The remainder is determined by any quotient.
LEMMA ModUnique ==
    ASSUME NEW W \in Int, W > 0, NEW q \in Int, NEW r \in 0..W-1
    PROVE  (W * q + r) % W = r
  BY SMT

\* Every number has a quotient.
LEMMA ModQuotient ==
    ASSUME NEW W \in Int, W > 0, NEW n \in Int
    PROVE  /\ n % W \in 0..W-1
           /\ n \div W \in Int
           /\ n = W * (n \div W) + (n % W)
<1>1. n % W \in 0..W-1
  BY SMT
<1>2. n = W * (n \div W) + (n % W)
  BY SMT
<1>3. n \div W \in Int
  BY SMT
<1> QED BY <1>1, <1>2, <1>3

\* The successor of a number modulo W.
LEMMA ModSucc ==
    ASSUME NEW W \in Int, W > 1, NEW n \in Int
    PROVE  (n + 1) % W = IF (n % W) + 1 >= W THEN 0 ELSE (n % W) + 1
<1>. DEFINE q == n \div W
            r == n % W
<1>1. W > 0
  BY SMT
<1>2. r \in 0..W-1 /\ q \in Int /\ n = W * q + r
  BY <1>1, ModQuotient
<1>. HIDE DEF q, r
<1>3. CASE r + 1 >= W
  <2>1. n + 1 = W * (q + 1) + 0
    BY <1>2, <1>3
  <2>2. q + 1 \in Int /\ 0 \in 0..W-1
    BY <1>1, <1>2
  <2>3. (W * (q + 1) + 0) % W = 0
    BY <1>1, <2>2, ModUnique
  <2> QED BY <1>2, <1>3, <2>1, <2>3 DEF r
<1>4. CASE r + 1 < W
  <2>1. n + 1 = W * q + (r + 1)
    BY <1>2
  <2>2. r + 1 \in 0..W-1
    BY <1>2, <1>4
  <2>3. (W * q + (r + 1)) % W = r + 1
    BY <1>1, <1>2, <2>2, ModUnique
  <2> QED BY <1>2, <1>4, <2>1, <2>3 DEF r
<1> QED BY <1>2, <1>3, <1>4

\* Numbers with the same remainder differ by a multiple of W; j is 0 or 1.
LEMMA ModDiff ==
    ASSUME NEW W \in Int, W > 1, NEW n \in Int, NEW m \in Int, NEW j \in {0, 1},
           n % W = (m + j) % W
    PROVE  (n - m) % W = j
<1>. DEFINE q == n \div W
            p == (m + j) \div W
            r == n % W
<1>1. W > 0 /\ m + j \in Int /\ j \in 0..W-1
  BY SMT
<1>2. r \in 0..W-1 /\ q \in Int /\ n = W * q + r
  BY <1>1, ModQuotient
<1>3. p \in Int /\ m + j = W * p + r
  BY <1>1, ModQuotient
<1>. HIDE DEF q, p, r
<1>4. n - m = W * (q - p) + j /\ q - p \in Int
  BY <1>2, <1>3
<1>5. (W * (q - p) + j) % W = j
  BY <1>1, <1>4, ModUnique
<1> QED BY <1>4, <1>5

-----------------------------------------------------------------------------
(* Types of the network and the sequence check.                            *)

\* What holds of a frame the loop of stream_ethernet_read_frame looks at.
LEMMA ReceiveFacts ==
    ASSUME NetTypeOK, NEW d \in Queued, Receive(d)
    PROVE  /\ d \in Datagram
           /\ d.pkts \in Frame /\ d.addr \in Addr /\ d.n \in Nat
           /\ Got(d) \in 0..SeqWrap-1
           /\ sock' \in Seq(Datagram) /\ Len(sock') <= SockCap
<1>1. d \in Datagram
  BY ElementOfSeq, SMTT(30) DEF Queued, NetTypeOK
<1>2. d.pkts \in Frame /\ d.addr \in Addr /\ d.n \in Nat
  BY <1>1 DEF Datagram
<1>3. Got(d) \in 0..SeqWrap-1
  BY <1>2, ModQuotient, BoundsAssumption, SMTT(30) DEF Got
<1>4. sock \in Seq(Datagram) /\ sock # <<>> /\ sock' = Tail(sock) /\ Len(sock) <= SockCap
  BY DEF Receive, NetTypeOK
<1>5. sock' \in Seq(Datagram) /\ Len(sock') = Len(sock) - 1
  BY <1>4
<1> QED BY <1>1, <1>2, <1>3, <1>4, <1>5, BoundsAssumption

\* An address index is an index of seqnum.
LEMMA AddressIndex ==
    ASSUME NetTypeOK, NEW m \in DOMAIN addresses
    PROVE  m \in 1..MaxAddress /\ addresses[m] \in Addr
<1>1. m \in 1..Len(addresses) /\ Len(addresses) \in Nat
  BY LenProperties DEF NetTypeOK
<1> QED BY <1>1, ElementOfSeq, BoundsAssumption, SMTT(30) DEF NetTypeOK

\* The types hold at the start.
LEMMA NetInit == Init => NetTypeOK
<1>. SUFFICES ASSUME Init PROVE NetTypeOK
  OBVIOUS
<1>1. addresses \in Seq(Addr) /\ Len(addresses) = 1
  BY DEF Init
<1>2. sock \in Seq(Datagram) /\ Len(sock) = 0
  BY DEF Init
<1>3. /\ 1 <= MaxAddress /\ 0 <= SockCap
      /\ 0 \in 0..SeqWrap-1 /\ 0 \in 0..MaxInterrupts
  BY BoundsAssumption
<1>4. if_loopback \in BOOLEAN /\ flushed \in BOOLEAN
  BY DEF Init
<1>5. /\ seqnum \in [1..MaxAddress -> 0..SeqWrap-1]
      /\ sent \in [Addr -> Nat] /\ last \in [Addr -> Nat \cup {-1}]
  BY <1>3 DEF Init
<1> QED BY <1>1, <1>2, <1>3, <1>4, <1>5 DEF Init, NetTypeOK

\* Sending a frame keeps the types.
LEMMA NetSend ==
    ASSUME NetTypeOK, NEW a \in Addr, Send(a)
    PROVE  NetTypeOK'
<1>1. sent' \in [Addr -> Nat]
  BY SMTT(30) DEF Send, NetTypeOK
<1>2. CASE UNCHANGED <<sock, produced>>
  BY <1>1, <1>2 DEF Send, NetTypeOK
<1>3. ASSUME NEW f \in Frame, NEW attr \in Attributes, NEW copies \in {1, 2},
             Len(sock) + copies <= SockCap,
             sock' = sock \o [c \in 1..copies |-> NewDatagram(a, f, attr)],
             produced' = produced + Len(f)
      PROVE  NetTypeOK'
  <2>1. NewDatagram(a, f, attr) \in Datagram
    BY AttributesAssumption DEF NewDatagram, Datagram, NetTypeOK
  <2>2. /\ [c \in 1..copies |-> NewDatagram(a, f, attr)] \in Seq(Datagram)
        /\ Len([c \in 1..copies |-> NewDatagram(a, f, attr)]) = copies
    BY <2>1
  <2>3. sock' \in Seq(Datagram) /\ Len(sock') = Len(sock) + copies
    BY <1>3, <2>2 DEF NetTypeOK
  <2>4. Len(f) \in Nat
    BY FrameAssumption, LenProperties
  <2>5. produced' \in Nat
    BY <1>3, <2>4, SMTT(30) DEF NetTypeOK
  <2> QED BY <1>1, <1>3, <2>3, <2>5 DEF Send, NetTypeOK
<1> QED BY <1>2, <1>3 DEF Send

\* The ring's steps and a frame that is not stored keep the types.
LEMMA NetNotStored ==
    ASSUME NetTypeOK,
           Timeout \/ Interrupt \/ SkipFrame \/ RefuseFrame \/ MismatchFrame \/ ReadStep
    PROVE  NetTypeOK'
<1>1. CASE Timeout \/ ReadStep
  BY <1>1 DEF Timeout, ReadStep, net, NetTypeOK
<1>2. CASE Interrupt
  <2>1. interrupts' \in 0..MaxInterrupts
    BY <1>2, BoundsAssumption, SMTT(30) DEF Interrupt, NetTypeOK
  <2> QED BY <1>2, <2>1 DEF Interrupt, net, NetTypeOK
<1>3. CASE SkipFrame \/ RefuseFrame
  <2>1. PICK d \in Queued : Receive(d) /\ UNCHANGED <<seqnum, flushed, last>>
    BY <1>3 DEF SkipFrame, RefuseFrame
  <2>2. sock' \in Seq(Datagram) /\ Len(sock') <= SockCap
    BY <2>1, ReceiveFacts
  <2> QED BY <2>1, <2>2 DEF Receive, NetTypeOK
<1>4. CASE MismatchFrame
  <2>1. PICK d \in Queued, m \in DOMAIN addresses :
           /\ Receive(d)
           /\ seqnum' = [seqnum EXCEPT ![m] = Got(d)]
           /\ UNCHANGED <<flushed, last>>
    BY <1>4 DEF MismatchFrame
  <2>2. /\ sock' \in Seq(Datagram) /\ Len(sock') <= SockCap
        /\ Got(d) \in 0..SeqWrap-1
    BY <2>1, ReceiveFacts
  <2>3. seqnum' \in [1..MaxAddress -> 0..SeqWrap-1]
    BY <2>1, <2>2 DEF NetTypeOK
  <2> QED BY <2>1, <2>2, <2>3 DEF Receive, NetTypeOK
<1> QED BY <1>1, <1>2, <1>3, <1>4

\* The number expected of a frame's address is in range.
LEMMA ExpectedRange ==
    ASSUME NetTypeOK, NEW d \in Queued, Receive(d), NEW m \in DOMAIN addresses
    PROVE  /\ Expected(d, m) \in 0..SeqWrap-1
           /\ IncSeqnr(Expected(d, m)) \in 0..SeqWrap-1
<1>1. Got(d) \in 0..SeqWrap-1
  BY ReceiveFacts
<1>2. seqnum[m] \in 0..SeqWrap-1
  BY AddressIndex DEF NetTypeOK
<1>3. Expected(d, m) \in 0..SeqWrap-1
  BY <1>1, <1>2 DEF Expected
<1> QED BY <1>3, BoundsAssumption DEF IncSeqnr

\* A frame that is stored keeps the types.
LEMMA NetStored ==
    ASSUME NetTypeOK, AcceptFrame \/ AcceptDuplicate
    PROVE  NetTypeOK'
<1>1. PICK d \in Queued, m \in DOMAIN addresses :
         /\ StoreFrame(d, m)
         /\ seqnum' = [seqnum EXCEPT ![m] = IncSeqnr(Expected(d, m))] \/ UNCHANGED seqnum
  BY DEF AcceptFrame, AcceptDuplicate
<1>2. Receive(d)
  BY <1>1 DEF StoreFrame
<1>3. /\ d \in Datagram /\ d.n \in Nat /\ d.addr \in Addr
      /\ sock' \in Seq(Datagram) /\ Len(sock') <= SockCap
  BY <1>2, ReceiveFacts
<1>4. seqnum' \in [1..MaxAddress -> 0..SeqWrap-1]
  BY <1>1, <1>2, ExpectedRange, SMTT(30) DEF NetTypeOK
<1>5. last' \in [Addr -> Nat \cup {-1}]
  BY <1>1, <1>3 DEF StoreFrame, NetTypeOK
<1>6. flushed' \in BOOLEAN
  BY <1>1 DEF StoreFrame
<1> QED BY <1>2, <1>3, <1>4, <1>5, <1>6 DEF Receive, NetTypeOK

\* Every step keeps the types.
LEMMA NetStep ==
    ASSUME NetTypeOK, [Next]_vars
    PROVE  NetTypeOK'
<1>1. CASE \E a \in Addr : Send(a)
  BY <1>1, NetSend
<1>2. CASE \E a \in Addr : StreamAdd(a)
  <2>1. PICK a \in Addr : StreamAdd(a)
    BY <1>2
  <2>2. addresses' \in Seq(Addr) /\ Len(addresses') = Len(addresses) + 1
    BY <2>1 DEF StreamAdd, NetTypeOK
  <2>3. Len(addresses') <= MaxAddress
    BY <2>1, <2>2, LenProperties, BoundsAssumption, SMTT(30) DEF StreamAdd, NetTypeOK
  <2> QED BY <2>1, <2>2, <2>3 DEF StreamAdd, net, NetTypeOK
<1>3. CASE Reader
  BY <1>3, NetNotStored, NetStored DEF Reader, ReadFrame
<1>4. CASE Aborted \/ UNCHANGED vars
  BY <1>4 DEF Aborted, vars, net, NetTypeOK
<1> QED BY <1>1, <1>2, <1>3, <1>4 DEF Next

\* The network and the sequence check stay in range.
THEOREM NetTypeCorrect == Spec => []NetTypeOK
<1>1. NetTypeOK /\ [Next]_vars => NetTypeOK'
  BY NetStep
<1> QED BY NetInit, <1>1, PTL DEF Spec

-----------------------------------------------------------------------------
(* The ethernet stream is a transport of the ring.                         *)

\* A turn of stream_ethernet_read_frame is a step of the ring's callback.
LEMMA StepOfRing ==
    ASSUME NetTypeOK, [Next]_vars
    PROVE  [FBNext]_fbvars
<1>1. CASE \E a \in Addr : Send(a) \/ StreamAdd(a)
  BY <1>1 DEF Send, StreamAdd
<1>2. CASE ReadStep
  BY <1>2 DEF ReadStep, FBNext
<1>3. CASE Timeout \/ Interrupt
  BY <1>3 DEF Timeout, Interrupt, FBNext
<1>4. CASE SkipFrame
  <2>1. PICK d \in Queued : Receive(d) /\ FrameSkipped(d.pkts)
    BY <1>4 DEF SkipFrame
  <2> QED BY <2>1, ReceiveFacts DEF FBNext
<1>5. CASE RefuseFrame
  <2>1. PICK d \in Queued : Receive(d) /\ FrameRefused(d.pkts)
    BY <1>5 DEF RefuseFrame
  <2> QED BY <2>1, ReceiveFacts DEF FBNext
<1>6. CASE MismatchFrame
  <2>1. PICK d \in Queued : Receive(d) /\ FrameFatal(d.pkts)
    BY <1>6 DEF MismatchFrame
  <2> QED BY <2>1, ReceiveFacts DEF FBNext
<1>7. CASE AcceptFrame \/ AcceptDuplicate
  <2>1. PICK d \in Queued : Receive(d) /\ FrameStored(d.pkts)
    BY <1>7 DEF AcceptFrame, AcceptDuplicate, StoreFrame
  <2> QED BY <2>1, ReceiveFacts DEF FBNext
<1>8. CASE Aborted \/ UNCHANGED vars
  BY <1>8 DEF Aborted, vars
<1> QED BY <1>1, <1>2, <1>3, <1>4, <1>5, <1>6, <1>7, <1>8 DEF Next, Reader, ReadFrame

\* Every behaviour of the ethernet stream is a behaviour of the ring; the ring's
\* theorems carry over by it.
LEMMA EthernetImplementsRing == Spec => FBSpec
<1>1. Init => FBInit
  BY DEF Init
<1>2. NetTypeOK /\ [Next]_vars => [FBNext]_fbvars
  BY StepOfRing
<1> QED BY <1>1, <1>2, NetTypeCorrect, PTL DEF Spec, FBSpec

\* An ethernet stream answers EAGAIN only when every packet of the frames it
\* stored has been taken, however the waits for a frame ended.
THEOREM EthernetAgainMeansDrained == Spec => []AgainMeansDrained
<1>1. FBInv => AgainMeansDrained
  <2>. SUFFICES ASSUME FBInv, pc = "idle" PROVE out = rx
    BY DEF AgainMeansDrained
  <2>1. Len(out) = Len(rx) /\ out \in Seq(Packet) /\ rx \in Seq(Packet)
    BY DEF FBInv, FBTypeOK, ReaderPlace, RingAccounting
  <2>2. \A i \in 1..Len(out) : out[i] = rx[i]
    BY DEF FBInv, FIFO
  <2> QED BY <2>1, <2>2, SeqEqual
<1> QED BY <1>1, EthernetImplementsRing, RingInvariant, PTL

\* The types of the whole stream.
THEOREM EthernetTypeCorrect == Spec => []TypeOK
  BY NetTypeCorrect, EthernetImplementsRing, TypeCorrect, PTL DEF TypeOK

\* An ethernet stream gives its packets to the caller as PacketStream
\* promises, whatever the network loses, repeats or sends by mistake.
THEOREM EthernetPacketsInOrder == Spec => []FIFO /\ RefinesPacketStream
  BY EthernetImplementsRing, PacketsInOrder, ImplementsPacketStream, PTL

-----------------------------------------------------------------------------
(* The sequence check.                                                     *)

\* Only addresses of the stream have frames in it.
LastKnown == \A a \in Addr : last[a] # -1 => \E m \in DOMAIN addresses : addresses[m] = a

SeqInv == NetTypeOK /\ SeqnumTracksSender /\ LastKnown

\* Steps that leave the expected numbers and the addresses alone, or abort.
LEMMA SeqQuiet ==
    ASSUME SeqInv, UNCHANGED <<addresses, last>>,
           pc' = "aborted" \/ (UNCHANGED seqnum /\ (pc' # "aborted" => pc # "aborted"))
    PROVE  SeqnumTracksSender' /\ LastKnown'
  BY DEF SeqInv, SeqnumTracksSender, LastKnown, First

\* After a frame of address m is stored, its successor is expected.
LEMMA StoredTracks ==
    ASSUME NetTypeOK, NEW d \in Queued, NEW m \in DOMAIN addresses, StoreFrame(d, m),
           \/ /\ ~LoopbackDup(d, m) /\ Expected(d, m) = Got(d)
              /\ seqnum' = [seqnum EXCEPT ![m] = IncSeqnr(Expected(d, m))]
           \/ LoopbackDup(d, m) /\ UNCHANGED seqnum
    PROVE  seqnum'[m] = (d.n + 1) % SeqWrap
<1>1. Receive(d) /\ SeqWrap \in Int /\ SeqWrap > 1
  BY BoundsAssumption DEF StoreFrame
<1>2. d.n \in Int /\ Got(d) \in 0..SeqWrap-1
  BY <1>1, ReceiveFacts
<1>3. (d.n + 1) % SeqWrap = IF Got(d) + 1 >= SeqWrap THEN 0 ELSE Got(d) + 1
  BY <1>1, <1>2, ModSucc DEF Got
<1>4. m \in 1..MaxAddress
  BY AddressIndex
<1>5. CASE Expected(d, m) = Got(d) /\ seqnum' = [seqnum EXCEPT ![m] = IncSeqnr(Expected(d, m))]
  BY <1>3, <1>4, <1>5 DEF IncSeqnr, NetTypeOK
<1>6. CASE LoopbackDup(d, m) /\ UNCHANGED seqnum
  <2>1. Expected(d, m) = Got(d) + 1 /\ Expected(d, m) \in 0..SeqWrap-1
    BY <1>1, <1>6, ExpectedRange DEF LoopbackDup
  <2>2. seqnum[m] = Got(d) + 1
    BY <1>2, <2>1 DEF Expected
  <2> QED BY <1>1, <1>2, <1>3, <1>6, <2>1, <2>2
<1> QED BY <1>5, <1>6

\* Storing a frame keeps seqnum in step with every sender.
LEMMA SeqStored ==
    ASSUME SeqInv, AcceptFrame \/ AcceptDuplicate
    PROVE  SeqnumTracksSender' /\ LastKnown'
<1>1. PICK d \in Queued, m \in DOMAIN addresses :
         /\ StoreFrame(d, m)
         /\ \/ /\ ~LoopbackDup(d, m) /\ Expected(d, m) = Got(d)
               /\ seqnum' = [seqnum EXCEPT ![m] = IncSeqnr(Expected(d, m))]
            \/ LoopbackDup(d, m) /\ UNCHANGED seqnum
  BY DEF AcceptFrame, AcceptDuplicate
<1>2. /\ Receive(d) /\ addresses[m] = d.addr /\ First(m)
      /\ last' = [last EXCEPT ![d.addr] = d.n] /\ addresses' = addresses
  BY <1>1 DEF StoreFrame, Matched, Receive
<1>3. d.addr \in Addr /\ d.n \in Nat
  BY <1>2, ReceiveFacts DEF SeqInv
<1>4. seqnum'[m] = (d.n + 1) % SeqWrap
  BY <1>1, StoredTracks DEF SeqInv
<1>5. pc # "aborted"
  BY <1>1 DEF StoreFrame, FrameStored, Receiving
<1>6. ASSUME NEW k \in DOMAIN addresses, First(k), last'[addresses[k]] # -1
      PROVE  seqnum'[k] = (last'[addresses[k]] + 1) % SeqWrap
  <2>1. CASE k = m
    BY <1>2, <1>3, <1>4, <2>1 DEF SeqInv, NetTypeOK
  <2>2. CASE k # m
    <3>1. k \in 1..MaxAddress /\ m \in 1..MaxAddress /\ addresses[k] \in Addr
      BY AddressIndex DEF SeqInv
    <3>2. addresses[k] # addresses[m]
      <4>1. CASE k < m
        BY <1>2, <3>1, <4>1 DEF First
      <4>2. CASE m < k
        BY <1>6, <3>1, <4>2 DEF First
      <4> QED BY <2>2, <3>1, <4>1, <4>2
    <3>3. seqnum'[k] = seqnum[k]
      BY <1>1, <2>2, <3>1 DEF SeqInv, NetTypeOK
    <3>4. last'[addresses[k]] = last[addresses[k]]
      BY <1>2, <1>3, <3>1, <3>2 DEF SeqInv, NetTypeOK
    <3> QED BY <1>5, <1>6, <3>3, <3>4 DEF SeqInv, SeqnumTracksSender
  <2> QED BY <2>1, <2>2
<1>7. SeqnumTracksSender'
  BY <1>2, <1>6 DEF SeqnumTracksSender, First
<1>8. LastKnown'
  BY <1>2, <1>3 DEF SeqInv, LastKnown, NetTypeOK
<1> QED BY <1>7, <1>8

\* An address that is added is a new one, or not the first of its kind.
LEMMA SeqAdd ==
    ASSUME SeqInv, NEW a \in Addr, StreamAdd(a)
    PROVE  SeqnumTracksSender' /\ LastKnown'
<1>1. /\ addresses \in Seq(Addr) /\ addresses' = Append(addresses, a)
      /\ UNCHANGED <<seqnum, last, pc>>
  BY DEF SeqInv, NetTypeOK, StreamAdd, fbvars
<1>2. /\ Len(addresses) \in Nat
      /\ DOMAIN addresses = 1..Len(addresses)
      /\ DOMAIN addresses' = 1..Len(addresses)+1
      /\ \A i \in 1..Len(addresses) : addresses'[i] = addresses[i]
      /\ addresses'[Len(addresses) + 1] = a
  BY <1>1
<1>3. LastKnown'
  <2>. SUFFICES ASSUME NEW b \in Addr, last'[b] # -1
                PROVE  \E m \in DOMAIN addresses' : addresses'[m] = b
    BY DEF LastKnown
  <2>1. PICK m \in DOMAIN addresses : addresses[m] = b
    BY <1>1 DEF SeqInv, LastKnown
  <2> QED BY <1>2, <2>1, SMTT(30)
<1>4. ASSUME NEW k \in DOMAIN addresses', First(k)', last'[addresses'[k]] # -1, pc' # "aborted"
      PROVE  seqnum'[k] = (last'[addresses'[k]] + 1) % SeqWrap
  <2>1. CASE k \in DOMAIN addresses
    <3>1. addresses'[k] = addresses[k] /\ First(k)
      BY <1>2, <1>4, <2>1, SMTT(30) DEF First
    <3> QED BY <1>1, <1>4, <2>1, <3>1 DEF SeqInv, SeqnumTracksSender
  <2>2. CASE k = Len(addresses) + 1
    <3>1. addresses'[k] = a /\ last[a] # -1
      BY <1>1, <1>2, <1>4, <2>2
    <3>2. PICK j \in DOMAIN addresses : addresses[j] = a
      BY <3>1 DEF SeqInv, LastKnown
    <3>3. j \in 1..k-1 /\ addresses'[j] = addresses'[k]
      BY <1>2, <2>2, <3>1, <3>2, SMTT(30)
    <3> QED BY <1>4, <3>3 DEF First
  <2> QED BY <1>2, <2>1, <2>2
<1> QED BY <1>3, <1>4 DEF SeqnumTracksSender

\* Every step keeps seqnum in step with the senders.
LEMMA SeqStep ==
    ASSUME SeqInv, [Next]_vars
    PROVE  SeqInv'
<1>1. NetTypeOK'
  BY NetStep DEF SeqInv
<1>2. SeqnumTracksSender' /\ LastKnown'
  <2>1. CASE \E a \in Addr : Send(a)
    BY <2>1, SeqQuiet DEF Send, fbvars
  <2>2. CASE \E a \in Addr : StreamAdd(a)
    BY <2>2, SeqAdd
  <2>3. CASE ReadStep
    <3>1. pc # "aborted" /\ UNCHANGED <<addresses, last, seqnum>>
      BY <2>3 DEF ReadStep, Call, AbortEmptyFrame, TakePacket
    <3> QED BY <3>1, SeqQuiet
  <2>4. CASE Timeout \/ Interrupt
    <3>1. pc # "aborted" /\ UNCHANGED <<addresses, last, seqnum>>
      BY <2>4 DEF Timeout, Interrupt, Nothing, NoFrame, Receiving
    <3> QED BY <3>1, SeqQuiet
  <2>5. CASE SkipFrame \/ RefuseFrame
    <3>1. pc # "aborted" /\ UNCHANGED <<addresses, last, seqnum>>
      BY <2>5 DEF SkipFrame, RefuseFrame, Receive, FrameSkipped, FrameRefused, NoFrame, Receiving
    <3> QED BY <3>1, SeqQuiet
  <2>6. CASE MismatchFrame
    <3>1. pc' = "aborted" /\ UNCHANGED <<addresses, last>>
      BY <2>6 DEF MismatchFrame, Receive, FrameFatal
    <3> QED BY <3>1, SeqQuiet
  <2>7. CASE AcceptFrame \/ AcceptDuplicate
    BY <2>7, SeqStored
  <2>8. CASE Aborted \/ UNCHANGED vars
    BY <2>8, SeqQuiet DEF Aborted, vars, fbvars
  <2> QED BY <2>1, <2>2, <2>3, <2>4, <2>5, <2>6, <2>7, <2>8 DEF Next, Reader, ReadFrame
<1> QED BY <1>1, <1>2 DEF SeqInv

\* The expected number is always that of the sender's next frame.
THEOREM SequenceInvariant == Spec => []SeqInv
<1>1. Init => SeqInv
  BY NetInit, SMTT(30) DEF Init, SeqInv, SeqnumTracksSender, LastKnown, NetTypeOK
<1>2. SeqInv /\ [Next]_vars => SeqInv'
  BY SeqStep
<1> QED BY <1>1, <1>2, PTL DEF Spec

\* The same for the invariant TLC checks.
THEOREM SeqnumTracks == Spec => []SeqnumTracksSender
  BY SequenceInvariant, PTL DEF SeqInv

\* The frame that changes last is the next of its sender or a duplicate.
LEMMA StoredContinues ==
    ASSUME SeqInv, AcceptFrame \/ AcceptDuplicate,
           NEW a \in Addr, last'[a] # last[a], last[a] # -1, (last[a] + 1) % SeqWrap # 0
    PROVE  \/ (last'[a] - last[a]) % SeqWrap = 1
           \/ if_loopback /\ (last'[a] - last[a]) % SeqWrap = 0
<1>1. PICK d \in Queued, m \in DOMAIN addresses :
         StoreFrame(d, m) /\ (Expected(d, m) = Got(d) \/ LoopbackDup(d, m))
  BY DEF AcceptFrame, AcceptDuplicate
<1>2. /\ Receive(d) /\ addresses[m] = d.addr /\ First(m)
      /\ last' = [last EXCEPT ![d.addr] = d.n]
  BY <1>1 DEF StoreFrame, Matched
<1>3. d.addr \in Addr /\ d.n \in Int /\ Got(d) \in 0..SeqWrap-1
  BY <1>2, ReceiveFacts DEF SeqInv
<1>4. a = d.addr /\ last'[a] = d.n /\ last[a] \in Int
  BY <1>2, <1>3, SMTT(30) DEF SeqInv, NetTypeOK
<1>5. pc # "aborted"
  BY <1>1 DEF StoreFrame, FrameStored, Receiving
<1>6. seqnum[m] = (last[a] + 1) % SeqWrap
  BY <1>2, <1>4, <1>5 DEF SeqInv, SeqnumTracksSender
<1>7. Expected(d, m) = (last[a] + 1) % SeqWrap
  BY <1>6 DEF Expected
<1>8. SeqWrap \in Int /\ SeqWrap > 1 /\ 0 \in {0, 1} /\ 1 \in {0, 1}
  BY BoundsAssumption
<1>9. CASE Expected(d, m) = Got(d)
  <2>1. d.n % SeqWrap = (last[a] + 1) % SeqWrap
    BY <1>7, <1>9 DEF Got
  <2>2. (d.n - last[a]) % SeqWrap = 1
    BY <1>3, <1>4, <1>8, <2>1, ModDiff
  <2> QED BY <1>4, <2>2
<1>10. CASE LoopbackDup(d, m)
  <2>1. Got(d) + 1 = (last[a] + 1) % SeqWrap /\ if_loopback
    BY <1>7, <1>10 DEF LoopbackDup
  <2>2. (last[a] + 1) % SeqWrap =
           IF (last[a] % SeqWrap) + 1 >= SeqWrap THEN 0 ELSE (last[a] % SeqWrap) + 1
    BY <1>4, <1>8, ModSucc
  <2>3. last[a] % SeqWrap \in Int
    BY <1>4, <1>8
  <2>4. Got(d) = last[a] % SeqWrap
    BY <1>3, <2>1, <2>2, <2>3
  <2>5. d.n % SeqWrap = (last[a] + 0) % SeqWrap
    BY <1>4, <2>4 DEF Got
  <2>6. (d.n - last[a]) % SeqWrap = 0
    BY <1>3, <1>4, <1>8, <2>5, ModDiff
  <2> QED BY <1>4, <2>1, <2>6
<1> QED BY <1>1, <1>9, <1>10

\* A frame that breaks the numbering of its sender never enters the ring,
\* except where the expected number has wrapped to 0.
THEOREM GapsAreDetected == Spec => GapsDetected
<1>. DEFINE Continues ==
        \A a \in Addr :
          last'[a] # last[a] /\ last[a] # -1 /\ (last[a] + 1) % SeqWrap # 0
             => \/ (last'[a] - last[a]) % SeqWrap = 1
                \/ if_loopback /\ (last'[a] - last[a]) % SeqWrap = 0
<1>1. SeqInv /\ [Next]_vars => [Continues]_vars
  <2>. SUFFICES ASSUME SeqInv, Next PROVE Continues
    OBVIOUS
  <2>1. CASE AcceptFrame \/ AcceptDuplicate
    BY <2>1, StoredContinues
  <2>2. CASE ~(AcceptFrame \/ AcceptDuplicate)
    <3>1. UNCHANGED last
      BY <2>2 DEF Next, Reader, ReadFrame, ReadStep, Send, StreamAdd, Timeout, Interrupt,
         SkipFrame, RefuseFrame, MismatchFrame, Aborted, vars
    <3> QED BY <3>1
  <2> QED BY <2>1, <2>2
<1> QED BY <1>1, SequenceInvariant, PTL DEF Spec, GapsDetected
=============================================================================
