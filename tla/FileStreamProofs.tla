-------------------------- MODULE FileStreamProofs --------------------------
(***************************************************************************)
(* Proofs about FileStream, for every file, buffer size and filter.        *)
(***************************************************************************)
EXTENDS FileStream, TLAPS

\* The reader has not read past the end, and the file may be cut short.
FileOK == fpos <= size /\ size <= start[Len(start)]

\* A packet that was peeked is the next one.
PeekNext == peeked # 0 => peeked = Len(out) + 1 /\ peeked \in Packets

\* The inductive invariant of the window; in "body" there is a header to read.
WindowInv ==
    /\ TypeOK
    /\ FileOK
    /\ WindowAligned
    /\ PacketsInOrder
    /\ PeekNext
    /\ pc = "body" => HasHeader

\* The offsets of a file are numbers, and a packet has at least a header.
LEMMA StartFacts ==
    ASSUME TypeOK
    PROVE  /\ start \in Seq(Nat) /\ Len(start) \in Nat \ {0}
           /\ start[1] = 0
           /\ \A i \in 1..Len(start) : start[i] \in Nat
           /\ \A i, j \in 1..Len(start) : i < j => start[i] + Hdr <= start[j]
           /\ buffer_size \in Nat /\ buffer_size >= Hdr /\ Hdr \in Nat /\ Hdr > 0
<1>1. start \in Starts /\ buffer_size \in BufSizes
  BY DEF TypeOK
<1>2. /\ start \in Seq(Nat) /\ Len(start) >= 1 /\ start[1] = 0
      /\ \A i, j \in 1..Len(start) : i < j => start[i] + Hdr <= start[j]
  BY <1>1, StartsAssumption
<1>3. buffer_size \in Nat /\ buffer_size >= Hdr /\ Hdr \in Nat /\ Hdr > 0
  BY <1>1, BufSizesAssumption, HdrAssumption
<1> QED
  BY <1>2, <1>3

\* With a header in the buffer, the byte at readPos is the first of the
\* packet behind the ones taken, and the size read there is its size.
LEMMA NextPacket ==
    ASSUME WindowInv, pc # "closed", HasHeader
    PROVE  /\ Len(out) + 1 \in Packets
           /\ PacketAt(readPos) = Len(out) + 1
           /\ PacketSize(readPos) = start[Len(out) + 2] - start[Len(out) + 1]
           /\ PacketSize(readPos) \in Nat /\ PacketSize(readPos) >= Hdr
<1> DEFINE i == Len(out) + 1
<1>1. /\ start \in Seq(Nat) /\ Len(start) \in Nat \ {0}
      /\ \A k \in 1..Len(start) : start[k] \in Nat
      /\ \A k, j \in 1..Len(start) : k < j => start[k] + Hdr <= start[j]
      /\ Hdr \in Nat /\ Hdr > 0
  BY StartFacts DEF WindowInv
<1>2. /\ readPos \in Nat /\ writePos \in Nat /\ fpos \in Nat /\ size \in Nat
      /\ fpos <= size /\ size <= start[Len(start)]
      /\ writePos - readPos >= Hdr
  BY DEF WindowInv, TypeOK, FileOK, HasHeader
<1>3. /\ i \in 1..Len(start)
      /\ start[i] = fpos - (writePos - readPos)
      /\ buffer[readPos] = start[i]
  <2>1. readPos \in readPos..writePos-1
    BY <1>1, <1>2
  <2> QED
    BY <2>1 DEF WindowInv, WindowAligned
<1>4. i # Len(start)
  BY <1>1, <1>2, <1>3
<1>5. i \in Packets
  BY <1>1, <1>3, <1>4 DEF Packets
<1>6. \A j \in Packets : start[j] = buffer[readPos] => j = i
  <2> SUFFICES ASSUME NEW j \in Packets, start[j] = start[i], j # i
               PROVE  FALSE
    BY <1>3
  <2>1. j \in 1..Len(start) /\ i \in Int
    BY <1>1, <1>3 DEF Packets
  <2>2. start[i] \in Nat /\ start[j] \in Nat
    BY <1>1, <1>3, <2>1
  <2>3. i < j \/ j < i
    BY <2>1
  <2> QED
    BY <1>1, <1>3, <2>1, <2>2, <2>3
<1>7. PacketAt(readPos) = i
  BY <1>3, <1>5, <1>6 DEF PacketAt
<1>8. i \in Nat \ {0} /\ i + 1 = Len(out) + 2
  <2>1. Len(out) \in Nat
    BY DEF WindowInv, TypeOK
  <2> QED
    BY <2>1
<1>9. PacketSize(readPos) = start[Len(out) + 2] - start[i]
  BY <1>7, <1>8 DEF PacketSize
<1>10. i + 1 \in 1..Len(start) /\ i < i + 1
  BY <1>5, <1>8, <1>1 DEF Packets
<1>11. start[i + 1] \in Nat /\ start[i] \in Nat /\ start[i] + Hdr <= start[i + 1]
  BY <1>1, <1>3, <1>10
<1> QED
  BY <1>1, <1>5, <1>7, <1>8, <1>9, <1>11

\* The window fill_buffer leaves behind, with n more bytes of the file.
LEMMA Refilled ==
    ASSUME TypeOK, FileOK, WindowAligned, pc # "closed",
           NEW n \in Nat, n <= Readable, Refill(n), fpos' = fpos + n, UNCHANGED file
    PROVE  /\ buffer' \in [0..buffer_size-1 -> Int]
           /\ readPos' = 0
           /\ writePos' \in 0..buffer_size
           /\ writePos' = (writePos - readPos) + n
           /\ fpos' \in Nat /\ fpos' <= size
           /\ \A p \in 0..writePos'-1 : buffer'[p] = fpos' - (writePos' - p)
<1> DEFINE bytes == writePos - readPos
<1>1. /\ buffer_size \in Nat /\ readPos \in Nat /\ writePos \in Nat
      /\ writePos <= buffer_size /\ fpos \in Nat /\ size \in Nat /\ fpos <= size
      /\ readPos <= writePos
  BY StartFacts DEF TypeOK, FileOK, WindowAligned
<1>2. bytes \in Nat /\ bytes + n <= buffer_size /\ fpos + n <= size
  BY <1>1 DEF Readable, Room
<1>3. readPos' = 0 /\ writePos' = bytes + n
  BY DEF Refill
<1>4. \A p \in 0..bytes-1 : p + readPos \in readPos..writePos-1 /\ p + readPos \in 0..buffer_size-1
  BY <1>1
<1>5. \A p \in 0..bytes-1 : buffer[p + readPos] = fpos - (bytes - p)
  <2> TAKE p \in 0..bytes-1
  <2>1. buffer[p + readPos] = fpos - (writePos - (p + readPos))
    BY <1>4 DEF WindowAligned
  <2> QED
    BY <1>1, <2>1
<1>6. /\ buffer' = [p \in 0..buffer_size-1 |->
                       IF p < bytes THEN buffer[p + readPos]
                       ELSE IF p < bytes + n THEN fpos + (p - bytes)
                       ELSE buffer[p]]
  BY DEF Refill
<1>7. \A p \in 0..buffer_size-1 : buffer[p] \in Int
  BY DEF TypeOK
<1>8. buffer' \in [0..buffer_size-1 -> Int]
  <2> SUFFICES ASSUME NEW p \in 0..buffer_size-1
               PROVE  (IF p < bytes THEN buffer[p + readPos]
                       ELSE IF p < bytes + n THEN fpos + (p - bytes)
                       ELSE buffer[p]) \in Int
    BY <1>6
  <2>1. CASE p < bytes
    <3>1. p + readPos \in 0..buffer_size-1
      BY <1>1, <1>4, <2>1
    <3> QED
      BY <1>7, <2>1, <3>1
  <2>2. CASE ~(p < bytes)
    BY <1>1, <1>2, <1>7, <2>2
  <2> QED
    BY <2>1, <2>2
<1>9. \A p \in 0..writePos'-1 : buffer'[p] = fpos' - (writePos' - p)
  <2> TAKE p \in 0..writePos'-1
  <2>1. p \in 0..buffer_size-1 /\ p < bytes + n /\ p \in Nat
    BY <1>1, <1>2, <1>3
  <2>2. CASE p < bytes
    <3>1. buffer'[p] = buffer[p + readPos]
      BY <1>6, <2>1, <2>2
    <3>2. buffer[p + readPos] = fpos - (bytes - p)
      BY <1>2, <1>5, <2>1, <2>2
    <3> QED
      BY <1>1, <1>2, <1>3, <2>1, <3>1, <3>2
  <2>3. CASE ~(p < bytes)
    <3>1. buffer'[p] = fpos + (p - bytes)
      BY <1>6, <2>1, <2>3
    <3> QED
      BY <1>1, <1>2, <1>3, <2>1, <3>1
  <2> QED
    BY <2>2, <2>3
<1> QED
  BY <1>1, <1>2, <1>3, <1>8, <1>9

\* A refill, or none, keeps the window aligned and what is in it.
LEMMA FillKeeps ==
    ASSUME TypeOK, FileOK, WindowAligned, pc # "closed",
           FillOk \/ FillEof, UNCHANGED <<file, out>>
    PROVE  /\ buffer' \in [0..buffer_size-1 -> Int]
           /\ readPos' \in 0..buffer_size
           /\ writePos' \in 0..buffer_size
           /\ fpos' \in Nat
           /\ FileOK'
           /\ WindowAligned'
           /\ HasHeader => HasHeader'
<1>1. /\ buffer_size \in Nat /\ readPos \in Nat /\ writePos \in Nat
      /\ writePos <= buffer_size /\ fpos \in Nat /\ size \in Nat /\ fpos <= size
      /\ readPos <= writePos /\ Hdr \in Nat
  BY StartFacts DEF TypeOK, FileOK, WindowAligned
<1>2. UNCHANGED <<start, size, buffer_size, out>>
  BY DEF file
<1>3. CASE UNCHANGED window
  BY <1>2, <1>3 DEF window, TypeOK, FileOK, WindowAligned, HasHeader
<1>4. ASSUME NEW n \in Nat, n <= Readable, Refill(n), fpos' = fpos + n
      PROVE  /\ buffer' \in [0..buffer_size-1 -> Int]
             /\ readPos' \in 0..buffer_size
             /\ writePos' \in 0..buffer_size
             /\ fpos' \in Nat
             /\ FileOK'
             /\ WindowAligned'
             /\ HasHeader => HasHeader'
  <2>1. /\ buffer' \in [0..buffer_size-1 -> Int]
        /\ readPos' = 0
        /\ writePos' \in 0..buffer_size
        /\ writePos' = (writePos - readPos) + n
        /\ fpos' \in Nat /\ fpos' <= size
        /\ \A p \in 0..writePos'-1 : buffer'[p] = fpos' - (writePos' - p)
    BY <1>4, Refilled
  <2>2. FileOK'
    BY <1>2, <2>1 DEF FileOK
  <2>3. HasHeader => HasHeader'
    BY <1>1, <2>1 DEF HasHeader
  <2>4. /\ Len(out) + 1 \in 1..Len(start)
        /\ start[Len(out) + 1] = fpos - (writePos - readPos)
    BY DEF WindowAligned
  <2>5. fpos - (writePos - readPos) = fpos' - (writePos' - readPos')
    BY <1>1, <1>4, <2>1
  <2>6. readPos' <= writePos' /\ \A p \in readPos'..writePos'-1 : buffer'[p] = fpos' - (writePos' - p)
    BY <1>1, <2>1
  <2>7. WindowAligned'
    BY <1>2, <2>4, <2>5, <2>6 DEF WindowAligned
  <2> QED
    BY <1>1, <2>1, <2>2, <2>3, <2>7
<1>5. CASE Readable > 0 /\ Refill(Readable) /\ fpos' = fpos + Readable
  <2>1. Readable \in Nat
    BY <1>1, <1>5 DEF Readable, Room
  <2> QED
    BY <1>4, <1>5, <2>1
<1>6. CASE FillEof
  <2>1. Readable >= 0 /\ 0 \in Nat /\ fpos' = fpos + 0 /\ Refill(0)
    BY <1>1, <1>6 DEF FillEof
  <2> QED
    BY <1>4, <2>1
<1> QED
  BY <1>3, <1>5, <1>6 DEF FillOk

\* When fill_buffer fails the positions are still within the buffer.
LEMMA FillErrorTypes ==
    ASSUME TypeOK, FileOK, WindowAligned, pc # "closed", FillError, UNCHANGED file
    PROVE  /\ buffer' \in [0..buffer_size-1 -> Int]
           /\ readPos' \in 0..buffer_size
           /\ writePos' \in 0..buffer_size
           /\ fpos' \in Nat
           /\ FileOK'
<1>1. /\ buffer_size \in Nat /\ readPos \in Nat /\ writePos \in Nat
      /\ writePos <= buffer_size /\ fpos \in Nat /\ size \in Nat /\ fpos <= size
      /\ readPos <= writePos
  BY StartFacts DEF TypeOK, FileOK, WindowAligned
<1>2. PICK lost \in 0..Readable : fpos' = fpos + lost
  BY DEF FillError
<1>3. Readable \in Nat /\ Readable <= size - fpos
  BY <1>1 DEF Readable, Room
<1>4. fpos' \in Nat /\ FileOK'
  BY <1>1, <1>2, <1>3 DEF FileOK, file
<1>5. readPos' = 0 /\ writePos' = (writePos - readPos) + 0
  BY DEF FillError, Refill
<1>6. buffer' \in [0..buffer_size-1 -> Int]
  <2>1. buffer' = [p \in 0..buffer_size-1 |->
                     IF p < writePos - readPos THEN buffer[p + readPos]
                     ELSE IF p < (writePos - readPos) + 0 THEN fpos + (p - (writePos - readPos))
                     ELSE buffer[p]]
    BY DEF FillError, Refill
  <2>2. \A p \in 0..buffer_size-1 : buffer[p] \in Int
    BY DEF TypeOK
  <2> SUFFICES ASSUME NEW p \in 0..buffer_size-1
               PROVE  (IF p < writePos - readPos THEN buffer[p + readPos]
                       ELSE IF p < (writePos - readPos) + 0 THEN fpos + (p - (writePos - readPos))
                       ELSE buffer[p]) \in Int
    BY <2>1
  <2>3. p < writePos - readPos => p + readPos \in 0..buffer_size-1
    BY <1>1
  <2> QED
    BY <1>1, <2>2, <2>3
<1> QED
  BY <1>1, <1>4, <1>5, <1>6

-----------------------------------------------------------------------------

LEMMA WindowInit == Init => WindowInv
<1> SUFFICES ASSUME Init PROVE WindowInv
  OBVIOUS
<1>1. /\ start \in Seq(Nat) /\ Len(start) \in Nat \ {0} /\ start[1] = 0
      /\ start[Len(start)] \in Nat /\ buffer_size \in Nat
  <2>1. start \in Starts /\ buffer_size \in BufSizes
    BY DEF Init
  <2>2. start \in Seq(Nat) /\ Len(start) >= 1 /\ start[1] = 0
    BY <2>1, StartsAssumption
  <2>3. buffer_size \in Nat
    BY <2>1, BufSizesAssumption
  <2> QED
    BY <2>2, <2>3
<1>2. TypeOK
  BY <1>1 DEF Init, TypeOK
<1>3. FileOK
  BY <1>1 DEF Init, FileOK
<1>4. WindowAligned
  BY <1>1 DEF Init, WindowAligned
<1>5. PacketsInOrder
  BY DEF Init, PacketsInOrder
<1> QED
  BY <1>2, <1>3, <1>4, <1>5 DEF Init, WindowInv, PeekNext

\* Steps that leave the window alone.
LEMMA WindowQuiet ==
    ASSUME WindowInv, UNCHANGED <<file, window, out>>, pc # "closed",
           pc' \in {"idle", "read", "peek"}, data' \in Int,
           ret' \in {"none", "ok", "eof", "error", "invalid"}, UNCHANGED delivered, 
           peeked' = peeked \/ (peeked' = Len(out) + 1 /\ peeked' \in Packets)
    PROVE  WindowInv'
<1>1. Len(out) \in Nat /\ peeked' \in Nat
  BY DEF WindowInv, TypeOK, Packets
<1>2. TypeOK'
  BY <1>1 DEF WindowInv, TypeOK, file, window
<1>3. FileOK' /\ PacketsInOrder'
  BY DEF WindowInv, FileOK, PacketsInOrder, file, window
<1>4. WindowAligned'
  BY DEF WindowInv, WindowAligned, file, window
<1>5. PeekNext'
  BY DEF WindowInv, PeekNext, Packets, file
<1> QED
  BY <1>2, <1>3, <1>4, <1>5 DEF WindowInv

\* Steps in which fill_buffer finds bytes or the end of the file.
LEMMA WindowFilled ==
    ASSUME WindowInv, pc # "closed", FillOk \/ FillEof,
           UNCHANGED <<file, data, out, delivered, peeked>>,
           pc' \in {"idle", "read", "peek", "body"}, pc' = "body" => HasHeader,
           ret' \in {"none", "ok", "eof", "error", "invalid"}
    PROVE  WindowInv'
<1>1. /\ buffer' \in [0..buffer_size-1 -> Int]
      /\ readPos' \in 0..buffer_size
      /\ writePos' \in 0..buffer_size
      /\ fpos' \in Nat
      /\ FileOK'
      /\ WindowAligned'
      /\ HasHeader => HasHeader'
  BY FillKeeps DEF WindowInv
<1>2. TypeOK'
  BY <1>1 DEF WindowInv, TypeOK, file
<1>3. PacketsInOrder' /\ PeekNext'
  BY DEF WindowInv, PacketsInOrder, PeekNext, Packets, file
<1> QED
  BY <1>1, <1>2, <1>3 DEF WindowInv

\* Steps in which fill_buffer fails.
LEMMA WindowError ==
    ASSUME WindowInv, pc # "closed", FillError, Return("error"),
           UNCHANGED <<file, data, out, delivered, peeked>>
    PROVE  WindowInv'
<1>1. /\ buffer' \in [0..buffer_size-1 -> Int]
      /\ readPos' \in 0..buffer_size
      /\ writePos' \in 0..buffer_size
      /\ fpos' \in Nat
      /\ FileOK'
  BY FillErrorTypes DEF WindowInv
<1>2. pc' = "closed" /\ ret' = "error"
  BY DEF Return
<1>3. TypeOK'
  BY <1>1, <1>2 DEF WindowInv, TypeOK, file
<1>4. PacketsInOrder' /\ PeekNext' /\ WindowAligned'
  BY <1>2 DEF WindowInv, PacketsInOrder, PeekNext, WindowAligned, Packets, file
<1> QED
  BY <1>1, <1>2, <1>3, <1>4 DEF WindowInv

LEMMA WindowFillSteps ==
    ASSUME WindowInv, pc # "closed", NEW top \in {"read", "peek"},
           FillAgain(top) \/ FillReturn
    PROVE  WindowInv'
<1>1. CASE FillAgain(top)
  <2>1. FillOk /\ pc' = top /\ UNCHANGED <<file, data, ret, out, delivered, peeked>>
    BY <1>1 DEF FillAgain
  <2>2. ret' \in {"none", "ok", "eof", "error", "invalid"}
    BY <2>1 DEF WindowInv, TypeOK
  <2> QED
    BY <2>1, <2>2, WindowFilled
<1>2. CASE FillReturn
  <2>1. UNCHANGED <<file, data, out, delivered, peeked>>
    BY <1>2 DEF FillReturn
  <2>2. CASE FillEof /\ Return("eof")
    <3>1. pc' = "idle" /\ ret' = "eof"
      BY <2>2 DEF Return
    <3> QED
      BY <2>1, <2>2, <3>1, WindowFilled
  <2>3. CASE FillError /\ Return("error")
    BY <2>1, <2>3, WindowError
  <2> QED
    BY <1>2, <2>2, <2>3 DEF FillReturn
<1> QED
  BY <1>1, <1>2

\* Taking a packet moves readPos to the start of the packet behind it.
LEMMA WindowTake ==
    ASSUME WindowInv, ReadTake
    PROVE  WindowInv'
<1> DEFINE i == Len(out) + 1
<1>1. pc = "body" /\ HasHeader /\ HasPacket
  BY DEF WindowInv, ReadTake
<1>2. /\ i \in Packets
      /\ PacketAt(readPos) = i
      /\ PacketSize(readPos) = start[Len(out) + 2] - start[i]
      /\ PacketSize(readPos) \in Nat
  BY <1>1, NextPacket
<1>3. /\ out' = Append(out, i)
      /\ data' = readPos
      /\ readPos' = readPos + PacketSize(readPos)
      /\ peeked' = 0
      /\ UNCHANGED <<start, size, buffer_size, buffer, writePos, fpos>>
  BY <1>2 DEF ReadTake, file
<1>4. /\ delivered' \in {delivered, Append(delivered, i)}
      /\ pc' \in {"idle", "read"}
      /\ ret' \in {"ok", ret}
  BY <1>2 DEF ReadTake, Return
<1>5. /\ readPos \in Nat /\ writePos \in Nat /\ buffer_size \in Nat /\ Len(out) \in Nat
      /\ writePos <= buffer_size /\ fpos \in Nat
      /\ out \in Seq(Nat) /\ delivered \in Seq(Nat)
      /\ readPos + PacketSize(readPos) <= writePos
  BY <1>1, StartFacts DEF WindowInv, TypeOK, HasPacket
<1>6. /\ start \in Seq(Nat) /\ Len(start) \in Nat \ {0}
      /\ \A k \in 1..Len(start) : start[k] \in Nat
  BY StartFacts DEF WindowInv
<1>7. /\ Len(out') = i /\ out' \in Seq(Nat) /\ out'[i] = i
      /\ \A k \in 1..Len(out) : out'[k] = out[k]
  BY <1>3, <1>5
<1>8. TypeOK'
  <2>1. delivered' \in Seq(Nat)
    <3>1. i \in Nat
      BY <1>5
    <3>2. Append(delivered, i) \in Seq(Nat)
      BY <1>5, <3>1
    <3> QED
      BY <1>4, <1>5, <3>2
  <2>2. readPos' \in 0..buffer_size /\ data' \in Int
    BY <1>2, <1>3, <1>5
  <2> QED
    BY <1>3, <1>4, <1>7, <2>1, <2>2 DEF WindowInv, TypeOK
<1>9. FileOK'
  BY <1>3 DEF WindowInv, FileOK
<1>10. WindowAligned'
  <2>1. /\ \A p \in readPos..writePos-1 : buffer[p] = fpos - (writePos - p)
        /\ start[i] = fpos - (writePos - readPos)
    BY <1>1 DEF WindowInv, WindowAligned
  <2>2. readPos' <= writePos' /\ \A p \in readPos'..writePos'-1 : buffer'[p] = fpos' - (writePos' - p)
    BY <1>2, <1>3, <1>5, <2>1
  <2>3. i + 1 \in 1..Len(start) /\ i \in 1..Len(start) /\ i + 1 = Len(out) + 2
    <3>1. i \in 1..Len(start) - 1
      BY <1>2 DEF Packets
    <3>2. Len(start) \in Nat /\ Len(out) \in Nat
      BY <1>5, <1>6
    <3> QED
      BY <3>1, <3>2
  <2>4. start[i + 1] = fpos - (writePos - readPos')
    <3>1. start[i + 1] \in Nat /\ start[i] \in Nat
      BY <1>6, <2>3
    <3>2. PacketSize(readPos) = start[i + 1] - start[i]
      BY <1>2, <2>3
    <3>3. readPos' = readPos + PacketSize(readPos) /\ PacketSize(readPos) \in Nat
      BY <1>2, <1>3
    <3>4. start[i] = fpos - (writePos - readPos)
      BY <2>1
    <3>5. readPos \in Nat /\ writePos \in Nat /\ fpos \in Nat
      BY <1>5
    <3> HIDE DEF i
    <3> QED
      BY <3>1, <3>2, <3>3, <3>4, <3>5
  <2> QED
    BY <1>3, <1>7, <2>2, <2>3, <2>4 DEF WindowAligned
<1>11. PacketsInOrder'
  <2>1. DOMAIN out' = 1..i /\ DOMAIN out = 1..Len(out)
    BY <1>5, <1>7
  <2>2. \A k \in 1..i : k = i \/ k \in 1..Len(out)
    BY <1>5
  <2> QED
    BY <1>7, <2>1, <2>2 DEF WindowInv, PacketsInOrder
<1> QED
  BY <1>3, <1>4, <1>8, <1>9, <1>10, <1>11 DEF WindowInv, PeekNext

LEMMA WindowStep == WindowInv /\ [Next]_vars => WindowInv'
<1> SUFFICES ASSUME WindowInv, [Next]_vars PROVE WindowInv'
  OBVIOUS
<1>0. data \in Int /\ ret \in {"none", "ok", "eof", "error", "invalid"} /\ readPos \in Int
  BY StartFacts DEF WindowInv, TypeOK
<1>1. CASE ReadCall
  BY <1>0, <1>1, WindowQuiet DEF ReadCall
<1>2. CASE PeekCall
  BY <1>0, <1>2, WindowQuiet DEF PeekCall
<1>3. CASE ReadHeader
  BY <1>3, WindowFillSteps DEF ReadHeader
<1>4. CASE ReadTopUp
  <2>1. pc # "closed" /\ HasHeader /\ UNCHANGED <<file, data, out, delivered, peeked>>
    BY <1>4 DEF ReadTopUp
  <2>2. CASE (FillOk \/ FillEof) /\ pc' = "body" /\ UNCHANGED ret
    BY <1>0, <2>1, <2>2, WindowFilled
  <2>3. CASE FillError /\ Return("error")
    BY <2>1, <2>3, WindowError
  <2> QED
    BY <1>4, <2>2, <2>3 DEF ReadTopUp
<1>5. CASE ReadBody
  BY <1>5, WindowFillSteps DEF ReadBody
<1>6. CASE ReadTake
  BY <1>6, WindowTake
<1>7. CASE PeekHeader
  BY <1>7, WindowFillSteps DEF PeekHeader
<1>8. CASE PeekInvalid
  <2>1. pc # "closed" /\ pc' = "idle" /\ ret' = "invalid"
    BY <1>8 DEF PeekInvalid, Return
  <2> QED
    BY <1>0, <1>8, <2>1, WindowQuiet DEF PeekInvalid
<1>9. CASE PeekBody
  BY <1>9, WindowFillSteps DEF PeekBody
<1>10. CASE PeekFound
  <2>1. /\ pc = "peek" /\ HasHeader /\ data' = readPos
        /\ UNCHANGED <<file, window, out, delivered>>
    BY <1>10 DEF PeekFound
  <2>2. PacketAt(readPos) = Len(out) + 1 /\ Len(out) + 1 \in Packets
    BY <2>1, NextPacket
  <2>3. /\ pc' \in {"idle", "peek"} /\ ret' \in {"ok", ret}
        /\ peeked' \in {peeked, PacketAt(readPos)}
    BY <1>10, <2>1 DEF PeekFound, Return
  <2> QED
    BY <1>0, <2>1, <2>2, <2>3, WindowQuiet
<1>11. CASE UNCHANGED vars
  BY <1>11 DEF vars, file, window, WindowInv, TypeOK, FileOK, WindowAligned,
               PacketsInOrder, PeekNext, Packets, HasHeader
<1> QED
  BY <1>1, <1>2, <1>3, <1>4, <1>5, <1>6, <1>7, <1>8, <1>9, <1>10, <1>11
     DEF Next, Reading, Peeking, Closed

\* The invariant of the byte buffer, for every file and buffer size.
THEOREM WindowInvariant == Spec => []WindowInv
BY WindowInit, WindowStep, PTL DEF Spec

\* Positions stay within the buffer, whatever sizes packets and buffer have.
THEOREM FileTypeCorrect == Spec => []TypeOK
<1>1. WindowInv => TypeOK
  BY DEF WindowInv
<1> QED
  BY <1>1, WindowInvariant, PTL

\* The buffer is always a part of the file that starts with a packet.
THEOREM WindowStaysAligned == Spec => []WindowAligned
<1>1. WindowInv => WindowAligned
  BY DEF WindowInv
<1> QED
  BY <1>1, WindowInvariant, PTL

\* stream_read takes every packet once, in the order of the file.
THEOREM FilePacketsInOrder == Spec => []PacketsInOrder
<1>1. WindowInv => PacketsInOrder
  BY DEF WindowInv
<1> QED
  BY <1>1, WindowInvariant, PTL

-----------------------------------------------------------------------------

\* With no bytes left to read and room for some, the file is at its end.
LEMMA AtEnd ==
    ASSUME WindowInv, pc # "closed", Readable = 0, writePos - readPos < buffer_size
    PROVE  size = fpos
<1>1. /\ buffer_size \in Nat /\ readPos \in Nat /\ writePos \in Nat
      /\ fpos \in Nat /\ size \in Nat /\ fpos <= size
  BY StartFacts DEF WindowInv, TypeOK, FileOK
<1> QED
  BY <1>1 DEF Readable, Room

\* No packet behind the ones taken ends before an offset e that the next one
\* does not reach.
LEMMA NoneLeft ==
    ASSUME WindowInv, pc # "closed", NEW k \in Packets, k > Len(out),
           NEW e \in Nat, start[k + 1] <= e
    PROVE  /\ start[Len(out) + 1] + Hdr <= e
           /\ Len(out) + 2 \in 1..Len(start) /\ start[Len(out) + 2] <= e
<1>1. /\ Len(start) \in Nat \ {0}
      /\ \A i \in 1..Len(start) : start[i] \in Nat
      /\ \A i, j \in 1..Len(start) : i < j => start[i] + Hdr <= start[j]
      /\ Hdr \in Nat /\ Hdr > 0
  BY StartFacts DEF WindowInv
<1>2. Len(out) \in Nat /\ k \in Nat
  BY DEF WindowInv, TypeOK, Packets
<1>3. /\ k + 1 \in 1..Len(start) /\ Len(out) + 1 \in 1..Len(start)
      /\ Len(out) + 2 \in 1..Len(start)
      /\ Len(out) + 1 < k + 1 /\ (Len(out) + 2 < k + 1 \/ Len(out) + 2 = k + 1)
  BY <1>1, <1>2 DEF Packets
<1>4. start[k + 1] \in Nat /\ start[Len(out) + 1] \in Nat /\ start[Len(out) + 2] \in Nat
  BY <1>1, <1>3
<1>5. start[Len(out) + 1] + Hdr <= start[k + 1]
  BY <1>1, <1>3
<1>6. start[Len(out) + 2] <= start[k + 1]
  BY <1>1, <1>3, <1>4
<1> QED
  BY <1>1, <1>3, <1>4, <1>5, <1>6

\* fill_buffer reports the end where the next packet is not whole in the file.
LEMMA EofReached ==
    ASSUME WindowInv, pc # "closed", Readable = 0,
           ~HasHeader \/ (HasHeader /\ ~HasPacket),
           \A i \in Packets : start[i + 1] - start[i] <= buffer_size,
           NEW k \in Packets, start[k + 1] <= size
    PROVE  k <= Len(out)
<1> SUFFICES ASSUME k > Len(out) PROVE FALSE
  BY DEF WindowInv, TypeOK, Packets
<1>1. /\ buffer_size \in Nat /\ readPos \in Nat /\ writePos \in Nat
      /\ fpos \in Nat /\ size \in Nat /\ Hdr \in Nat /\ buffer_size >= Hdr
  BY StartFacts DEF WindowInv, TypeOK
<1>2. /\ start[Len(out) + 1] + Hdr <= size
      /\ Len(out) + 2 \in 1..Len(start) /\ start[Len(out) + 2] <= size
  BY <1>1, NoneLeft
<1>3. start[Len(out) + 1] = fpos - (writePos - readPos)
  BY DEF WindowInv, WindowAligned
<1>4. CASE ~HasHeader
  <2>1. writePos - readPos < Hdr
    BY <1>1, <1>4 DEF HasHeader
  <2>2. size = fpos
    BY <1>1, <2>1, AtEnd
  <2> QED
    BY <1>1, <1>2, <1>3, <2>1, <2>2
<1>5. CASE HasHeader /\ ~HasPacket
  <2>1. /\ Len(out) + 1 \in Packets
        /\ PacketSize(readPos) = start[Len(out) + 2] - start[Len(out) + 1]
        /\ PacketSize(readPos) \in Nat
    BY <1>5, NextPacket
  <2>2. (Len(out) + 1) + 1 = Len(out) + 2
    BY DEF WindowInv, TypeOK
  <2>3. PacketSize(readPos) <= buffer_size
    BY <2>1, <2>2
  <2>4. writePos - readPos < PacketSize(readPos)
    BY <1>1, <1>5, <2>1 DEF HasPacket
  <2>5. size = fpos
    BY <1>1, <2>1, <2>3, <2>4, AtEnd
  <2>6. start[Len(out) + 2] \in Nat
    BY <1>2, StartFacts DEF WindowInv
  <2> QED
    BY <1>1, <1>2, <1>3, <2>1, <2>4, <2>5, <2>6
<1> QED
  BY <1>4, <1>5

\* EofComplete is kept by whatever takes packets or returns something else.
LEMMA EofKept ==
    ASSUME WindowInv, EofComplete, UNCHANGED file, ret' # "eof" \/ ret' = ret,
           Len(out') \in Nat, Len(out) <= Len(out')
    PROVE  EofComplete'
<1>1. Len(out) \in Nat /\ \A i \in Packets : i \in Nat
  BY DEF WindowInv, TypeOK, Packets
<1> QED
  BY <1>1 DEF EofComplete, Packets, file

LEMMA EofStep == WindowInv /\ EofComplete /\ [Next]_vars => EofComplete'
<1> SUFFICES ASSUME WindowInv, EofComplete, [Next]_vars PROVE EofComplete'
  OBVIOUS
<1>1. Len(out) \in Nat /\ out \in Seq(Nat)
  BY DEF WindowInv, TypeOK
<1>2. CASE FillReturn /\ (~HasHeader \/ (HasHeader /\ ~HasPacket)) /\ pc # "closed"
  <2>1. UNCHANGED file /\ UNCHANGED out
    BY <1>2 DEF FillReturn
  <2>2. CASE FillEof
    <3>1. Readable = 0
      BY <2>2 DEF FillEof
    <3>2. ASSUME \A i \in Packets : start[i + 1] - start[i] <= buffer_size,
                 NEW k \in Packets, start[k + 1] <= size
          PROVE  k <= Len(out)
      BY <1>2, <3>1, <3>2, EofReached
    <3> QED
      BY <2>1, <3>2 DEF EofComplete, Packets, file
  <2>3. CASE Return("error")
    BY <1>1, <2>1, <2>3, EofKept DEF Return
  <2> QED
    BY <1>2, <2>2, <2>3 DEF FillReturn
<1>3. CASE UNCHANGED <<file, out>> /\ (ret' # "eof" \/ ret' = ret)
  BY <1>1, <1>3, EofKept
<1>4. CASE ReadTake
  <2>1. UNCHANGED file /\ (ret' = "ok" \/ ret' = ret) /\ out' = Append(out, PacketAt(readPos))
    BY <1>4 DEF ReadTake, Return
  <2>2. PacketAt(readPos) \in Nat
    BY <1>4, NextPacket, <1>1 DEF ReadTake, WindowInv
  <2>3. Len(out') = Len(out) + 1
    BY <1>1, <2>1, <2>2
  <2> QED
    BY <1>1, <2>1, <2>3, EofKept
<1>5. CASE ReadHeader \/ PeekHeader
  BY <1>2, <1>3, <1>5 DEF ReadHeader, PeekHeader, FillAgain
<1>6. CASE ReadBody
  BY <1>2, <1>3, <1>6 DEF ReadBody, FillAgain, WindowInv
<1>7. CASE PeekBody
  BY <1>2, <1>3, <1>7 DEF PeekBody, FillAgain
<1>8. CASE ReadTopUp
  BY <1>3, <1>8 DEF ReadTopUp, Return
<1>9. CASE ReadCall \/ PeekCall \/ PeekInvalid \/ PeekFound
  BY <1>3, <1>9 DEF ReadCall, PeekCall, PeekInvalid, PeekFound, Return
<1>10. CASE UNCHANGED vars
  BY <1>3, <1>10 DEF vars
<1> QED
  BY <1>4, <1>5, <1>6, <1>7, <1>8, <1>9, <1>10 DEF Next, Reading, Peeking, Closed

\* "Finished" is only said when every whole packet was taken, for every file
\* and every buffer that is large enough for each packet of the file.
THEOREM EndOfFileComplete == Spec => []EofComplete
<1>1. Init => EofComplete
  BY DEF Init, EofComplete
<1>2. (WindowInv /\ EofComplete) /\ [Next]_vars => EofComplete'
  BY EofStep
<1> QED
  BY <1>1, <1>2, WindowInvariant, PTL DEF Spec

\* The bytes of the next packet, once it is in the buffer as a whole.
LEMMA NextBytes ==
    ASSUME WindowInv, pc # "closed", HasHeader, HasPacket,
           NEW i, i = Len(out) + 1, NEW n, n = start[i + 1] - start[i]
    PROVE  /\ readPos >= 0 /\ readPos + n <= writePos
           /\ \A k \in 0..n-1 : buffer[readPos + k] = start[i] + k
<1>1. /\ i \in Packets /\ PacketSize(readPos) \in Nat
      /\ PacketSize(readPos) = start[Len(out) + 2] - start[Len(out) + 1]
  BY NextPacket
<1>2. i + 1 = Len(out) + 2
  BY DEF WindowInv, TypeOK
<1>3. n = PacketSize(readPos)
  BY <1>1, <1>2
<1>4. readPos \in Nat /\ writePos \in Nat /\ fpos \in Nat /\ n \in Nat /\ readPos + n <= writePos
  BY <1>1, <1>3, StartFacts DEF WindowInv, TypeOK, HasPacket
<1>5. /\ \A p \in readPos..writePos-1 : buffer[p] = fpos - (writePos - p)
      /\ start[i] = fpos - (writePos - readPos)
  BY DEF WindowInv, WindowAligned
<1>6. ASSUME NEW k \in 0..n-1
      PROVE  buffer[readPos + k] = start[i] + k
  <2>1. readPos + k \in readPos..writePos-1
    BY <1>4
  <2>2. buffer[readPos + k] = fpos - (writePos - (readPos + k))
    BY <1>5, <2>1
  <2> QED
    BY <1>4, <1>5, <2>2
<1> QED
  BY <1>4, <1>6

LEMMA DataStep == WindowInv /\ DataValid /\ [Next]_vars => DataValid'
<1> SUFFICES ASSUME WindowInv, DataValid, [Next]_vars PROVE DataValid'
  OBVIOUS
<1>1. CASE pc' # "idle" \/ ret' # "ok"
  BY <1>1 DEF DataValid
<1>2. CASE ReadTake
  <2> DEFINE i == Len(out) + 1
  <2>1. pc = "body" /\ HasHeader /\ HasPacket /\ Len(out) \in Nat /\ out \in Seq(Nat)
    BY <1>2 DEF WindowInv, TypeOK, ReadTake
  <2>2. PacketAt(readPos) = i
    BY <2>1, NextPacket
  <2>3. /\ out' = Append(out, i) /\ data' = readPos /\ peeked' = 0
        /\ UNCHANGED <<start, buffer, writePos>>
    BY <1>2, <2>2 DEF ReadTake, file
  <2>4. i \in Nat
    BY <2>1
  <2>5. out'[Len(out')] = i
    BY <2>1, <2>3, <2>4
  <2>6. LET n == start[i + 1] - start[i]
        IN  /\ readPos >= 0 /\ readPos + n <= writePos
            /\ \A k \in 0..n-1 : buffer[readPos + k] = start[i] + k
    BY <2>1, NextBytes
  <2> QED
    BY <2>3, <2>5, <2>6 DEF DataValid
<1>3. CASE PeekFound
  <2> DEFINE i == Len(out) + 1
  <2>1. pc = "peek" /\ HasHeader /\ HasPacket /\ Len(out) \in Nat
    BY <1>3 DEF WindowInv, TypeOK, PeekFound
  <2>2. PacketAt(readPos) = i /\ i # 0
    BY <2>1, NextPacket
  <2>3. CASE pc' = "idle"
    <3>1. /\ data' = readPos /\ peeked' = i
          /\ UNCHANGED <<start, buffer, writePos>>
      BY <1>3, <2>1, <2>2, <2>3 DEF PeekFound, file, window
    <3>2. LET n == start[i + 1] - start[i]
          IN  /\ readPos >= 0 /\ readPos + n <= writePos
              /\ \A k \in 0..n-1 : buffer[readPos + k] = start[i] + k
      BY <2>1, NextBytes
    <3> QED
      BY <2>2, <3>1, <3>2 DEF DataValid
  <2> QED
    BY <1>1, <2>3
<1>4. CASE ReadCall \/ PeekCall
  BY <1>1, <1>4 DEF ReadCall, PeekCall
<1>5. CASE ReadHeader \/ ReadBody \/ PeekHeader \/ PeekBody
  BY <1>1, <1>5 DEF ReadHeader, ReadBody, PeekHeader, PeekBody, FillAgain, FillReturn, Return
<1>6. CASE ReadTopUp \/ PeekInvalid
  BY <1>1, <1>6 DEF ReadTopUp, PeekInvalid, Return
<1>7. CASE UNCHANGED vars
  BY <1>7 DEF vars, file, window, DataValid
<1> QED
  BY <1>2, <1>3, <1>4, <1>5, <1>6, <1>7 DEF Next, Reading, Peeking, Closed

\* What stream_read and stream_peek return is the packet, byte for byte, until
\* the next call.
THEOREM ReturnedBytesValid == Spec => []DataValid
<1>1. Init => DataValid
  BY DEF Init, DataValid
<1>2. (WindowInv /\ DataValid) /\ [Next]_vars => DataValid'
  BY DataStep
<1> QED
  BY <1>1, <1>2, WindowInvariant, PTL DEF Spec

\* stream_read takes the packet that stream_peek showed.
THEOREM PeekShowsNext == Spec => PeekIsNext
<1>1. WindowInv /\ [Next]_vars => [out' # out /\ peeked # 0 => out' = Append(out, peeked)]_vars
  <2> SUFFICES ASSUME WindowInv, Next, out' # out, peeked # 0
               PROVE  out' = Append(out, peeked)
    OBVIOUS
  <2>1. ReadTake
    BY DEF Next, Reading, Peeking, Closed, ReadCall, PeekCall, ReadHeader, ReadTopUp, ReadBody,
           PeekHeader, PeekInvalid, PeekBody, PeekFound, FillAgain, FillReturn, vars
  <2>2. pc = "body" /\ HasHeader /\ out' = Append(out, PacketAt(readPos))
    BY <2>1 DEF ReadTake, WindowInv
  <2>3. PacketAt(readPos) = Len(out) + 1 /\ peeked = Len(out) + 1
    BY <2>2, NextPacket DEF WindowInv, PeekNext
  <2> QED
    BY <2>2, <2>3
<1> QED
  BY <1>1, WindowInvariant, PTL DEF Spec, PeekIsNext
=============================================================================
