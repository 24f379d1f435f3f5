--------------------------- MODULE CapmergeProofs ---------------------------
(***************************************************************************)
(* capmerge with any number of files of any length.                        *)
(*                                                                         *)
(* Accounted is what makes StreamsAccounted and MergeComplete inductive:   *)
(* the packets written are the ones taken from the files, all of them      *)
(* readable; a closed file has no more; and a packet that was seen in this *)
(* turn is still the next one of the stream at its place.  For the sort,   *)
(* every copied packet comes before every one that is left.                *)
(***************************************************************************)
EXTENDS Capmerge, WellFoundedInduction, TLAPS

\* Zenon, then SMT, unless a step says otherwise, with time for the larger steps.
USE ZenonT(10), SMTT(30)

-----------------------------------------------------------------------------
(* Facts about sequences and numbers.                                      *)

\* The elements of a sequence with one more.
LEMMA AppendElements ==
    ASSUME NEW S, NEW s \in Seq(S), NEW x \in S
    PROVE  /\ Append(s, x) \in Seq(S) /\ Len(Append(s, x)) = Len(s) + 1
           /\ DOMAIN Append(s, x) = 1..(Len(s) + 1) /\ DOMAIN s = 1..Len(s)
           /\ \A n \in 1..Len(s) : Append(s, x)[n] = s[n]
           /\ Append(s, x)[Len(s) + 1] = x
OBVIOUS

\* Its range.
LEMMA AppendRange ==
    ASSUME NEW S, NEW s \in Seq(S), NEW x \in S
    PROVE  Range(Append(s, x)) = Range(s) \cup {x}
<1>1. ASSUME NEW y \in Range(Append(s, x)) PROVE y \in Range(s) \cup {x}
  <2>1. PICK n \in 1..(Len(s) + 1) : y = Append(s, x)[n]
    BY AppendElements, SMTT(30) DEF Range
  <2>2. n \in 1..Len(s) \/ n = Len(s) + 1
    OBVIOUS
  <2> QED
    BY <2>1, <2>2, AppendElements, SMTT(30) DEF Range
<1>2. ASSUME NEW y \in Range(s) PROVE y \in Range(Append(s, x))
  <2>1. PICK n \in 1..Len(s) : y = s[n]
    BY AppendElements DEF Range
  <2>2. n \in 1..(Len(s) + 1)
    OBVIOUS
  <2> QED
    BY <2>1, <2>2, AppendElements, SMTT(30) DEF Range
<1>3. x \in Range(Append(s, x))
  <2>1. Len(s) + 1 \in 1..(Len(s) + 1)
    OBVIOUS
  <2> QED
    BY <2>1, AppendElements, SMTT(30) DEF Range
<1> QED
  BY <1>1, <1>2, <1>3

\* A new element keeps a sequence without repetition.
LEMMA AppendInjective ==
    ASSUME NEW S, NEW s \in Seq(S), NEW x \in S, IsInjective(s), x \notin Range(s)
    PROVE  IsInjective(Append(s, x))
<1> SUFFICES ASSUME NEW a \in 1..(Len(s) + 1), NEW b \in 1..(Len(s) + 1), Append(s, x)[a] = Append(s, x)[b]
             PROVE  a = b
  BY AppendElements, SMTT(30) DEF IsInjective
<1>1. \A n \in 1..Len(s) : Append(s, x)[n] = s[n] /\ s[n] # x
  BY AppendElements, SMTT(30) DEF Range
<1>2. Append(s, x)[Len(s) + 1] = x
  BY AppendElements, SMTT(30)
<1>3. CASE a \in 1..Len(s) /\ b \in 1..Len(s)
  BY <1>1, <1>3, AppendElements, SMTT(30) DEF IsInjective
<1>4. CASE a = Len(s) + 1 \/ b = Len(s) + 1
  <2>1. a \in 1..Len(s) \/ a = Len(s) + 1
    OBVIOUS
  <2>2. b \in 1..Len(s) \/ b = Len(s) + 1
    OBVIOUS
  <2> QED
    BY <1>1, <1>2, <1>4, <2>1, <2>2
<1> QED
  BY <1>3, <1>4

\* A set of numbers has a smallest.
LEMMA NatMin ==
    ASSUME NEW S, S \subseteq Nat, S # {}
    PROVE  \E x \in S : \A y \in S : x <= y
<1>1. PICK x \in S : \A y \in S : ~(<<y, x>> \in OpToRel(<, Nat))
  BY WFMin, NatLessThanWellFounded
<1>2. ASSUME NEW y \in S PROVE x <= y
  <2>1. ~(y < x)
    BY <1>1 DEF OpToRel
  <2> QED
    BY <2>1
<1> QED
  BY <1>2

\* And of those with the smallest timestamp there is a first.
LEMMA LexMin ==
    ASSUME NEW S, S \subseteq Nat, S # {}, NEW t \in [S -> Nat]
    PROVE  \E n \in S : \A k \in S : t[n] < t[k] \/ (t[n] = t[k] /\ n <= k)
<1>1. PICK x \in {t[n] : n \in S} : \A y \in {t[n] : n \in S} : x <= y
  <2>1. {t[n] : n \in S} \subseteq Nat /\ {t[n] : n \in S} # {}
    OBVIOUS
  <2> QED
    BY <2>1, NatMin
<1>2. PICK n \in {m \in S : t[m] = x} : \A k \in {m \in S : t[m] = x} : n <= k
  <2>1. {m \in S : t[m] = x} \subseteq Nat /\ {m \in S : t[m] = x} # {}
    OBVIOUS
  <2> QED
    BY <2>1, NatMin
<1>3. \A k \in S : t[n] < t[k] \/ (t[n] = t[k] /\ n <= k)
  BY <1>1, <1>2, SMTT(30)
<1> QED
  BY <1>2, <1>3

-----------------------------------------------------------------------------
(* The inductive invariant.                                                *)

\* What was seen in this turn is the next packet of the stream that is there now.
Peeked ==
    pc = "peek" => \A n \in 1..streams : n < i /\ pkt[n] # NULL => pkt[n] = NextPacket(st[n]) /\ CanPeek(st[n])

\* The packets written, taken and left.
Accounted ==
    /\ IsInjective(merged)
    /\ \A m \in DOMAIN merged : merged[m][2] \in 1..taken[merged[m][1]]
    /\ pc # "failed" => \A f \in Files : \A k \in 1..taken[f] : <<f, k>> \in Range(merged)
    /\ \A f \in Files : \A k \in 1..taken[f] : input[f][k] # 0
    /\ \A f \in Range(closed) : ~CanPeek(f)
    /\ pc \in {"sort", "done"} => streams = 0

\* The place k of merged goes into the sorted file before n.
Before(k, n) == Ts(merged[k]) < Ts(merged[n]) \/ (Ts(merged[k]) = Ts(merged[n]) /\ k < n)

\* The packets copied by the sort.
Copied ==
    /\ pc \in {"peek", "failed"} => copied = {} /\ result = <<>> /\ begin = 1
    /\ \A n \in 1..(begin - 1) : n \in copied
    /\ pc = "done" /\ sort => copied = DOMAIN merged
    /\ \A m \in DOMAIN result : \E k \in copied : result[m] = merged[k]
    /\ ~lost => \A k \in copied : merged[k] \in Range(result)
    /\ IsInjective(result)
    /\ \A k \in copied : \A n \in DOMAIN merged \ copied : Before(k, n)
    /\ \A m, n \in DOMAIN result : \A k, l \in copied :
          m < n /\ result[m] = merged[k] /\ result[n] = merged[l] => Before(k, l)

CapmergeInv == TypeOK /\ StreamsAccounted /\ Peeked /\ Accounted /\ Copied

\* A file is a sequence of timestamps.
LEMMA FileTypes ==
    ASSUME TypeOK
    PROVE  /\ Files = 1..Len(input) /\ Len(input) \in Nat
           /\ \A f \in Files : input[f] \in Seq(Nat) /\ Len(input[f]) \in Nat
           /\ \A f \in Files : \A k \in 1..Len(input[f]) : input[f][k] \in Nat
           /\ \A f \in Files : st[f] \in Files /\ taken[f] \in Nat /\ taken[f] <= Len(input[f])
<1>1. input \in Seq(Seq(Nat))
  BY DEF TypeOK
<1>2. Files = 1..Len(input) /\ Len(input) \in Nat
  BY <1>1 DEF Files
<1>3. \A f \in Files : input[f] \in Seq(Nat)
  BY <1>1, <1>2
<1>4. \A f \in Files : Len(input[f]) \in Nat
  BY <1>3
<1>5. \A f \in Files : \A k \in 1..Len(input[f]) : input[f][k] \in Nat
  BY <1>3
<1>6. \A f \in Files : st[f] \in Files /\ taken[f] \in Nat /\ taken[f] <= Len(input[f])
  BY DEF TypeOK
<1> QED
  BY <1>2, <1>3, <1>4, <1>5, <1>6

\* A packet that was seen has a timestamp.
LEMMA NextTs ==
    ASSUME TypeOK, NEW f \in Files, CanPeek(f)
    PROVE  /\ Ts(NextPacket(f)) = input[f][taken[f] + 1] /\ Ts(NextPacket(f)) \in Nat /\ Ts(NextPacket(f)) # 0
           /\ taken[f] + 1 \in 1..Len(input[f])
<1>1. taken[f] < Len(input[f]) /\ taken[f] \in Nat /\ Len(input[f]) \in Nat
  BY FileTypes DEF CanPeek
<1>2. taken[f] + 1 \in 1..Len(input[f])
  BY <1>1
<1>3. Ts(NextPacket(f)) = input[f][taken[f] + 1]
  BY DEF Ts, NextPacket
<1> QED
  BY <1>2, <1>3, FileTypes DEF CanPeek

\* The packet that is read is the next one of an open stream, and none of those seen is older.
LEMMA OldestSeen ==
    ASSUME TypeOK, Peeked, pc = "peek", i > streams, Seen # {}
    PROVE  /\ Oldest \in Seen /\ Oldest \in 1..streams /\ st[Oldest] \in Files /\ CanPeek(st[Oldest])
           /\ \A k \in Seen : Ts(NextPacket(st[Oldest])) <= Ts(NextPacket(st[k]))
<1>1. streams \in Nat /\ streams <= Len(input) /\ i \in Nat
  BY FileTypes, SMTT(30) DEF TypeOK
<1>2. \A n \in Seen : n \in 1..streams /\ st[n] \in Files /\ pkt[n] = NextPacket(st[n]) /\ CanPeek(st[n])
  <2> TAKE n \in Seen
  <2>1. n \in 1..streams /\ pkt[n] # NULL
    BY DEF Seen
  <2>2. n < i /\ n \in Files
    BY <1>1, <2>1, FileTypes, SMTT(30)
  <2> QED
    BY <2>1, <2>2, FileTypes DEF Peeked
<1>3. \A n \in Seen : Ts(pkt[n]) \in Nat
  BY <1>2, NextTs
<1> DEFINE t == [n \in Seen |-> Ts(pkt[n])]
<1>4. t \in [Seen -> Nat] /\ Seen \subseteq Nat
  BY <1>1, <1>2, <1>3
<1>5. \E n \in Seen : \A k \in Seen : t[n] < t[k] \/ (t[n] = t[k] /\ n <= k)
  <2> HIDE DEF t
  <2> QED
    BY <1>4, LexMin
<1>6. \E n \in Seen : \A k \in Seen : Ts(pkt[n]) < Ts(pkt[k]) \/ (Ts(pkt[n]) = Ts(pkt[k]) /\ n <= k)
  BY <1>5
<1>7. /\ Oldest \in Seen
      /\ \A k \in Seen : Ts(pkt[Oldest]) < Ts(pkt[k]) \/ (Ts(pkt[Oldest]) = Ts(pkt[k]) /\ Oldest <= k)
  BY <1>6 DEF Oldest
<1>8. \A k \in Seen : Ts(pkt[Oldest]) <= Ts(pkt[k])
  BY <1>3, <1>7, SMTT(30)
<1> QED
  BY <1>2, <1>7, <1>8

-----------------------------------------------------------------------------
(* What a step that leaves their variables alone keeps.                    *)

LEMMA StreamsFrame ==
    ASSUME StreamsAccounted, UNCHANGED <<input, st, streams, closed>>
    PROVE  StreamsAccounted'
BY DEF StreamsAccounted, Files

LEMMA CopiedFrame ==
    ASSUME Copied, UNCHANGED <<input, sort, merged, begin, copied, result, lost, pc>>
    PROVE  Copied'
BY SMTT(30) DEF Copied, Before, Ts

LEMMA AccountedFrame ==
    ASSUME Accounted, UNCHANGED <<input, taken, merged, closed, streams, pc>>
    PROVE  Accounted'
BY DEF Accounted, CanPeek, NextPacket, Ts, Files

-----------------------------------------------------------------------------
(* The steps.                                                              *)

\* All files are open and nothing was read.
LEMMA InitHolds == Init => CapmergeInv
<1> SUFFICES ASSUME Init PROVE CapmergeInv
  OBVIOUS
<1>1. input \in Seq(Seq(Nat)) /\ input # <<>>
  BY InputsAssumption DEF Init
<1>2. Files = 1..Len(input) /\ Len(input) \in Nat
  BY <1>1 DEF Files
<1>3. \A f \in Files : Len(input[f]) \in Nat
  BY <1>1, <1>2
<1>4. TypeOK
  <2>1. st \in [Files -> Files] /\ streams \in 0..Len(input)
    BY <1>2 DEF Init
  <2>2. taken \in [Files -> Nat] /\ \A f \in Files : taken[f] <= Len(input[f])
    BY <1>3 DEF Init
  <2>3. merged \in Seq(Files \X Nat) /\ result \in Seq(Files \X Nat) /\ closed \in Seq(Files)
    BY DEF Init
  <2>4. begin \in 1..(Len(merged) + 1) /\ copied \subseteq DOMAIN merged
    BY DEF Init
  <2>5. pkt \in [Files -> {NULL} \cup (Files \X (Nat \ {0}))]
    BY DEF Init
  <2>6. sort \in BOOLEAN /\ lost \in BOOLEAN
    BY DEF Init
  <2>7. i \in Nat \ {0} /\ pc \in {"peek", "sort", "done", "failed"}
    BY SMTT(30) DEF Init
  <2> QED
    BY <1>1, <2>1, <2>2, <2>3, <2>4, <2>5, <2>6, <2>7 DEF TypeOK
<1>5. StreamsAccounted
  <2>1. st = [n \in Files |-> n] /\ streams = Len(input) /\ closed = <<>>
    BY DEF Init
  <2>2. Range(closed) = {} /\ IsInjective(closed)
    BY <2>1, SMTT(30) DEF Range, IsInjective
  <2>3. \A n \in 1..streams : st[n] = n
    BY <1>2, <2>1
  <2>4. {st[n] : n \in 1..streams} = Files
    BY <1>2, <2>1, <2>3
  <2> QED
    BY <2>2, <2>3, <2>4 DEF StreamsAccounted
<1>6. Peeked
  BY DEF Init, Peeked
<1>7. Accounted
  <2>1. \A f \in Files : taken[f] = 0
    BY DEF Init
  <2>2. merged = <<>> /\ closed = <<>> /\ pc = "peek"
    BY DEF Init
  <2> QED
    BY <2>1, <2>2 DEF Accounted, IsInjective, Range
<1>8. Copied
  BY SMTT(30) DEF Init, Copied, IsInjective, Range
<1> QED
  BY <1>4, <1>5, <1>6, <1>7, <1>8 DEF CapmergeInv

\* A packet is seen.
LEMMA PeekPacketKeeps ==
    ASSUME CapmergeInv, PeekPacket
    PROVE  CapmergeInv'
<1>1. /\ pc = "peek" /\ i <= streams /\ CanPeek(st[i]) /\ i' = i + 1
      /\ pkt' = [pkt EXCEPT ![i] = NextPacket(st[i])]
      /\ UNCHANGED <<input, sort, st, streams, taken, pc, merged, begin, copied, result, lost, closed>>
  BY DEF PeekPacket, sorting
<1>2. TypeOK /\ StreamsAccounted /\ Peeked /\ Accounted /\ Copied
  BY DEF CapmergeInv
<1>3. i \in Nat /\ streams \in Nat /\ i \in Files /\ st[i] \in Files /\ Files' = Files
  <2>1. i \in Nat \ {0} /\ streams \in 0..Len(input)
    BY <1>2 DEF TypeOK
  <2>2. i \in Files
    BY <1>1, <1>2, <2>1, FileTypes, SMTT(30)
  <2> QED
    BY <1>1, <1>2, <2>1, <2>2, FileTypes, SMTT(30) DEF Files
<1>4. TypeOK'
  <2>1. NextPacket(st[i]) \in Files \X (Nat \ {0})
    BY <1>2, <1>3, FileTypes, SMTT(30) DEF NextPacket
  <2>2. pkt' \in [Files -> {NULL} \cup (Files \X (Nat \ {0}))]
    BY <1>1, <1>2, <1>3, <2>1 DEF TypeOK
  <2>3. i' \in Nat \ {0}
    BY <1>1, <1>3
  <2> QED
    BY <1>1, <1>2, <1>3, <2>2, <2>3 DEF TypeOK, NULL
<1>5. Peeked'
  <2> SUFFICES ASSUME NEW n \in 1..streams, n < i + 1, pkt'[n] # NULL
               PROVE  pkt'[n] = NextPacket(st[n]) /\ CanPeek(st[n])
    BY <1>1 DEF Peeked, NextPacket, CanPeek, Ts, NULL
  <2>1. n \in Files /\ (n < i \/ n = i)
    <3>1. streams \in 0..Len(input)
      BY <1>2 DEF TypeOK
    <3> QED
      BY <1>2, <1>3, <3>1, FileTypes, SMTT(30)
  <2>2. CASE n = i
    BY <1>1, <1>2, <1>3, <2>2 DEF TypeOK
  <2>3. CASE n < i
    <3>1. pkt'[n] = pkt[n]
      BY <1>1, <1>2, <1>3, <2>1, <2>3 DEF TypeOK
    <3> QED
      BY <1>1, <1>2, <2>3, <3>1 DEF Peeked
  <2> QED
    BY <2>1, <2>2, <2>3
<1>6. StreamsAccounted' /\ Accounted' /\ Copied'
  BY <1>1, <1>2, StreamsFrame, AccountedFrame, CopiedFrame
<1> QED
  BY <1>4, <1>5, <1>6 DEF CapmergeInv

\* The last stream takes the place of one that has ended.
LEMMA StreamMoves ==
    ASSUME TypeOK, StreamsAccounted, i \in 1..streams, st' = [st EXCEPT ![i] = st[streams]],
           streams' = streams - 1, closed' = Append(closed, st[i]), UNCHANGED input
    PROVE  StreamsAccounted'
<1> DEFINE open == {st[n] : n \in 1..streams}
           From(n) == IF n = i THEN streams ELSE n
<1>1. streams \in Nat /\ 1..streams \subseteq Files /\ closed \in Seq(Files) /\ st \in [Files -> Files]
  <2>1. streams \in 0..Len(input)
    BY DEF TypeOK
  <2>2. streams \in Nat /\ 1..streams \subseteq Files
    BY <2>1, FileTypes
  <2> QED
    BY <2>2 DEF TypeOK
<1>2. /\ \A m, n \in 1..streams : st[m] = st[n] => m = n
      /\ open \cap Range(closed) = {} /\ open \cup Range(closed) = Files /\ IsInjective(closed)
  BY DEF StreamsAccounted
<1>3. st[i] \in Files /\ st[i] \in open /\ st[i] \notin Range(closed)
  BY <1>1, <1>2
<1>4. \A n \in 1..(streams - 1) : From(n) \in 1..streams /\ From(n) # i /\ st'[n] = st[From(n)]
  BY <1>1, SMTT(30)
<1>5. \A m, n \in 1..(streams - 1) : From(m) = From(n) => m = n
  BY <1>1, SMTT(30)
<1>6. \A m, n \in 1..(streams - 1) : st'[m] = st'[n] => m = n
  <2> HIDE DEF From
  <2> QED
    BY <1>2, <1>4, <1>5, SMTT(30)
<1>7. {st'[n] : n \in 1..(streams - 1)} = open \ {st[i]}
  <2>1. ASSUME NEW n \in 1..(streams - 1) PROVE st'[n] \in open \ {st[i]}
    <3> HIDE DEF From
    <3> QED
      BY <1>2, <1>4, SMTT(30)
  <2>2. ASSUME NEW m \in 1..streams, m # i PROVE st[m] \in {st'[n] : n \in 1..(streams - 1)}
    <3>1. CASE m = streams
      <4>1. i \in 1..(streams - 1) /\ From(i) = m
        BY <1>1, <2>2, <3>1
      <4> QED
        BY <1>4, <4>1
    <3>2. CASE m # streams
      <4>1. m \in 1..(streams - 1) /\ From(m) = m
        BY <1>1, <2>2, <3>2
      <4> QED
        BY <1>4, <4>1
    <3> QED
      BY <3>1, <3>2
  <2> QED
    BY <2>1, <2>2
<1>8. Range(closed') = Range(closed) \cup {st[i]}
  BY <1>1, <1>3, AppendRange, SMTT(30)
<1>9. IsInjective(closed')
  BY <1>1, <1>2, <1>3, AppendInjective
<1>10. Files' = Files
  BY DEF Files
<1> HIDE DEF From
<1>11. /\ {st'[n] : n \in 1..(streams - 1)} \cap Range(closed') = {}
       /\ {st'[n] : n \in 1..(streams - 1)} \cup Range(closed') = Files
  <2> DEFINE now == {st'[n] : n \in 1..(streams - 1)}
  <2>1. now = open \ {st[i]}
    BY <1>7
  <2> HIDE DEF now, open
  <2>2. now \cap Range(closed') = {} /\ now \cup Range(closed') = Files
    BY <1>2, <1>3, <1>8, <2>1, SMTT(30)
  <2> QED
    BY <2>2 DEF now
<1> QED
  BY <1>6, <1>9, <1>10, <1>11 DEF StreamsAccounted

\* A stream ends and is closed.
LEMMA PeekEndKeeps ==
    ASSUME CapmergeInv, PeekEnd
    PROVE  CapmergeInv'
<1>1. /\ pc = "peek" /\ i <= streams /\ ~CanPeek(st[i]) /\ i' = i + 1
      /\ pkt' = [pkt EXCEPT ![i] = NULL] /\ closed' = Append(closed, st[i])
      /\ st' = [st EXCEPT ![i] = st[streams]] /\ streams' = streams - 1
      /\ UNCHANGED <<input, sort, taken, pc, merged, begin, copied, result, lost>>
  BY DEF PeekEnd, sorting
<1>2. TypeOK /\ StreamsAccounted /\ Peeked /\ Accounted /\ Copied
  BY DEF CapmergeInv
<1>3. /\ i \in 1..streams /\ streams \in 1..Len(input) /\ i \in Files /\ streams \in Files
      /\ st[i] \in Files /\ st[streams] \in Files /\ Files' = Files
  <2>1. i \in Nat \ {0} /\ streams \in 0..Len(input)
    BY <1>2 DEF TypeOK
  <2>2. i \in 1..streams /\ streams \in 1..Len(input)
    BY <1>1, <1>2, <2>1, FileTypes, SMTT(30)
  <2>3. i \in Files /\ streams \in Files
    BY <1>2, <2>2, FileTypes
  <2> QED
    BY <1>1, <1>2, <2>2, <2>3, FileTypes DEF Files
<1>4. TypeOK'
  <2>1. pkt' \in [Files -> {NULL} \cup (Files \X (Nat \ {0}))]
    BY <1>1, <1>2, <1>3 DEF TypeOK
  <2>2. st' \in [Files -> Files] /\ closed' \in Seq(Files)
    BY <1>1, <1>2, <1>3, SMTT(30) DEF TypeOK
  <2>3. i' \in Nat \ {0} /\ streams' \in 0..Len(input)
    BY <1>1, <1>2, <1>3, FileTypes, SMTT(30)
  <2> QED
    BY <1>1, <1>2, <1>3, <2>1, <2>2, <2>3 DEF TypeOK, NULL
<1>5. Peeked'
  <2> SUFFICES ASSUME NEW n \in 1..(streams - 1), n < i + 1, pkt'[n] # NULL
               PROVE  pkt'[n] = NextPacket(st'[n]) /\ CanPeek(st'[n])
    BY <1>1 DEF Peeked, NextPacket, CanPeek, Ts, NULL
  <2>1. n \in 1..streams /\ n \in Files /\ (n < i \/ n = i)
    BY <1>2, <1>3, FileTypes, SMTT(30)
  <2>2. n # i
    BY <1>1, <1>2, <1>3 DEF TypeOK
  <2>3. n < i /\ pkt'[n] = pkt[n] /\ st'[n] = st[n]
    BY <1>1, <1>2, <1>3, <2>1, <2>2 DEF TypeOK
  <2> QED
    BY <1>1, <1>2, <2>1, <2>3 DEF Peeked
<1>6. StreamsAccounted'
  BY <1>1, <1>2, <1>3, StreamMoves
<1>7. Accounted'
  <2>1. closed \in Seq(Files)
    BY <1>2 DEF TypeOK
  <2>2. Range(closed') = Range(closed) \cup {st[i]}
    BY <1>1, <1>3, <2>1, AppendRange, SMTT(30)
  <2>3. \A f : CanPeek(f)' = CanPeek(f)
    BY <1>1 DEF CanPeek, NextPacket, Ts
  <2> QED
    BY <1>1, <1>2, <1>3, <2>2, <2>3 DEF Accounted
<1>8. Copied'
  BY <1>1, <1>2, CopiedFrame
<1> QED
  BY <1>4, <1>5, <1>6, <1>7, <1>8 DEF CapmergeInv

\* A packet is read from the stream with the oldest.
LEMMA PacketTaken ==
    ASSUME CapmergeInv, pc = "peek", i > streams, Seen # {},
           taken' = [taken EXCEPT ![st[Oldest]] = taken[st[Oldest]] + 1], UNCHANGED <<input, closed>>
    PROVE  /\ st[Oldest] \in Files /\ CanPeek(st[Oldest]) /\ taken[st[Oldest]] \in Nat
           /\ taken'[st[Oldest]] = taken[st[Oldest]] + 1
           /\ \A g \in Files : taken[g] \in Nat /\ (g # st[Oldest] => taken'[g] = taken[g])
           /\ taken' \in [Files -> Nat] /\ \A g \in Files : taken'[g] <= Len(input[g])
           /\ \A g \in Files : \A k \in 1..taken'[g] : input[g][k] # 0
           /\ \A g \in Range(closed) : ~CanPeek(g)'
<1> DEFINE f == st[Oldest]
<1>1. TypeOK /\ StreamsAccounted /\ Peeked /\ Accounted
  BY DEF CapmergeInv
<1>2. Oldest \in 1..streams /\ f \in Files /\ CanPeek(f)
  BY <1>1, OldestSeen
<1>3. f \notin Range(closed) /\ Range(closed) \subseteq Files
  BY <1>1, <1>2 DEF StreamsAccounted
<1> HIDE DEF f
<1>4. taken' = [taken EXCEPT ![f] = taken[f] + 1] /\ taken \in [Files -> Nat]
  BY <1>1 DEF f, TypeOK
<1>5. taken'[f] = taken[f] + 1 /\ taken[f] \in Nat
  BY <1>2, <1>4
<1>6. \A g \in Files : taken[g] \in Nat /\ (g # f => taken'[g] = taken[g])
  BY <1>4
<1>7. taken' \in [Files -> Nat]
  BY <1>2, <1>4, <1>5, SMTT(30)
<1>8. \A g \in Files : taken'[g] <= Len(input[g])
  <2>1. taken'[f] <= Len(input[f])
    BY <1>1, <1>2, <1>5, NextTs
  <2> QED
    BY <1>1, <1>6, <2>1, FileTypes
<1>9. ASSUME NEW g \in Files, NEW k \in 1..taken'[g] PROVE input[g][k] # 0
  <2>1. CASE g = f /\ k = taken[f] + 1
    BY <1>1, <1>2, <2>1, NextTs
  <2>2. CASE ~(g = f /\ k = taken[f] + 1)
    <3>1. k \in 1..taken[g]
      BY <1>5, <1>6, <2>2, SMTT(30)
    <3> QED
      BY <1>1, <3>1 DEF Accounted
  <2> QED
    BY <2>1, <2>2
<1>10. ASSUME NEW g \in Range(closed) PROVE ~CanPeek(g)'
  <2>1. ~CanPeek(g) /\ taken'[g] = taken[g]
    BY <1>1, <1>3, <1>6 DEF Accounted
  <2> QED
    BY <2>1 DEF CanPeek, NextPacket, Ts
<1> QED
  BY <1>2, <1>5, <1>6, <1>7, <1>8, <1>9, <1>10 DEF f

\* It is written.
LEMMA MergeKeeps ==
    ASSUME CapmergeInv, Merge
    PROVE  CapmergeInv'
<1> DEFINE f == st[Oldest]
<1>1. /\ pc = "peek" /\ i > streams /\ Seen # {} /\ i' = 1
      /\ taken' = [taken EXCEPT ![f] = taken[f] + 1] /\ merged' = Append(merged, NextPacket(f))
      /\ UNCHANGED <<input, sort, st, streams, pkt, pc, begin, copied, result, lost, closed>>
  BY DEF Merge, sorting
<1>2. TypeOK /\ StreamsAccounted /\ Peeked /\ Accounted /\ Copied
  BY DEF CapmergeInv
<1>3. /\ f \in Files /\ CanPeek(f) /\ taken[f] \in Nat /\ taken'[f] = taken[f] + 1
      /\ \A g \in Files : taken[g] \in Nat /\ (g # f => taken'[g] = taken[g])
      /\ taken' \in [Files -> Nat] /\ \A g \in Files : taken'[g] <= Len(input[g])
      /\ \A g \in Files : \A k \in 1..taken'[g] : input[g][k] # 0
      /\ \A g \in Range(closed) : ~CanPeek(g)'
  BY <1>1, PacketTaken
<1> HIDE DEF f
<1>4. merged \in Seq(Files \X Nat) /\ NextPacket(f) = <<f, taken[f] + 1>> /\ NextPacket(f) \in Files \X Nat
  BY <1>2, <1>3 DEF TypeOK, NextPacket
<1>5. Files' = Files
  BY <1>1 DEF Files
<1>6. copied = {} /\ result = <<>> /\ begin = 1
  BY <1>1, <1>2 DEF Copied
<1>7. TypeOK'
  <2>1. merged' \in Seq(Files \X Nat) /\ Len(merged') \in Nat
    BY <1>1, <1>4, AppendElements, SMTT(30)
  <2>2. begin' \in 1..(Len(merged') + 1) /\ copied' \subseteq DOMAIN merged' /\ i' \in Nat \ {0}
    BY <1>1, <1>6, <2>1
  <2> QED
    BY <1>1, <1>2, <1>3, <1>5, <2>1, <2>2 DEF TypeOK, NULL
<1>8. Peeked'
  BY <1>1, <1>2, SMTT(30) DEF Peeked, TypeOK
<1>9. Accounted'
  <2>1. \A m \in DOMAIN merged : merged[m] \in Files \X Nat /\ merged[m][2] \in 1..taken[merged[m][1]]
    BY <1>2, <1>4, SMTT(30) DEF Accounted
  <2>2. NextPacket(f) \notin Range(merged)
    <3> SUFFICES ASSUME NEW m \in DOMAIN merged, merged[m] = NextPacket(f) PROVE FALSE
      BY DEF Range
    <3>1. merged[m][2] = taken[f] + 1 /\ merged[m][1] = f
      BY <1>4
    <3> QED
      BY <1>3, <2>1, <3>1, SMTT(30)
  <2>3. IsInjective(merged')
    BY <1>1, <1>2, <1>4, <2>2, AppendInjective DEF Accounted
  <2>4. Range(merged') = Range(merged) \cup {NextPacket(f)}
    <3> DEFINE S == Files \X Nat
               x == NextPacket(f)
    <3>1. merged \in Seq(S) /\ x \in S
      BY <1>4
    <3> HIDE DEF S, x
    <3>2. Range(Append(merged, x)) = Range(merged) \cup {x}
      BY <3>1, AppendRange, SMTT(30)
    <3> QED
      BY <1>1, <3>2 DEF x
  <2>5. ASSUME NEW m \in DOMAIN merged' PROVE merged'[m][2] \in 1..taken'[merged'[m][1]]
    <3>1. m \in 1..(Len(merged) + 1) /\ DOMAIN merged = 1..Len(merged) /\ Len(merged) \in Nat
      BY <1>1, <1>4, AppendElements, SMTT(30)
    <3>2. CASE m = Len(merged) + 1
      <4>1. merged'[m] = <<f, taken[f] + 1>>
        BY <1>1, <1>4, <3>2, AppendElements, SMTT(30)
      <4> QED
        BY <1>3, <4>1
    <3>3. CASE m \in DOMAIN merged
      <4>1. merged'[m] = merged[m]
        BY <1>1, <1>4, <3>1, <3>3, AppendElements, SMTT(30)
      <4>2. merged[m][1] \in Files /\ merged[m][2] \in 1..taken[merged[m][1]]
        BY <2>1, <3>3
      <4> QED
        BY <1>3, <4>1, <4>2, SMTT(30)
    <3> QED
      BY <3>1, <3>2, <3>3
  <2>6. ASSUME NEW g \in Files, NEW k \in 1..taken'[g] PROVE <<g, k>> \in Range(merged')
    <3>1. CASE g = f /\ k = taken[f] + 1
      BY <1>4, <2>4, <3>1
    <3>2. CASE ~(g = f /\ k = taken[f] + 1)
      <4>1. k \in 1..taken[g]
        BY <1>3, <3>2, SMTT(30)
      <4> QED
        BY <1>1, <1>2, <2>4, <4>1 DEF Accounted
    <3> QED
      BY <3>1, <3>2
  <2>7. \A g \in Range(closed)' : ~CanPeek(g)'
    BY <1>1, <1>3
  <2>8. \A g \in Files' : \A k \in 1..taken'[g] : input'[g][k] # 0 /\ <<g, k>> \in Range(merged)'
    BY <1>1, <1>3, <1>5, <2>6
  <2>9. ~(pc' \in {"sort", "done"})
    BY <1>1
  <2> QED
    BY <2>3, <2>5, <2>7, <2>8, <2>9 DEF Accounted
<1>10. StreamsAccounted'
  BY <1>1, <1>2, StreamsFrame
<1>11. Copied'
  BY <1>1, <1>6, SMTT(30) DEF Copied, IsInjective
<1> QED
  BY <1>7, <1>8, <1>9, <1>10, <1>11 DEF CapmergeInv

\* It was read but cannot be written.
LEMMA MergeFailsKeeps ==
    ASSUME CapmergeInv, MergeFails
    PROVE  CapmergeInv'
<1>1. /\ pc = "peek" /\ i > streams /\ Seen # {} /\ pc' = "failed"
      /\ taken' = [taken EXCEPT ![st[Oldest]] = taken[st[Oldest]] + 1]
      /\ UNCHANGED <<input, sort, st, streams, pkt, i, merged, begin, copied, result, lost, closed>>
  BY DEF MergeFails, sorting
<1>2. TypeOK /\ StreamsAccounted /\ Peeked /\ Accounted /\ Copied
  BY DEF CapmergeInv
<1>3. /\ taken[st[Oldest]] \in Nat /\ taken'[st[Oldest]] = taken[st[Oldest]] + 1
      /\ \A g \in Files : taken[g] \in Nat /\ (g # st[Oldest] => taken'[g] = taken[g])
      /\ taken' \in [Files -> Nat] /\ \A g \in Files : taken'[g] <= Len(input[g])
      /\ \A g \in Files : \A k \in 1..taken'[g] : input[g][k] # 0
      /\ \A g \in Range(closed) : ~CanPeek(g)'
  BY <1>1, PacketTaken
<1>4. Files' = Files
  BY <1>1 DEF Files
<1>5. TypeOK'
  BY <1>1, <1>2, <1>3, <1>4 DEF TypeOK, NULL
<1>6. Peeked'
  BY <1>1 DEF Peeked
<1>7. Accounted'
  <2>1. ASSUME NEW m \in DOMAIN merged PROVE merged[m][2] \in 1..taken'[merged[m][1]]
    <3>1. merged[m][1] \in Files /\ merged[m][2] \in 1..taken[merged[m][1]]
      BY <1>2, SMTT(30) DEF Accounted, TypeOK
    <3> QED
      BY <1>3, <3>1, SMTT(30)
  <2> QED
    BY <1>1, <1>2, <1>3, <1>4, <2>1 DEF Accounted
<1>8. StreamsAccounted'
  BY <1>1, <1>2, StreamsFrame
<1>9. Copied'
  BY <1>1, <1>2 DEF Copied, Before, Ts
<1> QED
  BY <1>5, <1>6, <1>7, <1>8, <1>9 DEF CapmergeInv

\* It could not be read.
LEMMA ReadFailsKeeps ==
    ASSUME CapmergeInv, ReadFails
    PROVE  CapmergeInv'
<1>1. /\ pc = "peek" /\ pc' = "failed"
      /\ UNCHANGED <<input, sort, st, streams, taken, pkt, i, merged, begin, copied, result, lost, closed>>
  BY DEF ReadFails, sorting
<1>2. TypeOK /\ StreamsAccounted /\ Accounted /\ Copied
  BY DEF CapmergeInv
<1>3. Files' = Files
  BY <1>1 DEF Files
<1>4. TypeOK'
  BY <1>1, <1>2, <1>3 DEF TypeOK, NULL
<1>5. Peeked'
  BY <1>1 DEF Peeked
<1>6. Accounted'
  BY <1>1, <1>2, <1>3 DEF Accounted, CanPeek, NextPacket, Ts
<1>7. StreamsAccounted'
  BY <1>1, <1>2, StreamsFrame
<1>8. Copied'
  BY <1>1, <1>2 DEF Copied, Before, Ts
<1> QED
  BY <1>4, <1>5, <1>6, <1>7, <1>8 DEF CapmergeInv

\* A turn without a packet: the next, or the end of the merge.
LEMMA NoPacketKeeps ==
    ASSUME CapmergeInv, NoPacket
    PROVE  CapmergeInv'
<1>1. /\ pc = "peek" /\ i' = 1
      /\ pc' \in IF streams > 0 THEN {"peek"} ELSE IF sort THEN {"sort", "failed"} ELSE {"done"}
      /\ UNCHANGED <<input, sort, st, streams, taken, pkt, merged, begin, copied, result, lost, closed>>
  BY DEF NoPacket, sorting
<1>2. TypeOK /\ StreamsAccounted /\ Peeked /\ Accounted /\ Copied
  BY DEF CapmergeInv
<1>3. streams \in Nat
  BY <1>2, FileTypes, SMTT(30) DEF TypeOK
<1>4. pc' \in {"peek", "sort", "done", "failed"} /\ (pc' # "peek" => streams = 0) /\ (pc' = "done" => ~sort)
  BY <1>1, <1>3
<1>5. Files' = Files
  BY <1>1 DEF Files
<1>6. TypeOK'
  BY <1>1, <1>2, <1>4, <1>5, SMTT(30) DEF TypeOK, NULL
<1>7. Peeked'
  BY <1>1, <1>3 DEF Peeked
<1>8. Accounted'
  BY <1>1, <1>2, <1>4, <1>5 DEF Accounted, CanPeek, NextPacket, Ts
<1>9. Copied'
  BY <1>1, <1>2, <1>4 DEF Copied, Before, Ts
<1>10. StreamsAccounted'
  BY <1>1, <1>2, StreamsFrame
<1> QED
  BY <1>6, <1>7, <1>8, <1>9, <1>10 DEF CapmergeInv

\* What was written has a timestamp.
LEMMA MergedTs ==
    ASSUME TypeOK, Accounted, NEW m \in DOMAIN merged
    PROVE  Ts(merged[m]) \in Nat
<1> DEFINE f == merged[m][1]
           k == merged[m][2]
<1>1. f \in Files /\ k \in Nat /\ k \in 1..taken[f]
  BY SMTT(30) DEF TypeOK, Accounted
<1> HIDE DEF f, k
<1>2. k \in 1..Len(input[f])
  BY <1>1, FileTypes, SMTT(30)
<1>3. input[f][k] \in Nat
  BY <1>1, <1>2, FileTypes
<1> QED
  BY <1>3 DEF Ts, f, k

\* The search of the sort starts at the first packet that was not copied: none is left out.
LEMMA BeginFirst ==
    ASSUME TypeOK, Copied
    PROVE  /\ Begin \in 1..(Len(merged) + 1)
           /\ \A n \in 1..(Begin - 1) : n \in copied
           /\ Left = DOMAIN merged \ copied
<1> DEFINE left == {n \in begin..Len(merged) : n \notin copied}
<1>1. DOMAIN merged = 1..Len(merged) /\ Len(merged) \in Nat /\ begin \in 1..(Len(merged) + 1)
  BY SMTT(30) DEF TypeOK
<1>2. \A n \in 1..(begin - 1) : n \in copied
  BY DEF Copied
<1>3. CASE left = {}
  <2>1. Begin = Len(merged) + 1
    BY <1>3 DEF Begin
  <2>2. \A n \in 1..Len(merged) : n \in copied
    BY <1>1, <1>2, <1>3
  <2> QED
    BY <1>1, <2>1, <2>2, SMTT(30) DEF Left
<1>4. CASE left # {}
  <2>1. left \subseteq Nat
    BY <1>1
  <2>2. \E n \in left : \A k \in left : n <= k
    <3> HIDE DEF left
    <3> QED
      BY <1>4, <2>1, NatMin
  <2>3. Begin = CHOOSE n \in left : \A k \in left : n <= k
    BY <1>4 DEF Begin
  <2>4. Begin \in left /\ \A k \in left : Begin <= k
    <3> HIDE DEF left
    <3> QED
      BY <2>2, <2>3
  <2>5. Begin \in Nat /\ begin <= Begin /\ Begin <= Len(merged)
    BY <1>1, <2>4
  <2>6. \A n \in 1..(Begin - 1) : n \in copied
    <3> SUFFICES ASSUME NEW n \in 1..(Begin - 1) PROVE n \in copied
      OBVIOUS
    <3>1. n \notin left /\ n <= Len(merged)
      BY <1>1, <2>4, <2>5
    <3> QED
      BY <1>1, <1>2, <2>5, <3>1
  <2> QED
    BY <1>1, <2>5, <2>6, SMTT(30) DEF Left
<1> QED
  BY <1>3, <1>4

\* The packet that is copied comes before all others that are left.
LEMMA SmallestFirst ==
    ASSUME TypeOK, Accounted, Copied, Left # {}
    PROVE  /\ Smallest \in DOMAIN merged /\ Smallest \notin copied
           /\ \A k \in DOMAIN merged \ copied : k # Smallest => Before(Smallest, k)
<1>1. Left = DOMAIN merged \ copied /\ Left \subseteq Nat
  <2>1. Left = DOMAIN merged \ copied
    BY BeginFirst
  <2>2. DOMAIN merged \subseteq Nat
    BY SMTT(30) DEF TypeOK
  <2> QED
    BY <2>1, <2>2
<1>2. \A n \in Left : Ts(merged[n]) \in Nat
  BY <1>1, MergedTs
<1> DEFINE t == [n \in Left |-> Ts(merged[n])]
<1>3. t \in [Left -> Nat]
  BY <1>2
<1>4. \E n \in Left : \A k \in Left : t[n] < t[k] \/ (t[n] = t[k] /\ n <= k)
  <2> HIDE DEF t
  <2> QED
    BY <1>1, <1>3, LexMin
<1>5. \E n \in Left : \A k \in Left : Ts(merged[n]) < Ts(merged[k]) \/ (Ts(merged[n]) = Ts(merged[k]) /\ n <= k)
  BY <1>4
<1>6. /\ Smallest \in Left
      /\ \A k \in Left : \/ Ts(merged[Smallest]) < Ts(merged[k])
                         \/ Ts(merged[Smallest]) = Ts(merged[k]) /\ Smallest <= k
  BY <1>5 DEF Smallest
<1>7. ASSUME NEW k \in Left, k # Smallest PROVE Before(Smallest, k)
  BY <1>1, <1>6, <1>7 DEF Before
<1> QED
  BY <1>1, <1>6, <1>7

\* A packet is copied, or lost.
LEMMA SortStepKeeps ==
    ASSUME CapmergeInv, SortStep
    PROVE  CapmergeInv'
<1> DEFINE S == Smallest
<1>1. /\ pc = "sort" /\ Left # {} /\ begin' = Begin /\ copied' = copied \cup {S}
      /\ \/ result' = Append(result, merged[S]) /\ lost' = lost
         \/ lost' = TRUE /\ result' = result
      /\ UNCHANGED <<input, sort, st, streams, taken, pkt, i, pc, merged, closed>>
  BY DEF SortStep
<1>2. TypeOK /\ StreamsAccounted /\ Peeked /\ Accounted /\ Copied
  BY DEF CapmergeInv
<1>3. /\ S \in DOMAIN merged /\ S \notin copied
      /\ \A k \in DOMAIN merged \ copied : k # S => Before(S, k)
  BY <1>1, <1>2, SmallestFirst
<1>4. begin' \in 1..(Len(merged) + 1) /\ \A n \in 1..(begin' - 1) : n \in copied
  BY <1>1, <1>2, BeginFirst
<1> HIDE DEF S
<1>5. /\ merged \in Seq(Files \X Nat) /\ result \in Seq(Files \X Nat) /\ merged[S] \in Files \X Nat
      /\ copied \subseteq DOMAIN merged
  BY <1>2, <1>3, SMTT(30) DEF TypeOK
<1>6. merged[S] \notin Range(result)
  <2> SUFFICES ASSUME NEW m \in DOMAIN result, result[m] = merged[S] PROVE FALSE
    BY DEF Range
  <2>1. PICK k \in copied : result[m] = merged[k]
    BY <1>2 DEF Copied
  <2>2. k = S
    BY <1>2, <1>3, <1>5, <2>1 DEF Accounted, IsInjective
  <2> QED
    BY <1>3, <2>1, <2>2
<1>7. TypeOK'
  <2>1. result' \in Seq(Files \X Nat)
    <3>1. Append(result, merged[S]) \in Seq(Files \X Nat)
      BY <1>5
    <3> QED
      BY <1>1, <1>5, <3>1
  <2>2. lost' \in BOOLEAN
    <3>1. lost \in BOOLEAN
      BY <1>2 DEF TypeOK
    <3> QED
      BY <1>1, <3>1
  <2>3. copied' \subseteq DOMAIN merged' /\ begin' \in 1..(Len(merged') + 1)
    BY <1>1, <1>3, <1>4, <1>5
  <2>4. Files' = Files
    BY <1>1 DEF Files
  <2> QED
    BY <1>1, <1>2, <2>1, <2>2, <2>3, <2>4 DEF TypeOK, NULL
<1>8. Peeked'
  BY <1>1 DEF Peeked
<1>9. Accounted' /\ StreamsAccounted'
  BY <1>1, <1>2, AccountedFrame, StreamsFrame
<1>10. \A k, n : Before(k, n)' <=> Before(k, n)
  BY <1>1 DEF Before, Ts
<1>11. \A k \in copied' : \A n \in DOMAIN merged' \ copied' : Before(k, n)'
  BY <1>1, <1>2, <1>3, <1>10 DEF Copied
<1>12. CASE lost' = TRUE /\ result' = result
  <2>1. \A m \in DOMAIN result' : \E k \in copied' : result'[m] = merged'[k]
    BY <1>1, <1>2, <1>12 DEF Copied
  <2>2. \A m, n \in DOMAIN result' : \A k, l \in copied' :
           m < n /\ result'[m] = merged'[k] /\ result'[n] = merged'[l] => Before(k, l)'
    <3> SUFFICES ASSUME NEW m \in DOMAIN result, NEW n \in DOMAIN result, NEW k \in copied \cup {S},
                        NEW l \in copied \cup {S}, m < n, result[m] = merged[k], result[n] = merged[l]
                 PROVE  Before(k, l)
      BY <1>1, <1>10, <1>12
    <3>1. k \in copied /\ l \in copied
      BY <1>6 DEF Range
    <3> QED
      BY <1>2, <3>1 DEF Copied
  <2>3. Copied'
    BY <1>1, <1>2, <1>4, <1>11, <1>12, <2>1, <2>2 DEF Copied
  <2> QED
    BY <1>7, <1>8, <1>9, <2>3 DEF CapmergeInv
<1>13. CASE result' = Append(result, merged[S]) /\ lost' = lost
  <2> DEFINE L == Len(result)
  <2>1. /\ L \in Nat /\ DOMAIN result = 1..L /\ DOMAIN result' = 1..(L + 1)
        /\ \A n \in 1..L : result'[n] = result[n]
        /\ result'[L + 1] = merged[S]
    BY <1>5, <1>13, AppendElements, SMTT(30)
  <2>2. IsInjective(result')
    BY <1>2, <1>5, <1>6, <1>13, AppendInjective DEF Copied
  <2>3. Range(result') = Range(result) \cup {merged[S]}
    <3> DEFINE T == Files \X Nat
               x == merged[S]
    <3>1. result \in Seq(T) /\ x \in T
      BY <1>5
    <3> HIDE DEF T, x
    <3>2. Range(Append(result, x)) = Range(result) \cup {x}
      BY <3>1, AppendRange, SMTT(30)
    <3> QED
      BY <1>13, <3>2 DEF x
  <2> HIDE DEF L
  <2>4. ASSUME NEW m \in DOMAIN result' PROVE \E k \in copied' : result'[m] = merged'[k]
    <3>1. m \in 1..L \/ m = L + 1
      BY <2>1
    <3>2. CASE m \in 1..L
      BY <1>1, <1>2, <2>1, <3>2 DEF Copied
    <3>3. CASE m = L + 1
      BY <1>1, <2>1, <3>3
    <3> QED
      BY <3>1, <3>2, <3>3
  <2>5. ~lost' => \A k \in copied' : merged'[k] \in Range(result')
    BY <1>1, <1>2, <1>13, <2>3 DEF Copied
  <2>6. ASSUME NEW m \in DOMAIN result', NEW n \in DOMAIN result', NEW k \in copied', NEW l \in copied',
               m < n, result'[m] = merged'[k], result'[n] = merged'[l]
        PROVE  Before(k, l)
    <3>1. m \in 1..L /\ (n \in 1..L \/ n = L + 1)
      BY <2>1, <2>6
    <3>2. result[m] = merged[k] /\ k \in copied
      <4>1. result[m] = merged[k] /\ m \in DOMAIN result
        BY <1>1, <2>1, <2>6, <3>1
      <4> QED
        BY <1>1, <1>6, <4>1 DEF Range
    <3>3. CASE n \in 1..L
      <4>1. result[n] = merged[l] /\ n \in DOMAIN result
        BY <1>1, <2>1, <2>6, <3>3
      <4>2. l \in copied
        BY <1>1, <1>6, <4>1 DEF Range
      <4> QED
        BY <1>2, <2>1, <2>6, <3>1, <3>2, <4>1, <4>2 DEF Copied
    <3>4. CASE n = L + 1
      <4>1. merged[l] = merged[S] /\ l \in DOMAIN merged
        BY <1>1, <1>3, <1>5, <2>1, <2>6, <3>4
      <4>2. l = S
        BY <1>2, <1>3, <4>1 DEF Accounted, IsInjective
      <4> QED
        BY <1>2, <1>3, <3>2, <4>2 DEF Copied
    <3> QED
      BY <3>1, <3>3, <3>4
  <2>7. Copied'
    BY <1>1, <1>4, <1>10, <1>11, <2>2, <2>4, <2>5, <2>6 DEF Copied
  <2> QED
    BY <1>7, <1>8, <1>9, <2>7 DEF CapmergeInv
<1> QED
  BY <1>1, <1>12, <1>13

\* Nothing is left.
LEMMA SortDoneKeeps ==
    ASSUME CapmergeInv, SortDone
    PROVE  CapmergeInv'
<1>1. /\ pc = "sort" /\ Left = {} /\ begin' = Begin /\ pc' = "done"
      /\ UNCHANGED <<input, sort, st, streams, taken, pkt, i, merged, copied, result, closed, lost>>
  BY DEF SortDone
<1>2. TypeOK /\ StreamsAccounted /\ Peeked /\ Accounted /\ Copied
  BY DEF CapmergeInv
<1>3. /\ begin' \in 1..(Len(merged) + 1) /\ \A n \in 1..(begin' - 1) : n \in copied
      /\ copied = DOMAIN merged
  <2>1. copied \subseteq DOMAIN merged
    BY <1>2 DEF TypeOK
  <2> QED
    BY <1>1, <1>2, <2>1, BeginFirst
<1>4. TypeOK'
  <2>1. Files' = Files
    BY <1>1 DEF Files
  <2> QED
    BY <1>1, <1>2, <1>3, <2>1 DEF TypeOK, NULL
<1>5. Peeked'
  BY <1>1 DEF Peeked
<1>6. Accounted'
  BY <1>1, <1>2 DEF Accounted, CanPeek, NextPacket, Ts, Files
<1>7. Copied'
  BY <1>1, <1>2, <1>3, SMTT(30) DEF Copied, Before, Ts
<1>8. StreamsAccounted'
  BY <1>1, <1>2, StreamsFrame
<1> QED
  BY <1>4, <1>5, <1>6, <1>7, <1>8 DEF CapmergeInv

\* No step.
LEMMA StutterKeeps ==
    ASSUME CapmergeInv, UNCHANGED vars
    PROVE  CapmergeInv'
<1>1. TypeOK /\ StreamsAccounted /\ Peeked /\ Accounted /\ Copied
  BY DEF CapmergeInv
<1>2. UNCHANGED <<input, sort, st, streams, taken, pkt, i, pc, merged, begin, copied, result, closed, lost>>
  BY DEF vars
<1>3. TypeOK'
  BY <1>1, <1>2 DEF TypeOK, Files, NULL
<1>4. Peeked'
  BY <1>1, <1>2 DEF Peeked, NextPacket, CanPeek, Ts, NULL
<1>5. StreamsAccounted' /\ Accounted' /\ Copied'
  BY <1>1, <1>2, StreamsFrame, AccountedFrame, CopiedFrame
<1> QED
  BY <1>3, <1>4, <1>5 DEF CapmergeInv

LEMMA CapmergeInvariant == Spec => []CapmergeInv
<1>1. CapmergeInv /\ [Next]_vars => CapmergeInv'
  BY PeekPacketKeeps, PeekEndKeeps, MergeKeeps, MergeFailsKeeps, ReadFailsKeeps, NoPacketKeeps,
     SortStepKeeps, SortDoneKeeps, StutterKeeps DEF Next, Merging, Sorting, Exited
<1> QED
  BY <1>1, InitHolds, PTL DEF Spec

-----------------------------------------------------------------------------
(* The theorems.                                                           *)

\* However many streams end in whatever order, moving the last one forward neither forgets
\* a file nor reads one that is closed.
THEOREM CapmergeStreams == Spec => []StreamsAccounted
<1>1. CapmergeInv => StreamsAccounted
  BY DEF CapmergeInv
<1> QED
  BY <1>1, CapmergeInvariant, PTL

\* A capmerge that ends with success, and whose sort has lost nothing, has written every
\* readable packet of every file once.
THEOREM CapmergeComplete == Spec => []MergeComplete
<1>1. CapmergeInv => MergeComplete
  <2> SUFFICES ASSUME CapmergeInv, pc = "done", ~lost
               PROVE  IsInjective(Output) /\ Range(Output) = Readable
    BY DEF MergeComplete
  <2>1. TypeOK /\ StreamsAccounted /\ Accounted /\ Copied
    BY DEF CapmergeInv
  <2>2. \A f \in Files : ~CanPeek(f)
    <3>1. streams = 0 /\ {st[n] : n \in 1..streams} = {}
      BY <2>1 DEF Accounted
    <3>2. Range(closed) = Files
      BY <2>1, <3>1 DEF StreamsAccounted
    <3> QED
      BY <2>1, <3>2 DEF Accounted
  <2>3. \A f \in Files : /\ taken[f] \in Nat /\ Len(input[f]) \in Nat /\ taken[f] <= Len(input[f])
                         /\ DOMAIN input[f] = 1..Len(input[f])
                         /\ taken[f] < Len(input[f]) => input[f][taken[f] + 1] = 0
    BY <2>1, <2>2, FileTypes, SMTT(30) DEF CanPeek, NextPacket, Ts
  <2>4. \A f \in Files : \A k \in 1..taken[f] : input[f][k] # 0 /\ <<f, k>> \in Range(merged)
    BY <2>1 DEF Accounted
  <2>5. Range(merged) \subseteq Readable
    <3> SUFFICES ASSUME NEW m \in DOMAIN merged PROVE merged[m] \in Readable
      BY DEF Range
    <3>1. PICK f \in Files, k \in Nat : merged[m] = <<f, k>>
      BY <2>1 DEF TypeOK
    <3>2. k \in 1..taken[f]
      BY <2>1, <3>1 DEF Accounted
    <3>3. k \in DOMAIN input[f] /\ \A j \in 1..k : input[f][j] # 0
      <4>1. taken[f] \in Nat /\ Len(input[f]) \in Nat /\ taken[f] <= Len(input[f])
        BY <2>3
      <4>2. k \in 1..Len(input[f]) /\ \A j \in 1..k : j \in 1..taken[f]
        BY <3>2, <4>1
      <4> QED
        BY <2>3, <2>4, <4>2
    <3> QED
      BY <3>1, <3>3, SMTT(30) DEF Readable
  <2>6. Readable \subseteq Range(merged)
    <3> SUFFICES ASSUME NEW f \in Files, NEW k \in DOMAIN input[f], \A j \in 1..k : input[f][j] # 0
                 PROVE  <<f, k>> \in Range(merged)
      BY SMTT(30) DEF Readable
    <3>1. k \in Nat /\ k >= 1 /\ k <= Len(input[f])
      BY <2>3, SMTT(30)
    <3>2. ~(taken[f] < k)
      <4> SUFFICES ASSUME taken[f] < k PROVE FALSE
        OBVIOUS
      <4>1. taken[f] + 1 \in 1..k /\ taken[f] < Len(input[f])
        BY <2>3, <3>1, SMTT(30)
      <4> QED
        BY <2>3, <4>1
    <3>3. k \in 1..taken[f]
      BY <2>3, <3>1, <3>2, SMTT(30)
    <3> QED
      BY <2>4, <3>3
  <2>7. CASE sort
    <3>1. IsInjective(result) /\ Range(result) = Range(merged)
      <4>1. /\ IsInjective(result) /\ copied = DOMAIN merged
            /\ \A m \in DOMAIN result : \E k \in copied : result[m] = merged[k]
            /\ \A k \in copied : merged[k] \in Range(result)
        BY <2>1, <2>7 DEF Copied
      <4>2. \A x \in Range(result) : x \in Range(merged)
        BY <4>1 DEF Range
      <4>3. \A x \in Range(merged) : x \in Range(result)
        BY <4>1 DEF Range
      <4> QED
        BY <4>1, <4>2, <4>3
    <3> QED
      BY <2>5, <2>6, <2>7, <3>1 DEF Output
  <2>8. CASE ~sort
    BY <2>1, <2>5, <2>6, <2>8 DEF Output, Accounted
  <2> QED
    BY <2>7, <2>8
<1> QED
  BY <1>1, CapmergeInvariant, PTL

\* The file sort_capfile writes is sorted from any input, and packets with one timestamp
\* stay in the order in which they were merged, also if some could not be written.
THEOREM CapmergeSortStable == Spec => []SortStable
<1>1. CapmergeInv => SortStable
  <2> SUFFICES ASSUME CapmergeInv, NEW m \in DOMAIN result, NEW n \in DOMAIN result, m < n
               PROVE  /\ Ts(result[m]) <= Ts(result[n])
                      /\ Ts(result[m]) = Ts(result[n])
                         => \E k, l \in DOMAIN merged : k < l /\ merged[k] = result[m] /\ merged[l] = result[n]
    BY DEF SortStable, InOrder
  <2>1. TypeOK /\ Accounted /\ Copied /\ copied \subseteq DOMAIN merged
    BY DEF CapmergeInv, TypeOK
  <2>2. PICK k \in copied : result[m] = merged[k]
    BY <2>1 DEF Copied
  <2>3. PICK l \in copied : result[n] = merged[l]
    BY <2>1 DEF Copied
  <2>4. Before(k, l)
    BY <2>1, <2>2, <2>3 DEF Copied
  <2>5. Ts(merged[k]) \in Nat /\ Ts(merged[l]) \in Nat
    BY <2>1, MergedTs
  <2>6. Ts(merged[k]) < Ts(merged[l]) \/ (Ts(merged[k]) = Ts(merged[l]) /\ k < l)
    BY <2>4 DEF Before
  <2> QED
    BY <2>1, <2>2, <2>3, <2>5, <2>6
<1> QED
  BY <1>1, CapmergeInvariant, PTL

-----------------------------------------------------------------------------
(* Two files.  The stream that moves to a free place is not looked at in   *)
(* the turn it moves; with two files there is then nothing to compare it   *)
(* to.  So a turn that writes a packet has seen one of every open stream.  *)

AllSeen ==
    Len(input) <= 2 /\ pc = "peek" /\ streams = 2
    => (i >= 2 => pkt[1] # NULL) /\ (i >= 3 => pkt[2] # NULL)

\* No file has an older packet to come than one that was written.
NoneOlder ==
    \A f \in Files : CanPeek(f) => \A m \in DOMAIN merged : Ts(merged[m]) <= Ts(NextPacket(f))

AllSorted == \A f \in Files : InputSorted(f)
TwoInv == AllSeen /\ (Len(input) <= 2 /\ AllSorted => InOrder(merged) /\ NoneOlder)

\* Every step keeps track of what was seen.
LEMMA AllSeenKept ==
    ASSUME CapmergeInv, AllSeen, [Next]_vars
    PROVE  AllSeen'
<1>1. TypeOK
  BY DEF CapmergeInv
<1>2. i \in Nat /\ i # 0 /\ streams \in 0..Len(input) /\ Len(input) \in Nat /\ 1..streams \subseteq Files
  <2>1. streams \in 0..Len(input) /\ i \in Nat \ {0}
    BY <1>1 DEF TypeOK
  <2> QED
    BY <1>1, <2>1, FileTypes, SMTT(30)
<1>3. CASE PeekPacket
  <2> SUFFICES ASSUME Len(input) <= 2, pc = "peek", streams = 2
               PROVE  (i + 1 >= 2 => pkt'[1] # NULL) /\ (i + 1 >= 3 => pkt'[2] # NULL)
    BY <1>3 DEF PeekPacket, AllSeen, NULL
  <2>1. i <= 2 /\ pkt' = [pkt EXCEPT ![i] = NextPacket(st[i])]
    BY <1>3 DEF PeekPacket
  <2>2. i \in {1, 2} /\ 1 \in Files /\ 2 \in Files
    BY <1>2, <2>1
  <2>3. NextPacket(st[i]) # NULL
    <3>1. taken[st[i]] \in Nat
      BY <1>1, <2>2, FileTypes
    <3>2. taken[st[i]] + 1 # 0
      BY <3>1
    <3> QED
      BY <3>2 DEF NextPacket, NULL
  <2>4. pkt \in [Files -> {NULL} \cup (Files \X (Nat \ {0}))]
    BY <1>1 DEF TypeOK
  <2>5. pkt'[i] # NULL /\ \A n \in Files : n # i => pkt'[n] = pkt[n]
    BY <2>1, <2>2, <2>3, <2>4
  <2>6. CASE i = 1
    BY <2>5, <2>6, SMTT(30)
  <2>7. CASE i = 2
    BY <2>2, <2>5, <2>7, SMTT(30) DEF AllSeen
  <2> QED
    BY <2>2, <2>6, <2>7
<1>4. CASE PeekEnd
  <2>1. streams' = streams - 1 /\ input' = input
    BY <1>4 DEF PeekEnd
  <2> QED
    BY <1>2, <2>1 DEF AllSeen
<1>5. CASE Merge
  BY <1>5 DEF Merge, AllSeen
<1>6. CASE MergeFails
  BY <1>6 DEF MergeFails, AllSeen
<1>7. CASE ReadFails \/ NoPacket
  BY <1>7 DEF ReadFails, NoPacket, AllSeen
<1>8. CASE SortStep \/ SortDone
  BY <1>8 DEF SortStep, SortDone, AllSeen
<1>9. CASE UNCHANGED vars
  BY <1>9 DEF vars, AllSeen, NULL
<1> QED
  BY <1>3, <1>4, <1>5, <1>6, <1>7, <1>8, <1>9 DEF Next, Merging, Sorting, Exited

\* A packet that is taken is not younger than any still to come.
LEMMA TakenOldest ==
    ASSUME CapmergeInv, AllSeen, Len(input) <= 2, AllSorted, pc = "peek", i > streams, Seen # {},
           taken' = [taken EXCEPT ![st[Oldest]] = taken[st[Oldest]] + 1], UNCHANGED <<input, closed>>,
           NEW g \in Files, CanPeek(g)'
    PROVE  /\ Ts(NextPacket(st[Oldest])) <= Ts(NextPacket(g))'
           /\ Ts(NextPacket(g))' \in Nat
           /\ CanPeek(g) /\ Ts(NextPacket(g)) <= Ts(NextPacket(g))'
<1> DEFINE f == st[Oldest]
<1>1. TypeOK /\ StreamsAccounted /\ Peeked /\ Accounted
  BY DEF CapmergeInv
<1>2. /\ Oldest \in 1..streams /\ f \in Files /\ CanPeek(f)
      /\ \A k \in Seen : Ts(NextPacket(f)) <= Ts(NextPacket(st[k]))
  BY <1>1, OldestSeen
<1>3. /\ taken[f] \in Nat /\ taken'[f] = taken[f] + 1
      /\ g # f => taken'[g] = taken[g]
  BY PacketTaken
<1>4. streams \in Nat /\ streams <= 2 /\ i \in Nat
  <2>1. streams \in 0..Len(input) /\ Len(input) \in Nat /\ i \in Nat
    BY <1>1, FileTypes DEF TypeOK
  <2> QED
    BY <2>1
<1>5. CASE g = f
  <2>1. g \in Files /\ CanPeek(g) /\ taken[g] \in Nat /\ taken'[g] = taken[g] + 1
    BY <1>2, <1>3, <1>5
  <2>2. taken'[g] < Len(input[g]) /\ Ts(NextPacket(g))' = input[g][taken'[g] + 1]
    BY DEF CanPeek, Ts, NextPacket
  <2>3. taken[g] + 1 \in 1..Len(input[g]) /\ taken[g] + 2 \in 1..Len(input[g]) /\ taken'[g] + 1 = taken[g] + 2
    <3>1. Len(input[g]) \in Nat
      BY <1>1, FileTypes
    <3> QED
      BY <2>1, <2>2, <3>1
  <2>4. input[g][taken[g] + 1] <= input[g][taken[g] + 2] /\ input[g][taken[g] + 2] \in Nat
    <3>1. DOMAIN input[g] = 1..Len(input[g])
      BY <1>1, FileTypes, SMTT(30)
    <3>2. taken[g] + 1 < taken[g] + 2
      BY <2>1
    <3> QED
      BY <1>1, <2>3, <3>1, <3>2, FileTypes DEF AllSorted, InputSorted
  <2>5. Ts(NextPacket(g)) = input[g][taken[g] + 1]
    BY <1>1, <2>1, NextTs
  <2>6. Ts(NextPacket(g)) <= Ts(NextPacket(g))' /\ Ts(NextPacket(g))' \in Nat
    BY <2>2, <2>3, <2>4, <2>5
  <2> QED
    BY <1>5, <2>1, <2>6
<1>6. CASE g # f
  <2>1. CanPeek(g) /\ Ts(NextPacket(g))' = Ts(NextPacket(g))
    BY <1>3, <1>6 DEF CanPeek, Ts, NextPacket
  <2>2. PICK n \in 1..streams : g = st[n]
    BY <1>1, <2>1 DEF StreamsAccounted, Accounted
  <2>3. n \in Seen
    <3>1. streams = 2
      BY <1>2, <1>4, <1>6, <2>2
    <3>2. pkt[1] # NULL /\ pkt[2] # NULL
      BY <1>4, <3>1 DEF AllSeen
    <3> QED
      BY <2>2, <3>1, <3>2 DEF Seen
  <2>4. Ts(NextPacket(g)) \in Nat
    BY <1>1, <2>1, NextTs
  <2> QED
    BY <1>2, <2>1, <2>2, <2>3, <2>4
<1> QED
  BY <1>5, <1>6

\* A packet that is read leaves none older behind.
LEMMA NoneOlderKept ==
    ASSUME CapmergeInv, AllSeen, NoneOlder, Len(input) <= 2, AllSorted, pc = "peek", i > streams, Seen # {},
           taken' = [taken EXCEPT ![st[Oldest]] = taken[st[Oldest]] + 1], UNCHANGED <<input, closed>>,
           NEW g \in Files, CanPeek(g)', NEW m \in DOMAIN merged
    PROVE  Ts(merged[m]) <= Ts(NextPacket(g))'
<1>1. CanPeek(g) /\ Ts(NextPacket(g)) <= Ts(NextPacket(g))' /\ Ts(NextPacket(g))' \in Nat
  BY TakenOldest
<1>2. Ts(merged[m]) <= Ts(NextPacket(g))
  BY <1>1 DEF NoneOlder
<1>3. Ts(merged[m]) \in Nat /\ Ts(NextPacket(g)) \in Nat
  BY <1>1, MergedTs, NextTs DEF CapmergeInv
<1> QED
  BY <1>1, <1>2, <1>3

\* Merging keeps the order.
LEMMA MergeInOrder ==
    ASSUME CapmergeInv, TwoInv, Len(input) <= 2, AllSorted, Merge
    PROVE  InOrder(merged)' /\ NoneOlder'
<1> DEFINE f == st[Oldest]
           p == NextPacket(f)
           L == Len(merged)
<1>1. /\ pc = "peek" /\ i > streams /\ Seen # {}
      /\ taken' = [taken EXCEPT ![f] = taken[f] + 1] /\ merged' = Append(merged, p)
      /\ UNCHANGED <<input, closed>>
  BY DEF Merge
<1>2. AllSeen /\ InOrder(merged) /\ NoneOlder
  BY DEF TwoInv
<1>3. TypeOK /\ Peeked /\ Accounted
  BY DEF CapmergeInv
<1>4. f \in Files /\ CanPeek(f)
  BY <1>1, <1>3, OldestSeen
<1>5. p \in Files \X Nat /\ merged \in Seq(Files \X Nat)
  <2>1. taken[f] + 1 \in Nat
    BY <1>3, <1>4, FileTypes, SMTT(30)
  <2> HIDE DEF f
  <2> QED
    BY <1>3, <1>4, <2>1 DEF TypeOK, NextPacket
<1>6. /\ L \in Nat /\ DOMAIN merged = 1..L /\ DOMAIN merged' = 1..(L + 1)
      /\ \A m \in 1..L : merged'[m] = merged[m]
      /\ merged'[L + 1] = p
  <2> HIDE DEF p
  <2> QED
    BY <1>1, <1>5, AppendElements, SMTT(30)
<1>7. \A m \in 1..L : Ts(merged[m]) <= Ts(p)
  BY <1>2, <1>4, <1>6 DEF NoneOlder
<1>8. \A g \in Files : CanPeek(g)' => Ts(p) <= Ts(NextPacket(g))'
  BY <1>1, <1>2, TakenOldest
<1>9. \A g \in Files : CanPeek(g)' => \A m \in 1..L : Ts(merged[m]) <= Ts(NextPacket(g))'
  BY <1>1, <1>2, <1>6, NoneOlderKept
<1> HIDE DEF p, L, f
<1>10. \A m \in 1..L : Ts(merged[m])' = Ts(merged[m])
  BY <1>1, <1>6 DEF Ts
<1>11. ASSUME NEW n, n = L + 1 PROVE Ts(merged[n])' = Ts(p)
  BY <1>1, <1>6, <1>11 DEF Ts
<1>12. InOrder(merged)'
  <2> SUFFICES ASSUME NEW m \in 1..(L + 1), NEW n \in 1..(L + 1), m < n
               PROVE  Ts(merged[m])' <= Ts(merged[n])'
    BY <1>6 DEF InOrder
  <2>1. m \in 1..L /\ (n \in 1..L \/ n = L + 1)
    BY <1>6
  <2>2. CASE n \in 1..L
    BY <1>2, <1>6, <1>10, <2>1, <2>2, SMTT(30) DEF InOrder
  <2>3. CASE n = L + 1
    BY <1>7, <1>10, <1>11, <2>1, <2>3
  <2> QED
    BY <2>1, <2>2, <2>3
<1>13. NoneOlder'
  <2> SUFFICES ASSUME NEW g \in Files, CanPeek(g)', NEW m \in 1..(L + 1)
               PROVE  Ts(merged[m])' <= Ts(NextPacket(g))'
    BY <1>1, <1>6 DEF NoneOlder, Files
  <2>1. m \in 1..L \/ m = L + 1
    BY <1>6
  <2> QED
    BY <1>8, <1>9, <1>10, <1>11, <2>1
<1> QED
  BY <1>12, <1>13

\* The steps that read no packet.
LEMMA OrderFrame ==
    ASSUME InOrder(merged), NoneOlder, UNCHANGED <<input, taken, merged>>
    PROVE  InOrder(merged)' /\ NoneOlder'
BY DEF InOrder, NoneOlder, CanPeek, NextPacket, Ts, Files

LEMMA TwoInvKept ==
    ASSUME CapmergeInv, TwoInv, [Next]_vars
    PROVE  TwoInv'
<1>1. AllSeen'
  BY AllSeenKept DEF TwoInv
<1>2. input' = input
  BY DEF Next, Merging, Sorting, Exited, PeekPacket, PeekEnd, Merge, MergeFails, ReadFails, NoPacket, SortStep,
     SortDone, vars
<1>3. AllSorted' = AllSorted
  BY <1>2 DEF AllSorted, InputSorted, Files
<1> SUFFICES ASSUME Len(input) <= 2, AllSorted PROVE InOrder(merged)' /\ NoneOlder'
  BY <1>1, <1>2, <1>3 DEF TwoInv
<1>4. InOrder(merged) /\ NoneOlder /\ AllSeen
  BY DEF TwoInv
<1>5. CASE Merge
  BY <1>5, MergeInOrder
<1>6. CASE MergeFails
  <2>1. /\ pc = "peek" /\ i > streams /\ Seen # {} /\ UNCHANGED <<input, closed, merged>>
        /\ taken' = [taken EXCEPT ![st[Oldest]] = taken[st[Oldest]] + 1]
    BY <1>6 DEF MergeFails
  <2>2. \A g \in Files : CanPeek(g)' => \A m \in DOMAIN merged : Ts(merged[m]) <= Ts(NextPacket(g))'
    BY <1>4, <2>1, NoneOlderKept
  <2>3. \A m \in DOMAIN merged : Ts(merged[m])' = Ts(merged[m])
    BY <2>1 DEF Ts
  <2>4. NoneOlder'
    BY <2>1, <2>2, <2>3 DEF NoneOlder, Files
  <2>5. InOrder(merged)'
    BY <1>4, <2>1 DEF InOrder, Ts
  <2> QED
    BY <2>4, <2>5
<1>7. CASE PeekPacket \/ PeekEnd \/ ReadFails \/ NoPacket \/ SortStep \/ SortDone \/ UNCHANGED vars
  <2>1. UNCHANGED <<input, taken, merged>>
    BY <1>7 DEF PeekPacket, PeekEnd, ReadFails, NoPacket, SortStep, SortDone, vars
  <2> QED
    BY <1>4, <2>1, OrderFrame
<1> QED
  BY <1>5, <1>6, <1>7 DEF Next, Merging, Sorting, Exited

\* Two sorted files are merged into a sorted one, whatever their lengths.  With three that
\* is not so.
THEOREM CapmergeTwoFiles == Spec => []TwoFilesSorted
<1>1. Init => TwoInv
  <2> SUFFICES ASSUME Init PROVE TwoInv
    OBVIOUS
  <2>1. i = 1 /\ merged = <<>>
    BY DEF Init
  <2> QED
    BY <2>1 DEF TwoInv, AllSeen, InOrder, NoneOlder
<1>2. TwoInv /\ CapmergeInv /\ [Next]_vars => TwoInv'
  BY TwoInvKept
<1>3. TwoInv => TwoFilesSorted
  BY DEF TwoInv, AllSorted, TwoFilesSorted
<1> QED
  BY <1>1, <1>2, <1>3, CapmergeInvariant, PTL DEF Spec
=============================================================================
