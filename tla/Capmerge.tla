------------------------------ MODULE Capmerge ------------------------------
(***************************************************************************)
(* tools/capmerge.c: merge capture files by timestamp, and with --sort     *)
(* sort what was merged.                                                   *)
(*                                                                         *)
(* An input is the sequence of the timestamps of its packets, with 0 where *)
(* stream_peek fails: caplen is 0, or the file cannot be read on.  A       *)
(* packet is a pair of its file and its place in it.                       *)
(***************************************************************************)
EXTENDS Integers, Sequences, Functions

CONSTANT Inputs       \* the tuples of input files considered

ASSUME InputsAssumption == \A t \in Inputs : t \in Seq(Seq(Nat)) /\ t # <<>>

NULL == <<0, 0>>

VARIABLES
    input,        \* the files
    sort,         \* --sort was given
    st,           \* st[]: the file of each stream
    streams,      \* streams still open, the first ones of st[]
    taken,        \* packets read from each file
    pkt,          \* pkt[]: what stream_peek returned for each stream
    i,            \* the stream to peek at next
    pc,
    merged,       \* packets given to stdio for the file or, with --sort, for memory
    begin,        \* sorting: where the search starts
    copied,       \* sorting: packets of merged that were marked with len = 0
    result,       \* sorting: packets written to the file
    closed,       \* history: files closed, in order
    lost          \* history: the unchecked write of the sort has failed

vars == <<input, sort, st, streams, taken, pkt, i, pc, merged, begin, copied, result, closed, lost>>
sorting == <<begin, copied, result, lost>>

Files == DOMAIN input
Ts(p) == input[p[1]][p[2]]

TypeOK ==
    /\ input \in Seq(Seq(Nat)) /\ input # <<>>
    /\ sort \in BOOLEAN /\ lost \in BOOLEAN
    /\ st \in [Files -> Files] /\ streams \in 0..Len(input)
    /\ taken \in [Files -> Nat] /\ \A f \in Files : taken[f] <= Len(input[f])
    /\ pkt \in [Files -> {NULL} \cup (Files \X (Nat \ {0}))]
    /\ i \in Nat \ {0}
    /\ pc \in {"peek", "sort", "done", "failed"}
    /\ merged \in Seq(Files \X Nat) /\ result \in Seq(Files \X Nat)
    /\ begin \in 1..(Len(merged) + 1) /\ copied \subseteq DOMAIN merged
    /\ closed \in Seq(Files)

\* All files are open; each is read from its first packet.
Init ==
    /\ input \in Inputs
    /\ sort \in BOOLEAN
    /\ st = [n \in Files |-> n]
    /\ streams = Len(input)
    /\ taken = [f \in Files |-> 0]
    /\ pkt = [n \in Files |-> NULL]
    /\ i = 1
    /\ pc = "peek"
    /\ merged = <<>> /\ result = <<>> /\ closed = <<>>
    /\ begin = 1 /\ copied = {} /\ lost = FALSE

-----------------------------------------------------------------------------

\* The next packet of a stream, if stream_peek would return it.
NextPacket(f) == <<f, taken[f] + 1>>
CanPeek(f) == taken[f] < Len(input[f]) /\ Ts(NextPacket(f)) # 0

PeekPacket ==
    /\ pc = "peek" /\ i <= streams
    /\ CanPeek(st[i])
    /\ pkt' = [pkt EXCEPT ![i] = NextPacket(st[i])]
    /\ i' = i + 1
    /\ UNCHANGED <<input, sort, st, streams, taken, pc, merged, sorting, closed>>

\* Mutant of PeekEnd: the last stream is not moved to the free place.
PeekEndNoMove ==
    /\ pc = "peek" /\ i <= streams
    /\ ~CanPeek(st[i])
    /\ pkt' = [pkt EXCEPT ![i] = NULL]
    /\ closed' = Append(closed, st[i])
    /\ streams' = streams - 1
    /\ i' = i + 1
    /\ UNCHANGED <<input, sort, st, taken, pc, merged, sorting>>

\* Mutant of PeekEnd: the stream stays in the list, as for EAGAIN.
PeekEndAgain ==
    /\ pc = "peek" /\ i <= streams
    /\ ~CanPeek(st[i])
    /\ pkt' = [pkt EXCEPT ![i] = NULL]
    /\ i' = i + 1
    /\ UNCHANGED <<input, sort, st, streams, taken, pc, merged, sorting, closed>>

\* The end of a file, or an error: close the stream and let the last one take
\* its place.  The loop goes on behind that place.
PeekEnd ==
    /\ pc = "peek" /\ i <= streams
    /\ ~CanPeek(st[i])
    /\ pkt' = [pkt EXCEPT ![i] = NULL]
    /\ closed' = Append(closed, st[i])
    /\ st' = [st EXCEPT ![i] = st[streams]]
    /\ streams' = streams - 1
    /\ i' = i + 1
    /\ UNCHANGED <<input, sort, taken, pc, merged, sorting>>

\* The streams whose packet was seen in this turn.
Seen == {n \in 1..streams : pkt[n] # NULL}

\* Mutant of Oldest: the comparison is the wrong way round.
Newest ==
    CHOOSE n \in Seen :
        \A k \in Seen : Ts(pkt[n]) > Ts(pkt[k]) \/ (Ts(pkt[n]) = Ts(pkt[k]) /\ n <= k)

\* The first of the streams whose packet has the smallest timestamp.
Oldest ==
    CHOOSE n \in Seen :
        \A k \in Seen : Ts(pkt[n]) < Ts(pkt[k]) \/ (Ts(pkt[n]) = Ts(pkt[k]) /\ n <= k)

\* Read the oldest packet and write it.
Merge ==
    /\ pc = "peek" /\ i > streams /\ Seen # {}
    /\ LET f == st[Oldest]
       IN  /\ taken' = [taken EXCEPT ![f] = @ + 1]
           /\ merged' = Append(merged, NextPacket(f))
    /\ i' = 1
    /\ UNCHANGED <<input, sort, st, streams, pkt, pc, sorting, closed>>

\* The packet was read but cannot be written: exit.
MergeFails ==
    /\ pc = "peek" /\ i > streams /\ Seen # {}
    /\ LET f == st[Oldest] IN taken' = [taken EXCEPT ![f] = @ + 1]
    /\ pc' = "failed"
    /\ UNCHANGED <<input, sort, st, streams, pkt, i, merged, sorting, closed>>

\* stream_read tops up its buffer before it gives the packet that was seen,
\* and fails where that does: its result is not looked at and cp is NULL.
ReadFails ==
    /\ pc = "peek" /\ i > streams /\ Seen # {}
    /\ pc' = "failed"
    /\ UNCHANGED <<input, sort, st, streams, taken, pkt, i, merged, sorting, closed>>

\* No packet was found: another turn, or all streams are closed.  Then the
\* file to sort into may not be created.
NoPacket ==
    /\ pc = "peek" /\ i > streams /\ Seen = {}
    /\ i' = 1
    /\ pc' \in IF streams > 0 THEN {"peek"} ELSE IF sort THEN {"sort", "failed"} ELSE {"done"}
    /\ UNCHANGED <<input, sort, st, streams, taken, pkt, merged, sorting, closed>>

-----------------------------------------------------------------------------

\* Where the first packet that was not copied is, from begin on.
Begin ==
    LET left == {n \in begin..Len(merged) : n \notin copied}
    IN  IF left = {} THEN Len(merged) + 1 ELSE CHOOSE n \in left : \A k \in left : n <= k

\* Packets not copied yet.
Left == {n \in Begin..Len(merged) : n \notin copied}

\* Mutant of Smallest: of equal timestamps the last packet is taken.
SmallestLast ==
    CHOOSE n \in Left :
        \A k \in Left : Ts(merged[n]) < Ts(merged[k]) \/ (Ts(merged[n]) = Ts(merged[k]) /\ n >= k)

\* The first packet with the smallest timestamp.
Smallest ==
    CHOOSE n \in Left :
        \A k \in Left : Ts(merged[n]) < Ts(merged[k]) \/ (Ts(merged[n]) = Ts(merged[k]) /\ n <= k)

\* Copy a packet and mark it.  Whether stream_copy fails is not looked at.
SortStep ==
    /\ pc = "sort" /\ Left # {}
    /\ begin' = Begin
    /\ copied' = copied \cup {Smallest}
    /\ \/ result' = Append(result, merged[Smallest]) /\ UNCHANGED lost
       \/ lost' = TRUE /\ UNCHANGED result
    /\ UNCHANGED <<input, sort, st, streams, taken, pkt, i, pc, merged, closed>>

SortDone ==
    /\ pc = "sort" /\ Left = {}
    /\ begin' = Begin
    /\ pc' = "done"
    /\ UNCHANGED <<input, sort, st, streams, taken, pkt, i, merged, copied, result, closed, lost>>

Merging == PeekPacket \/ PeekEnd \/ Merge \/ MergeFails \/ ReadFails \/ NoPacket
Sorting == SortStep \/ SortDone

\* The program has ended.
Exited == pc \in {"done", "failed"} /\ UNCHANGED vars

Next == Merging \/ Sorting \/ Exited

Spec == Init /\ [][Next]_vars

\* The program runs on.
FairSpec == Spec /\ WF_vars(Merging \/ Sorting)

-----------------------------------------------------------------------------

\* The packets stream_peek lets through: those before the first where it fails.
Readable == {p \in UNION {{f} \X DOMAIN input[f] : f \in Files} :
                \A k \in 1..p[2] : input[p[1]][k] # 0}

\* The file that was asked for.
Output == IF sort THEN result ELSE merged

\* Every file is either one of the open streams or was closed, and that once:
\* moving the last stream forward neither forgets a stream nor reads one that
\* is closed.
StreamsAccounted ==
    LET open == {st[n] : n \in 1..streams}
    IN  /\ \A m, n \in 1..streams : st[m] = st[n] => m = n
        /\ open \cap Range(closed) = {}
        /\ open \cup Range(closed) = Files
        /\ IsInjective(closed)

\* When capmerge ends with success and no write has failed, that of the last
\* buffer by fclose included, every readable packet is in the output once, in
\* whatever order the streams ended.
MergeComplete ==
    pc = "done" /\ ~lost => IsInjective(Output) /\ Range(Output) = Readable

InputSorted(f) == \A m, n \in DOMAIN input[f] : m < n => input[f][m] <= input[f][n]

\* The order of a sequence of packets.
InOrder(s) == \A m, n \in DOMAIN s : m < n => Ts(s[m]) <= Ts(s[n])

\* Two sorted files are merged into a sorted one.
TwoFilesSorted == Len(input) <= 2 /\ (\A f \in Files : InputSorted(f)) => InOrder(merged)

\* With --sort the output is sorted from any input, and packets with the same
\* timestamp keep the order in which they were merged.
SortStable ==
    /\ InOrder(result)
    /\ \A m, n \in DOMAIN result :
          m < n /\ Ts(result[m]) = Ts(result[n])
             => \E k, l \in DOMAIN merged : k < l /\ merged[k] = result[m] /\ merged[l] = result[n]

\* capmerge ends, whatever the files are.
Terminates == <>(pc \in {"done", "failed"})

\* man/capmerge.1: sorted files give a sorted output without --sort.
MergeSorted == (\A f \in Files : InputSorted(f)) => InOrder(merged)
=============================================================================
