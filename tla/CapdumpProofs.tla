---------------------------- MODULE CapdumpProofs ---------------------------
(***************************************************************************)
(* The files capdump leaves: the safety properties of Capdump, for every   *)
(* command line, every set of markers and any number of packets.           *)
(*                                                                         *)
(* The inductive invariant has six parts.  TypeInv types the variables,    *)
(* OptionsInv the comment.  StartInv: there is no stream before the loop.  *)
(* WrittenInv numbers what is in the files against what the threads hold.  *)
(* FilesInv ties streams to files.  SingleInv is about a program without   *)
(* --listen, whose only interruption is the signal handler: what the main  *)
(* thread still knows of dst and of the name it has chosen when the        *)
(* handler may have run.                                                   *)
(***************************************************************************)
EXTENDS Capdump, WellFoundedInduction, TLAPS

\* Zenon, then SMT, unless a step says otherwise, with time for the larger steps.
USE ZenonT(10), SMTT(30)

Labels ==
    {"start", "input", "output", "loop", "read", "mark", "name", "load", "closing", "create", "fetch", "write",
     "close", "exit", "aborted", "crashed", "off", "accept", "done"}
Busy == {"mark", "name", "load", "closing", "create", "fetch", "write"}
EventType ==
    [mark : BOOLEAN, key : BOOLEAN, term : BOOLEAN, seq : Nat, comment : Nat, n : Nat, at : Nat,
     via : {"src", "udp", "tcp"}]
Entry == [n : Nat, at : Nat, by : Threads]
Stream ==
    [name : Int \X Int, open : BOOLEAN, ok : BOOLEAN, by : Nat, comment : Nat, fifo : BOOLEAN, saved : BOOLEAN]
Local(a) == a.type \in {"capfile", "fifo"}
Output(a) == a.name \in Int \X Int /\ (Local(a) \/ (a.type \in {"ethernet", "udp", "tcp", "guess"} /\ a.name = NoName))

TypeInv ==
    /\ pc \in [Threads -> Labels]
    /\ ev \in [Threads -> EventType]
    /\ strm \in Seq(Stream)
    /\ dst \in 0..Len(strm)
    /\ reg \in [Threads -> 0..Len(strm)]
    /\ disk \in [Names -> [file : CapFile, pkts : Seq(Entry)]]
    /\ Output(output)
    /\ buffer \in Int \X Int /\ suffix \in Nat /\ count \in Nat
    /\ tcp_buf \in [msg : Message, n : Nat]

OptionsInv == cfg.comment \in Nat

StartInv ==
    pc["main"] \in {"start", "input", "output"} =>
        /\ strm = <<>> /\ dst = 0 /\ pc["tcp"] = "off"
        /\ pc["main"] = "start" => cmd.o \in Seq(Texts) /\ cmd.args \in Seq(Texts)

\* What the threads hold: two things that arrived apart, the TCP thread what is in its
\* buffer.
HeldInv ==
    /\ \A t \in Threads :
          /\ ev[t].at <= count /\ ev[t].n <= ev[t].at
          /\ pc[t] \in Busy => ev[t].at > 0
          /\ \A u \in Threads : u # t /\ ev[t].at > 0 => ev[u].at # ev[t].at
    /\ ev["main"].n = ev["main"].at /\ ev["tcp"].n = tcp_buf.n

\* What a thread has written is not newer than what it handles, and older while it
\* has that still to write.
Behind(p) ==
    /\ p.at > 0 /\ p.n <= p.at /\ (p.by = "main" => p.n = p.at)
    /\ p.at <= ev[p.by].at /\ p.n <= ev[p.by].n /\ (pc[p.by] \in Busy => p.at < ev[p.by].at)
    /\ \A t \in Threads : t # p.by => p.at # ev[t].at

\* No two writes are of the same arrival.
Apart(p, q, same, before) ==
    /\ p.at = q.at => same
    /\ p.by = q.by /\ before => p.at < q.at /\ p.n <= q.n
WrittenInv ==
    /\ HeldInv
    /\ \A x \in Names : \A i \in DOMAIN disk[x].pkts : Behind(disk[x].pkts[i])
    /\ \A x, y \in Names : \A i \in DOMAIN disk[x].pkts : \A j \in DOMAIN disk[y].pkts :
          Apart(disk[x].pkts[i], disk[y].pkts[j], x = y /\ i = j, x = y /\ i < j)

\* s is the last stream of its name.
Latest(s) == \A r \in DOMAIN strm : r > s => strm[r].name # strm[s].name

\* What a stream says about the file of its name, whatever was closed or removed since.
HasFile(s) ==
    /\ strm[s].saved => strm[s].ok /\ ~strm[s].fifo
    /\ strm[s].fifo => strm[s].by = 0
    /\ strm[s].name \in Names /\ ~strm[s].fifo =>
          /\ disk[strm[s].name].file \notin {NoFile, Fifo}
          /\ strm[s].ok /\ Latest(s) => disk[strm[s].name].file = stream_file_create(strm[s].comment)
Unwritten == \A x \in Names : disk[x].file \in {NoFile, Fifo} => disk[x].pkts = <<>>
FilesInv == Unwritten /\ \A s \in DOMAIN strm : HasFile(s)

\* The stream of dst is the last one, it is the only one that can be written to, and
\* it is open until the program ends.
DstInv ==
    /\ pc["tcp"] = "off"
    /\ dst \in {0, Len(strm)}
    /\ \A r \in DOMAIN strm : strm[r].open /\ strm[r].ok => r = dst
    /\ dst # 0 /\ pc["main"] # "exit" => strm[dst].open
    /\ pc["main"] \in {"closing", "write"} => dst \in {0, reg["main"]}
    /\ pc["main"] = "create" => dst = 0

\* The file of a marker is empty only as long as the marker is on its way there.
HeadInv ==
    /\ MarkerHeadsFile
    /\ (dst # 0 /\ strm[dst].by > 0 /\ strm[dst].name \in Names /\ disk[strm[dst].name].pkts = <<>>) =>
          \/ pc["main"] \in {"close", "exit", "crashed", "aborted"}
          \/ pc["main"] \in {"fetch", "write"} /\ ev["main"].n = strm[dst].by

\* The name generate_filename has chosen.
NameInv ==
    pc["main"] \in {"load", "closing", "create"} =>
        /\ buffer # Unset
        /\ cfg.mode = "I" /\ buffer \in Names => disk[buffer].file = NoFile
        /\ cfg.mode = "A" => buffer # output.name

SingleInv == ~cfg.listen => DstInv /\ HeadInv /\ NameInv

CapdumpInv == TypeInv /\ OptionsInv /\ StartInv /\ WrittenInv /\ FilesInv /\ SingleInv

-----------------------------------------------------------------------------
(* generate_filename *)

\* A set of numbers has a smallest.
LEMMA LeastNumber ==
    ASSUME NEW S, S \subseteq Nat, S # {}
    PROVE  \E x \in S : \A y \in S : x <= y
<1>1. PICK x \in S : \A y \in S : ~(<<y, x>> \in OpToRel(<, Nat))
  BY WFMin, NatLessThanWellFounded
<1>2. ASSUME NEW y \in S PROVE x <= y
  <2>1. ~(y < x)
    BY <1>1 DEF OpToRel
  <2> QED
    BY <2>1
<1> QED
  BY <1>2

\* The name found is free, whatever the suffix the search begins with.
LEMMA FreeNameFree ==
    ASSUME NEW seq \in Nat, NEW s \in Nat
    PROVE  /\ FreeName(seq, s) \in Nat
           /\ <<seq, FreeName(seq, s)>> \in Names => ~Exists(<<seq, FreeName(seq, s)>>)
<1>1. CASE ~Exists(<<seq, 0>>)
  BY <1>1 DEF FreeName
<1>2. CASE Exists(<<seq, 0>>)
  <2> DEFINE taken(x) == <<seq, x>> \in Names /\ Exists(<<seq, x>>)
             S == {s} \cup {n[2] + 1 : n \in Names}
             free == {x \in Nat : x >= s /\ ~taken(x)}
             first(x) == x >= s /\ ~taken(x) /\ \A y \in s..x - 1 : taken(y)
  <2>1. free # {}
    <3>1. PICK top \in {0} \cup {n[2] : n \in Names} : \A n \in Names : n[2] <= top
      BY NamesAssumption
    <3>2. top \in Nat
      BY NamesAssumption, SMTT(30)
    <3>3. <<seq, s + top + 1>> \notin Names
      BY <3>1, <3>2
    <3>4. s + top + 1 \in free
      BY <3>2, <3>3, SMTT(30)
    <3> QED
      BY <3>4
  <2>2. PICK x \in free : \A y \in free : x <= y
    <3>1. free \subseteq Nat
      OBVIOUS
    <3> HIDE DEF free
    <3> QED
      BY <2>1, <3>1, LeastNumber
  <2>3. first(x)
    BY <2>2
  <2>4. x \in S
    <3>1. CASE x = s
      BY <3>1
    <3>2. CASE x # s
      <4>1. x - 1 \in s..x - 1 /\ x = (x - 1) + 1
        BY <2>2, <3>2
      <4>2. <<seq, x - 1>> \in Names
        BY <2>3, <4>1
      <4>3. <<seq, x - 1>>[2] + 1 = x
        BY <4>1
      <4> QED
        BY <4>2, <4>3
    <3> QED
      BY <3>1, <3>2
  <2>5. FreeName(seq, s) = CHOOSE y \in S : first(y)
    BY <1>2 DEF FreeName
  <2>6. FreeName(seq, s) \in S /\ first(FreeName(seq, s))
    BY <2>3, <2>4, <2>5
  <2>7. S \subseteq Nat
    BY NamesAssumption, SMTT(30)
  <2> QED
    BY <2>6, <2>7
<1> QED
  BY <1>1, <1>2

-----------------------------------------------------------------------------
(* The files and streams a step leaves *)

LEMMA FilesTyped ==
    /\ NoFile \in CapFile /\ EmptyFile \in CapFile /\ Fifo \in CapFile
    /\ \A c \in Nat : stream_file_create(c) \in CapFile
<1>1. NoFile \in CapFile /\ EmptyFile \in CapFile /\ Fifo \in CapFile
  BY DEF NoFile, EmptyFile, Fifo, Headless, CapFile
<1>2. ASSUME NEW c \in Nat PROVE stream_file_create(c) \in CapFile
  <2>1. HEADER + c \in Int /\ c % UINT16 \in Nat
    BY HeaderAssumption, SMT DEF UINT16
  <2> QED
    BY <2>1, HeaderAssumption DEF CapFile, stream_file_create
<1> QED
  BY <1>1, <1>2

LEMMA MadeFiles ==
    /\ \A c \in Nat : stream_file_create(c) \notin {NoFile, Fifo}
    /\ EmptyFile \notin {NoFile, Fifo} /\ NoFile # Fifo
<1>1. NoFile.size = -1 /\ Fifo.size = -2 /\ EmptyFile.size = 0
  BY DEF NoFile, EmptyFile, Fifo, Headless
<1>2. ASSUME NEW c \in Nat PROVE stream_file_create(c).size \notin {-1, -2}
  BY HeaderAssumption, SMTT(30) DEF stream_file_create
<1> QED
  BY <1>1, <1>2

\* The address of the command line is a file or has no name.
LEMMA AddressTyped ==
    ASSUME NEW t \in Texts
    PROVE  Output(stream_addr_aton(t).addr)
<1> NoName \in Int \X Int
  BY DEF NoName
<1> QED
  BY DEF Texts, Output, Local, stream_addr_aton, AtonInet, AtonEthernet, AtonFile, NetAddr, FileAddr

LEMMA LocalTyped ==
    ASSUME NEW x \in Int \X Int, NEW F
    PROVE  /\ Output(stream_addr_str(x, F, FALSE)) /\ stream_addr_str(x, F, FALSE).type = "capfile"
           /\ stream_addr_str(x, F, FALSE).name = x
  BY DEF stream_addr_str, FileAddr, Output, Local

\* An address with a name is that of a file.
LEMMA NamedLocal ==
    ASSUME NEW a, Output(a), a.name \in Names
    PROVE  Local(a)
<1>1. NoName \notin Names
  BY NamesAssumption DEF NoName
<1> QED
  BY <1>1 DEF Output, Local

NewStream(a, ret, c, by) ==
    [name |-> a.name, open |-> TRUE, ok |-> ret = "ok", by |-> by, comment |-> c, fifo |-> a.type = "fifo",
     saved |-> FALSE]

\* The file of the name of a new stream.
NewFile(a, ret, c, f) ==
    IF a.type = "fifo" THEN f = Fifo
    ELSE f \notin {NoFile, Fifo} /\ (ret = "ok" => f = stream_file_create(c))

\* A stream is created and the file is empty, or no more than a file happens.
LEMMA Creates ==
    ASSUME TypeInv, NEW a, Output(a), NEW ret, NEW c \in Nat, NEW by \in Nat, Create(a, ret, c, by)
    PROVE  /\ \/ ret \notin {"ok", "EIO"} /\ strm' = strm /\ dst' = 0
              \/ /\ ret \in {"ok", "EIO"}
                 /\ strm' = Append(strm, NewStream(a, ret, c, by)) /\ strm' \in Seq(Stream)
                 /\ dst' = Len(strm) + 1
           /\ \/ /\ disk' = disk
                 /\ ret \notin {"ok", "EIO"} \/ a.name \notin Names \/ (a.type = "fifo" /\ ret # "ok")
              \/ /\ ret \in {"ok", "EIO"} /\ a.name \in Names
                 /\ \E f \in CapFile :
                       disk' = [disk EXCEPT ![a.name] = [file |-> f, pkts |-> <<>>]] /\ NewFile(a, ret, c, f)
<1> DEFINE f == IF ret = "ok" THEN stream_file_create(c) ELSE EmptyFile
<1>1. f \in CapFile /\ f \notin {NoFile, Fifo} /\ Fifo \in CapFile
  BY FilesTyped, MadeFiles
<1>2. disk' = IF a.name \in Names /\ a.type = "capfile" /\ ret \in {"ok", "EIO"}
              THEN [disk EXCEPT ![a.name] = [file |-> f, pkts |-> <<>>]]
              ELSE IF a.name \in Names /\ a.type = "fifo" /\ ret = "ok"
              THEN [disk EXCEPT ![a.name] = [file |-> Fifo, pkts |-> <<>>]]
              ELSE disk
  BY DEF Create
<1>3. ret = "ok" => f = stream_file_create(c)
  OBVIOUS
<1> HIDE DEF f
<1>4. a.name \in Names => a.type \in {"capfile", "fifo"}
  BY NamedLocal DEF Local
<1>5. \/ /\ disk' = disk
         /\ ret \notin {"ok", "EIO"} \/ a.name \notin Names \/ (a.type = "fifo" /\ ret # "ok")
      \/ /\ ret \in {"ok", "EIO"} /\ a.name \in Names
         /\ \E g \in CapFile :
               disk' = [disk EXCEPT ![a.name] = [file |-> g, pkts |-> <<>>]] /\ NewFile(a, ret, c, g)
  <2>1. CASE a.name \in Names /\ a.type = "capfile" /\ ret \in {"ok", "EIO"}
    <3>1. disk' = [disk EXCEPT ![a.name] = [file |-> f, pkts |-> <<>>]]
      BY <1>2, <2>1
    <3>2. NewFile(a, ret, c, f)
      BY <1>1, <1>3, <2>1 DEF NewFile
    <3> QED
      BY <1>1, <2>1, <3>1, <3>2
  <2>2. CASE a.name \in Names /\ a.type = "fifo" /\ ret = "ok"
    <3>1. disk' = [disk EXCEPT ![a.name] = [file |-> Fifo, pkts |-> <<>>]]
      BY <1>2, <2>2
    <3>2. NewFile(a, ret, c, Fifo)
      BY <2>2 DEF NewFile
    <3> QED
      BY <1>1, <2>2, <3>1, <3>2
  <2>3. CASE /\ ~(a.name \in Names /\ a.type = "capfile" /\ ret \in {"ok", "EIO"})
             /\ ~(a.name \in Names /\ a.type = "fifo" /\ ret = "ok")
    BY <1>2, <1>4, <2>3
  <2> QED
    BY <2>1, <2>2, <2>3
<1>6. CASE ret \notin {"ok", "EIO"}
  <2>1. strm' = strm /\ dst' = 0
    BY <1>6 DEF Create
  <2> QED
    BY <1>5, <1>6, <2>1
<1>7. CASE ret \in {"ok", "EIO"}
  <2>1. strm' = Append(strm, NewStream(a, ret, c, by)) /\ dst' = Len(strm) + 1
    BY <1>7 DEF Create, NewStream
  <2>2. NewStream(a, ret, c, by) \in Stream
    BY DEF Output, Stream, NewStream
  <2>3. strm' \in Seq(Stream)
    BY <2>1, <2>2, SMTT(30) DEF TypeInv
  <2> QED
    BY <1>5, <1>7, <2>1, <2>3
<1> QED
  BY <1>6, <1>7

LEMMA CreatesTyped ==
    ASSUME TypeInv, NEW a, Output(a), NEW ret, NEW c \in Nat, NEW by \in Nat, Create(a, ret, c, by)
    PROVE  /\ strm' \in Seq(Stream) /\ dst' \in 0..Len(strm') /\ Len(strm') >= Len(strm)
           /\ disk' \in [Names -> [file : CapFile, pkts : Seq(Entry)]]
<1>1. strm' \in Seq(Stream) /\ dst' \in 0..Len(strm') /\ Len(strm') >= Len(strm)
  <2>1. CASE strm' = strm /\ dst' = 0
    BY <2>1, SMTT(30) DEF TypeInv
  <2>2. CASE strm' = Append(strm, NewStream(a, ret, c, by)) /\ strm' \in Seq(Stream) /\ dst' = Len(strm) + 1
    <3>1. Len(strm') = Len(strm) + 1 /\ Len(strm) \in Nat
      BY <2>2, SMTT(30) DEF TypeInv
    <3> QED
      BY <2>2, <3>1, SMTT(30)
  <2> QED
    BY <2>1, <2>2, Creates
<1>2. disk' \in [Names -> [file : CapFile, pkts : Seq(Entry)]]
  <2> DEFINE F == [file : CapFile, pkts : Seq(Entry)]
  <2>1. \A f \in CapFile : [file |-> f, pkts |-> <<>>] \in F
    OBVIOUS
  <2>2. disk \in [Names -> F]
    BY DEF TypeInv
  <2> HIDE DEF F
  <2>3. disk' = disk \/ \E f \in CapFile : disk' = [disk EXCEPT ![a.name] = [file |-> f, pkts |-> <<>>]]
    BY Creates
  <2>4. disk' \in [Names -> F]
    BY <2>1, <2>2, <2>3
  <2> QED
    BY <2>4 DEF F
<1> QED
  BY <1>1, <1>2

-----------------------------------------------------------------------------
(* TypeInv, OptionsInv and StartInv *)

LEMMA TypeInit == Init => TypeInv /\ OptionsInv /\ StartInv
<1> SUFFICES ASSUME Init PROVE TypeInv /\ OptionsInv /\ StartInv
  OBVIOUS
<1>1. disk \in [Names -> [file : CapFile, pkts : Seq(Entry)]]
  BY FilesTyped, FilesAssumption DEF Init
<1>2. Output(output)
  BY DEF Init, Output, Local, NoAddr
<1>3. pc \in [Threads -> Labels] /\ pc["main"] = "start" /\ pc["tcp"] = "off"
  BY DEF Init, Threads, Labels
<1>4. ev \in [Threads -> EventType] /\ tcp_buf \in [msg : Message, n : Nat]
  BY DEF Init, Event, Blank, EventType, Message
<1>5. cmd.o \in Seq(Texts) /\ cmd.args \in Seq(Texts) /\ OptionsInv
  BY InvocationsAssumption DEF Init, OptionsInv
<1>6. strm = <<>> /\ dst = 0 /\ reg \in [Threads -> 0..Len(strm)] /\ buffer \in Int \X Int /\ suffix \in Nat /\ count \in Nat
  BY DEF Init, Unset
<1> QED
  BY <1>1, <1>2, <1>3, <1>4, <1>5, <1>6, SMTT(30) DEF TypeInv, StartInv

LEMMA TypeDeliver ==
    ASSUME TypeInv, NEW t \in Threads, NEW m \in Message, NEW n \in Nat, NEW via \in {"src", "udp", "tcp"},
           Deliver(t, m, n, via)
    PROVE  /\ count' = count + 1 /\ count' \in Nat
           /\ ev' = [ev EXCEPT ![t] = Event(m, n, count + 1, via)] /\ ev' \in [Threads -> EventType]
           /\ pc' = [pc EXCEPT ![t] = "mark"] /\ pc' \in [Threads -> Labels]
<1>1. Event(m, n, count + 1, via) \in EventType
  BY SMTT(30) DEF TypeInv, Event, EventType, Message
<1> QED
  BY <1>1, SMTT(30) DEF TypeInv, Deliver, Goto, Labels

\* What a thread delivers, and the number it has.
LEMMA Arrives ==
    ASSUME TypeInv, NEW m \in Markers
    PROVE  /\ m \in Message /\ tcp_buf.msg \in Message /\ tcp_buf.n \in Nat /\ count + 1 \in Nat
           /\ "main" \in Threads /\ "tcp" \in Threads
<1>1. count + 1 \in Nat
  BY SMTT(30) DEF TypeInv
<1> QED
  BY <1>1, MarkersAssumption DEF TypeInv, Threads

LEMMA MemoryTyped ==
    ASSUME TypeInv, NEW r \in 0..Len(strm), NEW s \in Memory(r)
    PROVE  s \in 0..Len(strm)
<1>1. DOMAIN strm = 1..Len(strm) /\ Len(strm) \in Nat
  BY SMTT(30) DEF TypeInv
<1>2. s = r \/ s \in DOMAIN strm
  BY DEF Memory
<1> QED
  BY <1>1, <1>2, SMTT(30)

\* Closing changes no more than whether the stream is open and what it has saved.
ClosedAt(s, r) ==
    /\ strm'[r].name = strm[r].name /\ strm'[r].ok = strm[r].ok /\ strm'[r].by = strm[r].by
    /\ strm'[r].comment = strm[r].comment /\ strm'[r].fifo = strm[r].fifo
    /\ strm'[r].open <=> strm[r].open /\ ~(r = s /\ strm[r].ok)
    /\ strm'[r].saved => strm[r].saved \/ (strm[r].ok /\ ~strm[r].fifo)

\* It may remove a FIFO, and changes no file.
Removed(x) == disk[x].file = Fifo /\ disk'[x] = Absent

LEMMA Closes ==
    ASSUME TypeInv, NEW s \in 0..Len(strm), CloseStream(s)
    PROVE  /\ strm' \in Seq(Stream) /\ Len(strm') = Len(strm) /\ DOMAIN strm' = DOMAIN strm
           /\ \A r \in DOMAIN strm : ClosedAt(s, r)
           /\ disk' \in [Names -> [file : CapFile, pkts : Seq(Entry)]]
           /\ \A x \in Names : disk'[x] = disk[x] \/ Removed(x)
<1>0. strm \in Seq(Stream) /\ DOMAIN strm = 1..Len(strm) /\ Len(strm) \in Nat
  BY SMTT(30) DEF TypeInv
<1>1. CASE s # 0 /\ ~Stale(s) /\ strm[s].ok
  <2>1. PICK flushed \in BOOLEAN :
           strm' = [strm EXCEPT ![s] = [@ EXCEPT !.open = FALSE, !.saved = flushed /\ ~strm[s].fifo]]
    BY <1>1 DEF CloseStream
  <2> DEFINE c == [strm[s] EXCEPT !.open = FALSE, !.saved = flushed /\ ~strm[s].fifo]
  <2>2. s \in 1..Len(strm) /\ strm[s] \in Stream
    BY <1>0, <1>1, SMTT(30)
  <2>3. strm' = [strm EXCEPT ![s] = c]
    BY <2>1
  <2>4. /\ c \in Stream /\ c.name = strm[s].name /\ c.ok = strm[s].ok /\ c.by = strm[s].by /\ c.open = FALSE
        /\ c.comment = strm[s].comment /\ c.fifo = strm[s].fifo /\ (c.saved => ~strm[s].fifo)
    BY <2>2 DEF Stream
  <2> HIDE DEF c
  <2>5. /\ strm' \in Seq(Stream) /\ Len(strm') = Len(strm) /\ DOMAIN strm' = DOMAIN strm
        /\ strm'[s] = c /\ \A r \in DOMAIN strm : r # s => strm'[r] = strm[r]
    BY <1>0, <2>2, <2>3, <2>4
  <2>6. ASSUME NEW r \in DOMAIN strm PROVE ClosedAt(s, r)
    BY <1>1, <2>4, <2>5 DEF ClosedAt
  <2>7. disk' = [x \in Names |-> IF x = strm[s].name /\ disk[x].file = Fifo THEN Absent ELSE disk[x]]
    BY <1>1 DEF CloseStream
  <2>8. \A x \in Names : disk'[x] = disk[x] \/ Removed(x)
    BY <2>7 DEF Removed
  <2>9. disk' \in [Names -> [file : CapFile, pkts : Seq(Entry)]]
    <3> DEFINE F == [file : CapFile, pkts : Seq(Entry)]
    <3>1. Absent \in F /\ disk \in [Names -> F]
      BY FilesTyped, SMTT(30) DEF Absent, TypeInv
    <3> HIDE DEF F
    <3>2. disk' \in [Names -> F]
      BY <2>7, <3>1
    <3> QED
      BY <3>2 DEF F
  <2> QED
    BY <2>5, <2>6, <2>8, <2>9
<1>2. CASE s = 0 \/ Stale(s) \/ ~strm[s].ok
  <2>1. strm' = strm /\ disk' = disk
    BY <1>2 DEF CloseStream
  <2>4. 0 \notin DOMAIN strm
    BY <1>0, SMTT(30)
  <2>2. ASSUME NEW r \in DOMAIN strm PROVE ClosedAt(s, r)
    BY <1>2, <2>1, <2>4 DEF ClosedAt, Stale
  <2>3. disk' \in [Names -> [file : CapFile, pkts : Seq(Entry)]]
    BY <2>1 DEF TypeInv
  <2> QED
    BY <1>0, <2>1, <2>2, <2>3
<1> QED
  BY <1>1, <1>2

\* Where a thread goes on from a write.
LEMMA WrittenLabel == \A t \in Threads : Written(t) \in {"accept", "read", "close", "loop"}
  BY DEF Written

\* A write appends to the file of an open stream, or leaves the files alone.
Open(s) == s \in DOMAIN strm /\ strm[s].open /\ strm[s].ok
NoEntry(t, s) ==
    /\ disk' = disk
    /\ \/ pc' = [pc EXCEPT ![t] = Written(t)] /\ (s = 0 \/ Stale(s))
       \/ pc' = [pc EXCEPT !["main"] = "crashed"]
       \/ pc' = [pc EXCEPT ![t] = IF t = "main" THEN "close" ELSE "done"]
       \/ pc' = [pc EXCEPT ![t] = Written(t)] /\ Open(s) /\ (strm[s].name \notin Names \/ strm[s].fifo)
EntryOf(t) == [n |-> ev[t].n, at |-> ev[t].at, by |-> t]
WithEntry(x, e) == [disk EXCEPT ![x] = [file |-> disk[x].file, pkts |-> Append(disk[x].pkts, e)]]
AddsEntry(t, s) ==
    /\ Open(s) /\ strm[s].name \in Names /\ ~strm[s].fifo
    /\ pc' = [pc EXCEPT ![t] = Written(t)]
    /\ disk' = WithEntry(strm[s].name, EntryOf(t))

LEMMA Writes ==
    ASSUME TypeInv, NEW t \in Threads, Write(t)
    PROVE  /\ ev' = ev /\ reg' = [reg EXCEPT ![t] = 0] /\ dst' = dst /\ strm' = strm /\ count' = count
           /\ tcp_buf' = tcp_buf /\ pc[t] = "write"
           /\ \E s \in Memory(reg[t]) : NoEntry(t, s) \/ AddsEntry(t, s)
<1>1. /\ ev' = ev /\ reg' = [reg EXCEPT ![t] = 0] /\ dst' = dst /\ strm' = strm /\ count' = count
      /\ tcp_buf' = tcp_buf /\ pc[t] = "write"
  BY DEF Write
<1> DEFINE e == EntryOf(t)
           x(s) == strm[s].name
<1> HIDE DEF e
<1>2. PICK s \in Memory(reg[t]) :
         \/ (s = 0 \/ Stale(s)) /\ Goto(t, Written(t)) /\ UNCHANGED disk
         \/ Crash /\ UNCHANGED disk
         \/ Failed(t) /\ UNCHANGED disk
         \/ /\ s # 0 /\ strm[s].open /\ strm[s].ok /\ Goto(t, Written(t))
            /\ disk' = IF x(s) \in Names /\ ~strm[s].fifo THEN [disk EXCEPT ![x(s)].pkts = Append(@, e)] ELSE disk
  BY DEF Write, EntryOf, e
<1> HIDE DEF x
<1>3. s # 0 => s \in DOMAIN strm
  <2>1. reg[t] \in 0..Len(strm) /\ DOMAIN strm = 1..Len(strm) /\ Len(strm) \in Nat
    BY SMTT(30) DEF TypeInv
  <2>2. s \in 0..Len(strm)
    BY <2>1, MemoryTyped
  <2> QED
    BY <2>1, <2>2, SMTT(30)
<1>4. x(s) \in Names => [disk EXCEPT ![x(s)].pkts = Append(@, e)] = WithEntry(x(s), e)
  <2> DEFINE p == Append(disk[x(s)].pkts, e)
  <2>1. [disk EXCEPT ![x(s)].pkts = Append(@, e)] = [disk EXCEPT ![x(s)] = [disk[x(s)] EXCEPT !.pkts = p]]
    OBVIOUS
  <2> HIDE DEF p
  <2>2. x(s) \in Names => [disk[x(s)] EXCEPT !.pkts = p] = [file |-> disk[x(s)].file, pkts |-> p]
    BY SMTT(30) DEF TypeInv
  <2> QED
    BY <2>1, <2>2 DEF p, WithEntry
<1>5. NoEntry(t, s) \/ AddsEntry(t, s)
  BY <1>2, <1>3, <1>4 DEF NoEntry, AddsEntry, Open, Goto, Crash, Failed, x, e
<1> QED
  BY <1>1, <1>5

\* open_next creates the output for what is in the buffer.
ByMarker(t) == IF ev[t].via = "src" THEN ev[t].n ELSE 0
CommentOf(t) == IF cfg.marker_comment THEN ev[t].comment ELSE cfg.comment
LEMMA Opens ==
    ASSUME TypeInv, OptionsInv, NEW t \in Threads, OpenNext(t)
    PROVE  /\ output' = stream_addr_str(buffer, {"DUPLICATE"}, FALSE) /\ Output(output') /\ output'.name = buffer
           /\ output'.type = "capfile" /\ ByMarker(t) \in Nat /\ CommentOf(t) \in Nat
           /\ \E o : Create(output', o.ret, CommentOf(t), ByMarker(t)) /\ (Goto(t, "fetch") \/ Failed(t))
<1>1. output' = stream_addr_str(buffer, {"DUPLICATE"}, FALSE) /\ buffer \in Int \X Int
  BY DEF OpenNext, TypeInv
<1>2. ByMarker(t) \in Nat /\ CommentOf(t) \in Nat
  BY DEF TypeInv, OptionsInv, EventType, ByMarker, CommentOf
<1>3. \E o : Create(output', o.ret, CommentOf(t), ByMarker(t)) /\ (Goto(t, "fetch") \/ Failed(t))
  BY DEF OpenNext, Handled, ByMarker, CommentOf
<1> QED
  BY <1>1, <1>2, <1>3, LocalTyped

LEMMA CfgStays == ASSUME Next PROVE cfg' = cfg
<1> USE DEF startup, signals, naming
<1>1. ASSUME NEW t, Handle(t) PROVE cfg' = cfg
  BY <1>1 DEF Handle, HandleMarker, GenerateFilename, LoadOld, CloseOld, OpenNext, Fetch, Write
<1>2. ASSUME NEW m, HandleUdp(m) \/ ReadPacket(m) \/ TcpAccept(m) PROVE cfg' = cfg
  BY <1>2 DEF HandleUdp, ReadPacket, TcpAccept
<1>3. CASE ParseOutput \/ OpenInput \/ CreateOutput \/ UdpError \/ LoopHead \/ ReadNothing \/ ReadEnds \/ Close
  BY <1>3 DEF ParseOutput, OpenInput, CreateOutput, UdpError, LoopHead, ReadNothing, ReadEnds, Close
<1>4. CASE TcpEmpty \/ TcpStops \/ TcpError \/ Alarm \/ Sigint \/ Ended
  BY <1>4 DEF TcpEmpty, TcpStops, TcpError, Alarm, Sigint, Ended, vars
<1> QED
  BY <1>1, <1>2, <1>3, <1>4 DEF Next, MainStep, TcpStep

LEMMA TypeStep ==
    ASSUME TypeInv, OptionsInv, StartInv, Next
    PROVE  TypeInv'
<1> USE DEF startup, signals, naming
<1> DEFINE Same == UNCHANGED <<ev, strm, dst, reg, disk, output, buffer, suffix, count, tcp_buf>>
<1>0. Same /\ pc' \in [Threads -> Labels] => TypeInv'
  BY DEF TypeInv
<1> HIDE DEF Same
<1>1. CASE ParseOutput
  <2>1. cmd.o \in Seq(Texts) /\ cmd.args \in Seq(Texts)
    BY <1>1 DEF ParseOutput, StartInv
  <2> DEFINE o == IF cmd.o = <<>> THEN NoAddr ELSE stream_addr_aton(cmd.o[1]).addr
             n == Len(cmd.args)
  <2>2. Output(o)
    <3>1. Output(NoAddr)
      BY DEF NoAddr, Output, Local
    <3>2. cmd.o # <<>> => cmd.o[1] \in Texts
      BY <2>1
    <3> QED
      BY <3>1, <3>2, AddressTyped
  <2>3. n > 0 => Output(stream_addr_aton(cmd.args[n]).addr)
    <3>1. n > 0 => cmd.args[n] \in Texts
      BY <2>1
    <3> QED
      BY <3>1, AddressTyped
  <2>4. Output(stream_addr_str(Stdout, {}, FALSE))
    <3>1. Stdout \in Int \X Int
      BY DEF Stdout
    <3> QED
      BY <3>1, LocalTyped
  <2>5. output' = IF stream_addr_is_set(o) THEN o
                  ELSE IF ~cmd.stdout_tty THEN stream_addr_str(Stdout, {}, FALSE)
                  ELSE IF n > 0 THEN stream_addr_aton(cmd.args[n]).addr ELSE o
    BY <1>1 DEF ParseOutput
  <2>6. Output(output')
    <3> HIDE DEF o, n
    <3> QED
      BY <2>2, <2>3, <2>4, <2>5
  <2>7. pc' \in [Threads -> Labels]
    BY <1>1 DEF ParseOutput, TypeInv, Goto, Labels, Threads
  <2>8. UNCHANGED <<ev, strm, dst, reg, disk, buffer, suffix, count, tcp_buf>>
    BY <1>1 DEF ParseOutput
  <2> QED
    BY <2>6, <2>7, <2>8 DEF TypeInv, Output, Local
<1>2. CASE OpenInput
  <2>1. pc' \in [Threads -> Labels]
    BY <1>2 DEF OpenInput, TypeInv, Goto, Labels, Threads
  <2> QED
    BY <1>0, <1>2, <2>1 DEF OpenInput, Same
<1>3. CASE CreateOutput
  <2>1. PICK o : /\ Create(output, o.ret, cfg.comment, 0)
                 /\ \/ Goto("main", "exit")
                    \/ Crash
                    \/ pc' = [pc EXCEPT !["main"] = "loop", !["tcp"] = IF cfg.listen THEN "accept" ELSE "off"]
    BY <1>3 DEF CreateOutput
  <2>2. pc' \in [Threads -> Labels]
    BY <2>1 DEF TypeInv, Goto, Crash, Labels, Threads
  <2>3. /\ strm' \in Seq(Stream) /\ dst' \in 0..Len(strm') /\ Len(strm') >= Len(strm)
        /\ disk' \in [Names -> [file : CapFile, pkts : Seq(Entry)]]
    BY <2>1, CreatesTyped DEF TypeInv, OptionsInv
  <2>4. UNCHANGED <<ev, reg, output, buffer, suffix, count, tcp_buf>>
    BY <1>3 DEF CreateOutput
  <2>5. reg' \in [Threads -> 0..Len(strm')]
    BY <2>3, <2>4, SMTT(30) DEF TypeInv
  <2> QED
    BY <2>2, <2>3, <2>4, <2>5 DEF TypeInv
<1>4. CASE UdpError \/ LoopHead \/ ReadNothing \/ ReadEnds \/ TcpStops \/ TcpError
  <2>1. pc' \in [Threads -> Labels]
    BY <1>4, SMTT(30) DEF UdpError, LoopHead, ReadNothing, ReadEnds, TcpStops, TcpError, TypeInv, Goto, Interrupted, Labels, Threads
  <2> QED
    BY <1>0, <1>4, <2>1 DEF UdpError, LoopHead, ReadNothing, ReadEnds, TcpStops, TcpError, Same
<1>5. ASSUME NEW m \in Markers, HandleUdp(m) \/ ReadPacket(m) PROVE TypeInv'
  <2>1. PICK via \in {"src", "udp"} : Deliver("main", m, count + 1, via)
    BY <1>5 DEF HandleUdp, ReadPacket
  <2>2. count' \in Nat /\ ev' \in [Threads -> EventType] /\ pc' \in [Threads -> Labels]
    BY <2>1, Arrives, TypeDeliver
  <2> QED
    BY <1>5, <2>2 DEF HandleUdp, ReadPacket, TypeInv
<1>6. ASSUME NEW m \in Markers, TcpAccept(m) PROVE TypeInv'
  <2>1. Deliver("tcp", m, count + 1, "tcp") /\ tcp_buf' = [msg |-> m, n |-> count + 1]
    BY <1>6 DEF TcpAccept
  <2>2. count' \in Nat /\ ev' \in [Threads -> EventType] /\ pc' \in [Threads -> Labels]
    BY <2>1, Arrives, TypeDeliver
  <2>3. tcp_buf' \in [msg : Message, n : Nat]
    BY <2>1, Arrives
  <2> QED
    BY <1>6, <2>2, <2>3 DEF TcpAccept, TypeInv
<1>12. CASE TcpEmpty
  <2>1. Deliver("tcp", tcp_buf.msg, tcp_buf.n, "tcp")
    BY <1>12 DEF TcpEmpty
  <2>2. tcp_buf.msg \in Message /\ tcp_buf.n \in Nat /\ "tcp" \in Threads
    BY DEF TypeInv, Threads
  <2>3. count' \in Nat /\ ev' \in [Threads -> EventType] /\ pc' \in [Threads -> Labels]
    BY <2>1, <2>2, TypeDeliver
  <2> QED
    BY <1>12, <2>3 DEF TcpEmpty, TypeInv
<1>7. ASSUME NEW t \in Threads, Handle(t) PROVE TypeInv'
  <2>1. CASE HandleMarker(t)
    <3>1. pc' \in [Threads -> Labels]
      BY <2>1, SMTT(30) DEF HandleMarker, Arrived, Failed, Crash, TypeInv, Goto, Labels, Threads
    <3> QED
      BY <1>0, <2>1, <3>1 DEF HandleMarker, Same
  <2>2. CASE GenerateFilename(t)
    <3>1. pc' \in [Threads -> Labels]
      BY <2>2, SMTT(30) DEF GenerateFilename, Crash, TypeInv, Goto, Labels, Threads
    <3>2. ev[t].seq \in Nat /\ suffix \in Nat
      BY DEF TypeInv, EventType
    <3> DEFINE x == IF cfg.mode = "I" THEN FreeName(ev[t].seq, suffix) ELSE 0
    <3>3. x \in Nat
      BY <3>2, FreeNameFree
    <3>4. buffer' = <<ev[t].seq, x>> /\ suffix' = IF x > 0 THEN x + 1 ELSE suffix
      BY <2>2 DEF GenerateFilename
    <3> HIDE DEF x
    <3>5. buffer' \in Int \X Int /\ suffix' \in Nat
      BY <3>2, <3>3, <3>4
    <3>6. UNCHANGED <<ev, reg, strm, dst, disk, output, count, tcp_buf>>
      BY <2>2 DEF GenerateFilename
    <3> QED
      BY <3>1, <3>5, <3>6 DEF TypeInv
  <2>3. CASE CloseOld(t)
    <3>1. pc' \in [Threads -> Labels]
      BY <2>3 DEF CloseOld, Crash, TypeInv, Goto, Labels, Threads
    <3>2. PICK s \in Memory(reg[t]) : CloseStream(s)
      BY <2>3 DEF CloseOld
    <3>3. s \in 0..Len(strm)
      BY MemoryTyped DEF TypeInv
    <3>4. strm' \in Seq(Stream) /\ Len(strm') = Len(strm) /\ disk' \in [Names -> [file : CapFile, pkts : Seq(Entry)]]
      BY <3>2, <3>3, Closes
    <3>5. dst' = 0 /\ reg' = [reg EXCEPT ![t] = 0] /\ UNCHANGED <<ev, output, buffer, suffix, count, tcp_buf>>
      BY <2>3 DEF CloseOld
    <3>6. Len(strm) \in Nat /\ reg' \in [Threads -> 0..Len(strm)]
      BY <3>5, SMTT(30) DEF TypeInv
    <3> QED
      BY <3>1, <3>4, <3>5, <3>6, SMTT(30) DEF TypeInv
  <2>4. CASE OpenNext(t)
    <3>1. PICK o : /\ Create(output', o.ret, CommentOf(t), ByMarker(t)) /\ (Goto(t, "fetch") \/ Failed(t))
                   /\ Output(output') /\ ByMarker(t) \in Nat /\ CommentOf(t) \in Nat
      BY <2>4, Opens
    <3>2. pc' \in [Threads -> Labels]
      BY <3>1 DEF TypeInv, Goto, Failed, Labels, Threads
    <3>3. /\ strm' \in Seq(Stream) /\ dst' \in 0..Len(strm') /\ Len(strm') >= Len(strm)
          /\ disk' \in [Names -> [file : CapFile, pkts : Seq(Entry)]]
      BY <3>1, CreatesTyped
    <3>4. UNCHANGED <<ev, reg, buffer, suffix, count, tcp_buf>>
      BY <2>4 DEF OpenNext
    <3>5. reg' \in [Threads -> 0..Len(strm')]
      BY <3>3, <3>4, SMTT(30) DEF TypeInv
    <3>6. Output(output)'
      BY <3>1 DEF Output, Local
    <3> QED
      BY <3>2, <3>3, <3>4, <3>5, <3>6 DEF TypeInv
  <2>5. CASE Fetch(t) \/ LoadOld(t)
    <3>1. /\ reg' = [reg EXCEPT ![t] = dst] /\ \E l \in Labels : pc' = [pc EXCEPT ![t] = l]
          /\ UNCHANGED <<ev, strm, dst, disk, output, buffer, suffix, count, tcp_buf>>
      BY <2>5 DEF Fetch, LoadOld, Goto, Labels
    <3> QED
      BY <3>1 DEF TypeInv
  <2>6. CASE Write(t)
    <3>1. pc' \in [Threads -> Labels]
      <4>1. \E l \in Labels, u \in Threads : pc' = [pc EXCEPT ![u] = l]
        BY <2>6, Writes, WrittenLabel DEF NoEntry, AddsEntry, Labels, Threads
      <4> QED
        BY <4>1 DEF TypeInv
    <3>2. EntryOf(t) \in Entry
      BY DEF TypeInv, EventType, Entry, EntryOf
    <3>3. disk' \in [Names -> [file : CapFile, pkts : Seq(Entry)]]
      <4> DEFINE F == [file : CapFile, pkts : Seq(Entry)]
                 e == EntryOf(t)
      <4> HIDE DEF F, e
      <4>1. disk \in [Names -> F]
        BY DEF TypeInv, F
      <4>2. ASSUME NEW x \in Names PROVE [file |-> disk[x].file, pkts |-> Append(disk[x].pkts, e)] \in F
        <5>1. disk[x].file \in CapFile /\ disk[x].pkts \in Seq(Entry)
          BY <4>1 DEF F
        <5>2. Append(disk[x].pkts, e) \in Seq(Entry)
          BY <3>2, <5>1 DEF e
        <5> QED
          BY <5>1, <5>2 DEF F
      <4>3. disk' = disk \/ \E x \in Names : disk' = WithEntry(x, e)
        BY <2>6, Writes DEF NoEntry, AddsEntry, e
      <4>4. disk' \in [Names -> F]
        BY <4>1, <4>2, <4>3 DEF WithEntry
      <4> QED
        BY <4>4 DEF F
    <3>4. UNCHANGED <<ev, strm, dst, output, buffer, suffix, count, tcp_buf>> /\ reg' = [reg EXCEPT ![t] = 0]
      BY <2>6 DEF Write
    <3>6. reg' \in [Threads -> 0..Len(strm)]
      BY <3>4, SMTT(30) DEF TypeInv
    <3>5. Output(output)'
      BY <3>4 DEF TypeInv, Output, Local
    <3> QED
      BY <3>1, <3>3, <3>4, <3>5, <3>6 DEF TypeInv
  <2> QED
    BY <1>7, <2>1, <2>2, <2>3, <2>4, <2>5, <2>6 DEF Handle
<1>8. CASE Alarm
  <2>1. pc' \in [Threads -> Labels] /\ UNCHANGED <<ev, reg, buffer, suffix, tcp_buf, count>>
    <3>1. pc' = pc \/ pc' = [pc EXCEPT !["main"] = "crashed"]
      BY <1>8 DEF Alarm, Crash, Goto
    <3>2. pc' \in [Threads -> Labels]
      BY <3>1 DEF TypeInv, Labels, Threads
    <3> QED
      BY <1>8, <3>2 DEF Alarm
  <2>2. output' = output \/ output' = stream_addr_str(Unset, {}, FALSE)
    BY <1>8 DEF Alarm
  <2>3. Output(output')
    <3>1. Output(stream_addr_str(Unset, {}, FALSE))
      <4>1. Unset \in Int \X Int
        BY DEF Unset
      <4> QED
        BY <4>1, LocalTyped
    <3>2. Output(output)
      BY DEF TypeInv
    <3> QED
      BY <2>2, <3>1, <3>2
  <2>4. ((\E s \in Memory(dst) : CloseStream(s)) /\ dst' = 0) \/ UNCHANGED <<dst, strm, disk>>
    BY <1>8 DEF Alarm
  <2>5. /\ strm' \in Seq(Stream) /\ Len(strm') = Len(strm) /\ dst' \in 0..Len(strm)
        /\ disk' \in [Names -> [file : CapFile, pkts : Seq(Entry)]]
    <3>1. dst \in 0..Len(strm) /\ strm \in Seq(Stream) /\ 0 \in 0..Len(strm)
      BY SMTT(30) DEF TypeInv
    <3>2. ASSUME NEW s \in Memory(dst), CloseStream(s), dst' = 0
          PROVE  /\ strm' \in Seq(Stream) /\ Len(strm') = Len(strm) /\ dst' \in 0..Len(strm)
                 /\ disk' \in [Names -> [file : CapFile, pkts : Seq(Entry)]]
      BY <3>1, <3>2, Closes, MemoryTyped
    <3>3. CASE UNCHANGED <<dst, strm, disk>>
      BY <3>1, <3>3 DEF TypeInv
    <3> QED
      BY <2>4, <3>2, <3>3
  <2> QED
    BY <2>1, <2>3, <2>5 DEF TypeInv, Output, Local
<1>9. CASE Sigint
  <2>1. pc' \in [Threads -> Labels]
    BY <1>9 DEF Sigint, TypeInv, Labels, Threads
  <2> QED
    BY <1>0, <1>9, <2>1 DEF Sigint, Same
<1>10. CASE Close
  <2>1. pc' \in [Threads -> Labels]
    BY <1>10 DEF Close, Crash, TypeInv, Goto, Labels, Threads
  <2>2. PICK s \in Memory(dst) : CloseStream(s)
    BY <1>10 DEF Close
  <2>3. strm' \in Seq(Stream) /\ Len(strm') = Len(strm) /\ disk' \in [Names -> [file : CapFile, pkts : Seq(Entry)]]
    BY <2>2, Closes, MemoryTyped DEF TypeInv
  <2> QED
    BY <1>10, <2>1, <2>3 DEF Close, TypeInv
<1>11. CASE Ended
  BY <1>0, <1>11 DEF Ended, vars, Same, TypeInv
<1> QED
  BY <1>1, <1>2, <1>3, <1>4, <1>5, <1>6, <1>7, <1>8, <1>9, <1>10, <1>11, <1>12 DEF Next, MainStep, TcpStep, Threads

\* What a step that handles an event may do to the labels.
LEMMA HandlePc ==
    ASSUME TypeInv, NEW t \in Threads, Handle(t)
    PROVE  /\ Looping /\ pc[t] \in Busy
           /\ \/ pc' = [pc EXCEPT !["main"] = "crashed"]
              \/ \E l \in Busy \cup {"close", "done", "accept", "read", "loop"} : pc' = [pc EXCEPT ![t] = l]
<1> USE DEF Busy
<1>1. CASE HandleMarker(t)
  BY <1>1 DEF HandleMarker, Arrived, Failed, Crash, Goto
<1>2. CASE GenerateFilename(t)
  BY <1>2 DEF GenerateFilename, Crash, Goto
<1>3. CASE CloseOld(t)
  BY <1>3 DEF CloseOld, Crash, Goto
<1>4. CASE OpenNext(t)
  BY <1>4 DEF OpenNext, Handled, Failed, Goto
<1>5. CASE Fetch(t) \/ LoadOld(t)
  BY <1>5 DEF Fetch, LoadOld, Goto
<1>6. CASE Write(t)
  <2>1. Looping /\ pc[t] \in Busy
    BY <1>6 DEF Write
  <2> QED
    BY <1>6, <2>1, Writes, WrittenLabel DEF NoEntry, AddsEntry
<1> QED
  BY <1>1, <1>2, <1>3, <1>4, <1>5, <1>6 DEF Handle

LEMMA StartStep ==
    ASSUME TypeInv, StartInv, Next
    PROVE  StartInv'
<1> USE DEF startup, signals, naming
<1> SUFFICES ASSUME pc'["main"] \in {"start", "input", "output"}
             PROVE  /\ strm' = <<>> /\ dst' = 0 /\ pc'["tcp"] = "off"
                    /\ pc'["main"] = "start" => cmd'.o \in Seq(Texts) /\ cmd'.args \in Seq(Texts)
  BY DEF StartInv
<1>0. pc \in [Threads -> Labels] /\ "main" \in Threads /\ "tcp" \in Threads
  BY DEF TypeInv, Threads
<1>1. CASE ParseOutput
  BY <1>0, <1>1 DEF ParseOutput, Goto, StartInv
<1>2. CASE OpenInput
  BY <1>0, <1>2 DEF OpenInput, Goto, StartInv
<1>3. CASE CreateOutput
  BY <1>0, <1>3 DEF CreateOutput, Goto, Crash
<1>4. CASE UdpError \/ LoopHead \/ ReadNothing \/ ReadEnds \/ Close \/ TcpError
  BY <1>0, <1>4 DEF UdpError, LoopHead, ReadNothing, ReadEnds, Close, TcpError, Crash, Goto, Interrupted
<1>5. CASE TcpStops
  BY <1>0, <1>5 DEF TcpStops, Goto, Looping
<1>6. ASSUME NEW m \in Markers, HandleUdp(m) \/ ReadPacket(m) PROVE FALSE
  BY <1>0, <1>6 DEF HandleUdp, ReadPacket, Deliver, Goto
<1>7. ASSUME \/ \E m \in Markers : TcpAccept(m)
             \/ TcpEmpty
      PROVE  FALSE
  BY <1>0, <1>7 DEF TcpAccept, TcpEmpty, Deliver, Goto, Looping
<1>8. ASSUME NEW t \in Threads, Handle(t) PROVE FALSE
  BY <1>0, <1>8, HandlePc DEF Looping, Busy, Threads
<1>9. CASE Alarm
  BY <1>0, <1>9 DEF Alarm, Crash, Goto, Looping
<1>10. CASE Sigint
  BY <1>0, <1>10 DEF Sigint, StartInv
<1>11. CASE Ended
  BY <1>0, <1>11 DEF Ended, vars, StartInv
<1> QED
  BY <1>0, <1>1, <1>2, <1>3, <1>4, <1>5, <1>6, <1>7, <1>8, <1>9, <1>10, <1>11 DEF Next, MainStep, TcpStep

-----------------------------------------------------------------------------
(* WrittenInv *)

LEMMA EntryTyped ==
    ASSUME TypeInv, NEW x \in Names, NEW i \in DOMAIN disk[x].pkts
    PROVE  /\ disk[x].pkts[i] \in Entry /\ disk[x].pkts[i].n \in Nat /\ disk[x].pkts[i].at \in Nat
           /\ disk[x].pkts[i].by \in Threads
<1>1. disk[x].pkts \in Seq(Entry)
  BY DEF TypeInv
<1>2. disk[x].pkts[i] \in Entry
  BY <1>1
<1> QED
  BY <1>2 DEF Entry

LEMMA HeldTyped ==
    ASSUME TypeInv, NEW t \in Threads
    PROVE  ev[t].n \in Nat /\ ev[t].at \in Nat /\ count \in Nat /\ tcp_buf.n \in Nat
  BY DEF TypeInv, EventType

\* Nothing is written and nothing arrives.
LEMMA WrittenQuiet ==
    ASSUME TypeInv, WrittenInv, ev' = ev, count' = count, tcp_buf' = tcp_buf,
           \A t \in Threads : pc'[t] \in Busy => pc[t] \in Busy,
           \A x \in Names : disk'[x].pkts \in {disk[x].pkts, <<>>}
    PROVE  WrittenInv'
<1>1. HeldInv'
  BY DEF WrittenInv, HeldInv
<1>2. ASSUME NEW x \in Names, NEW i \in DOMAIN disk'[x].pkts
      PROVE  disk'[x].pkts = disk[x].pkts /\ i \in DOMAIN disk[x].pkts
  BY <1>2
<1>3. ASSUME NEW x \in Names, NEW i \in DOMAIN disk'[x].pkts PROVE Behind(disk[x].pkts[i])'
  <2>1. disk'[x].pkts = disk[x].pkts /\ i \in DOMAIN disk[x].pkts
    BY <1>2, <1>3
  <2>2. disk[x].pkts[i].by \in Threads
    BY <2>1, EntryTyped
  <2>3. Behind(disk[x].pkts[i])
    BY <2>1 DEF WrittenInv
  <2> QED
    BY <2>1, <2>2, <2>3 DEF Behind
<1>4. ASSUME NEW x \in Names, NEW y \in Names, NEW i \in DOMAIN disk'[x].pkts, NEW j \in DOMAIN disk'[y].pkts
      PROVE  Apart(disk'[x].pkts[i], disk'[y].pkts[j], x = y /\ i = j, x = y /\ i < j)
  <2>1. /\ disk'[x].pkts = disk[x].pkts /\ i \in DOMAIN disk[x].pkts
        /\ disk'[y].pkts = disk[y].pkts /\ j \in DOMAIN disk[y].pkts
    BY <1>2, <1>4
  <2> QED
    BY <2>1 DEF WrittenInv
<1> QED
  BY <1>1, <1>3, <1>4 DEF WrittenInv, Apart

\* What arrives is newer than all that was written, or, on a connection without a
\* message, what the thread has handled last.
LEMMA WrittenDeliver ==
    ASSUME TypeInv, WrittenInv, NEW t \in Threads, NEW m \in Message, NEW n \in Nat, NEW via \in {"src", "udp", "tcp"},
           Deliver(t, m, n, via), disk' = disk, n <= count + 1, ev[t].n <= n,
           t = "main" => n = count + 1 /\ tcp_buf' = tcp_buf,
           t = "tcp" => tcp_buf'.n = n
    PROVE  WrittenInv'
<1>1. /\ count' = count + 1 /\ count \in Nat
      /\ ev \in [Threads -> EventType] /\ ev' = [ev EXCEPT ![t] = Event(m, n, count + 1, via)]
      /\ pc \in [Threads -> Labels] /\ pc' = [pc EXCEPT ![t] = "mark"]
  BY TypeDeliver, SMTT(30) DEF TypeInv
<1>2. Event(m, n, count + 1, via).n = n /\ Event(m, n, count + 1, via).at = count + 1
  BY DEF Event
<1>3. \A u \in Threads : ev[u].n \in Nat /\ ev[u].at \in Nat /\ ev[u].at <= count /\ ev[u].n <= ev[u].at
  BY HeldTyped DEF WrittenInv, HeldInv
<1>4. /\ ev'[t].n = n /\ ev'[t].at = count + 1
      /\ \A u \in Threads : u # t => ev'[u] = ev[u] /\ pc'[u] = pc[u]
  BY <1>1, <1>2
<1>5. HeldInv'
  <2>1. ASSUME NEW u \in Threads
        PROVE  /\ ev'[u].at <= count' /\ ev'[u].n <= ev'[u].at
               /\ pc'[u] \in Busy => ev'[u].at > 0
    <3>1. CASE u = t
      BY <1>1, <1>4, <3>1, SMTT(30)
    <3>2. CASE u # t
      <4>1. ev[u].at <= count /\ ev[u].n <= ev[u].at /\ (pc[u] \in Busy => ev[u].at > 0)
        BY DEF WrittenInv, HeldInv
      <4>2. ev'[u] = ev[u] /\ pc'[u] = pc[u]
        BY <1>4, <3>2
      <4>3. ev[u].at <= count'
        BY <1>1, <1>3, <4>1, SMTT(30)
      <4> QED
        BY <4>1, <4>2, <4>3
    <3> QED
      BY <3>1, <3>2
  <2>2. ASSUME NEW u \in Threads, NEW w \in Threads, u # w, ev'[u].at > 0 PROVE ev'[w].at # ev'[u].at
    <3>1. CASE u = t
      BY <1>1, <1>3, <1>4, <2>2, <3>1, SMTT(30)
    <3>2. CASE w = t
      BY <1>1, <1>3, <1>4, <2>2, <3>2, SMTT(30)
    <3>3. CASE u # t /\ w # t
      BY <2>2, <3>3 DEF Threads
    <3> QED
      BY <3>1, <3>2, <3>3
  <2>3. ev'["main"].n = ev'["main"].at /\ ev'["tcp"].n = tcp_buf'.n
    <3>1. ev["main"].n = ev["main"].at /\ ev["tcp"].n = tcp_buf.n
      BY DEF WrittenInv, HeldInv
    <3>2. CASE t = "main"
      BY <1>4, <3>1, <3>2 DEF Threads
    <3>3. CASE t = "tcp"
      BY <1>4, <3>1, <3>3 DEF Threads
    <3> QED
      BY <3>2, <3>3 DEF Threads
  <2> QED
    BY <2>1, <2>2, <2>3 DEF HeldInv
<1>6. ASSUME NEW x \in Names, NEW i \in DOMAIN disk[x].pkts PROVE Behind(disk[x].pkts[i])'
  <2> DEFINE p == disk[x].pkts[i]
  <2>1. p.n \in Nat /\ p.at \in Nat /\ p.by \in Threads /\ Behind(p)
    BY EntryTyped DEF WrittenInv
  <2> HIDE DEF p
  <2>2. p.at <= count /\ p.at # count + 1
    BY <1>3, <1>1, <2>1, SMTT(30) DEF Behind
  <2>3. p.at <= ev'[p.by].at /\ p.n <= ev'[p.by].n /\ (pc'[p.by] \in Busy => p.at < ev'[p.by].at)
    <3>1. CASE p.by = t
      <4>1. p.n <= ev[t].n
        BY <2>1, <3>1 DEF Behind
      <4> QED
        BY <1>1, <1>3, <1>4, <2>1, <2>2, <3>1, <4>1, SMTT(30)
    <3>2. CASE p.by # t
      BY <1>4, <2>1, <3>2 DEF Behind
    <3> QED
      BY <3>1, <3>2
  <2>4. \A u \in Threads : u # p.by => p.at # ev'[u].at
    BY <1>4, <2>1, <2>2 DEF Behind
  <2>5. p.at > 0 /\ p.n <= p.at /\ (p.by = "main" => p.n = p.at)
    BY <2>1 DEF Behind
  <2> QED
    BY <2>3, <2>4, <2>5 DEF Behind, p
<1>7. \A x, y \in Names : \A i \in DOMAIN disk'[x].pkts : \A j \in DOMAIN disk'[y].pkts :
          Apart(disk'[x].pkts[i], disk'[y].pkts[j], x = y /\ i = j, x = y /\ i < j)
  BY DEF WrittenInv
<1> QED
  BY <1>5, <1>6, <1>7 DEF WrittenInv, Apart

\* What is written is newer than all the thread has written before.
LEMMA WrittenWrite ==
    ASSUME TypeInv, WrittenInv, NEW t \in Threads, Write(t), \A u \in Threads : pc'[u] \in Busy => pc[u] \in Busy
    PROVE  WrittenInv'
<1>0. ev' = ev /\ count' = count /\ tcp_buf' = tcp_buf /\ pc[t] \in Busy
  BY Writes DEF Busy
<1>1. CASE disk' = disk
  BY <1>0, <1>1, WrittenQuiet
<1>2. ASSUME NEW s, AddsEntry(t, s) PROVE WrittenInv'
  <2> DEFINE x == strm[s].name
             e == EntryOf(t)
             old == disk[x].pkts
  <2> HIDE DEF x, e, old
  <2>1. old \in Seq(Entry) /\ e \in Entry /\ e.n = ev[t].n /\ e.at = ev[t].at /\ e.by = t /\ x \in Names
    <3>1. x \in Names
      BY <1>2 DEF AddsEntry, x
    <3>2. old \in Seq(Entry)
      BY <3>1 DEF TypeInv, old
    <3> QED
      BY <3>1, <3>2 DEF TypeInv, EventType, Entry, EntryOf, e
  <2>2. disk'[x].pkts = Append(old, e) /\ \A y \in Names : y # x => disk'[y] = disk[y]
    BY <1>2, <2>1 DEF AddsEntry, WithEntry, TypeInv, x, e, old
  <2>3. pc'[t] \notin Busy /\ \A u \in Threads : u # t => pc'[u] = pc[u]
    BY <1>2, WrittenLabel DEF AddsEntry, Busy, TypeInv
  <2>4. ASSUME NEW y \in Names, NEW i \in DOMAIN disk[y].pkts
        PROVE  LET p == disk[y].pkts[i]
               IN /\ p \in Entry /\ p.n \in Nat /\ p.at \in Nat /\ p.by \in Threads /\ Behind(p)
                  /\ (p.by = t => p.at < e.at /\ p.n <= e.n) /\ p.at # e.at
    <3> DEFINE p == disk[y].pkts[i]
    <3> HIDE DEF p
    <3>1. Behind(p) /\ p \in Entry /\ p.n \in Nat /\ p.at \in Nat /\ p.by \in Threads
      BY EntryTyped DEF WrittenInv, p
    <3>2. p.by = t => p.at < e.at /\ p.n <= e.n
      BY <1>0, <2>1, <3>1 DEF Behind
    <3>3. p.by # t => p.at # e.at
      BY <2>1, <3>1 DEF Behind
    <3>4. p.at # e.at
      BY <2>1, <3>1, <3>2, <3>3, HeldTyped, SMTT(30)
    <3> QED
      BY <3>1, <3>2, <3>4 DEF p
  <2>5. /\ DOMAIN disk'[x].pkts = 1..Len(old) + 1 /\ Len(old) \in Nat /\ DOMAIN old = 1..Len(old)
        /\ \A i \in 1..Len(old) : disk'[x].pkts[i] = old[i]
        /\ disk'[x].pkts[Len(old) + 1] = e
    BY <2>1, <2>2, SMTT(30)
  <2>6. ASSUME NEW y \in Names, NEW i \in DOMAIN disk'[y].pkts
        PROVE  \/ i \in DOMAIN disk[y].pkts /\ disk'[y].pkts[i] = disk[y].pkts[i]
               \/ y = x /\ i = Len(old) + 1 /\ disk'[y].pkts[i] = e
    <3>1. CASE y = x
      <4>1. i \in 1..Len(old) \/ i = Len(old) + 1
        BY <2>5, <3>1
      <4> QED
        BY <2>5, <3>1, <4>1 DEF old
    <3>2. CASE y # x
      BY <2>2, <2>6, <3>2
    <3> QED
      BY <3>1, <3>2
  <2>7. ASSUME NEW y \in Names, NEW i \in DOMAIN disk'[y].pkts
        PROVE  Behind(disk[y].pkts[i])'
    <3>1. CASE i \in DOMAIN disk[y].pkts /\ disk'[y].pkts[i] = disk[y].pkts[i]
      <4> DEFINE p == disk[y].pkts[i]
      <4>1. Behind(p) /\ p.by \in Threads
        BY <2>4, <3>1
      <4>2. disk'[y].pkts[i] = p
        BY <3>1
      <4> HIDE DEF p
      <4>3. pc'[p.by] \in Busy => pc[p.by] \in Busy
        BY <2>3, <4>1
      <4>4. ev' = ev
        BY <1>0
      <4> QED
        BY <4>1, <4>2, <4>3, <4>4 DEF Behind
    <3>2. CASE disk'[y].pkts[i] = e
      <4>1. /\ e.at > 0 /\ e.n <= e.at /\ (t = "main" => e.n = e.at)
            /\ \A u \in Threads : u # t => e.at # ev[u].at
        BY <1>0, <2>1 DEF WrittenInv, HeldInv
      <4>2. e.at <= ev[t].at /\ e.n <= ev[t].n
        BY <2>1, HeldTyped, SMTT(30)
      <4> QED
        BY <1>0, <2>1, <2>3, <3>2, <4>1, <4>2 DEF Behind
    <3> QED
      BY <2>6, <2>7, <3>1, <3>2
  <2>8. ASSUME NEW y \in Names, NEW z \in Names, NEW i \in DOMAIN disk'[y].pkts, NEW j \in DOMAIN disk'[z].pkts
        PROVE  Apart(disk'[y].pkts[i], disk'[z].pkts[j], y = z /\ i = j, y = z /\ i < j)
    <3> DEFINE p == disk'[y].pkts[i]
               q == disk'[z].pkts[j]
               oldp == i \in DOMAIN disk[y].pkts /\ p = disk[y].pkts[i]
               oldq == j \in DOMAIN disk[z].pkts /\ q = disk[z].pkts[j]
    <3> HIDE DEF p, q, oldp, oldq
    <3> SUFFICES Apart(p, q, y = z /\ i = j, y = z /\ i < j)
      BY DEF p, q
    <3>1. /\ oldp \/ (y = x /\ i = Len(old) + 1 /\ p = e)
          /\ oldq \/ (z = x /\ j = Len(old) + 1 /\ q = e)
      BY <2>6, <2>8 DEF p, q, oldp, oldq
    <3>2. CASE oldp /\ oldq
      BY <3>2 DEF WrittenInv, oldp, oldq
    <3>3. CASE oldp /\ z = x /\ j = Len(old) + 1 /\ q = e
      <4>1. (p.by = t => p.at < e.at /\ p.n <= e.n) /\ p.at # e.at
        BY <2>4, <3>3 DEF oldp
      <4> QED
        BY <2>1, <3>3, <4>1 DEF Apart
    <3>4. CASE oldq /\ y = x /\ i = Len(old) + 1 /\ p = e
      <4>1. q.at # e.at /\ (y = z => j \in 1..Len(old))
        BY <2>4, <2>5, <3>4 DEF oldq, old
      <4>2. ~(y = z /\ i < j)
        BY <2>5, <3>4, <4>1, SMTT(30)
      <4> QED
        BY <3>4, <4>1, <4>2 DEF Apart
    <3>5. CASE (y = x /\ i = Len(old) + 1) /\ (z = x /\ j = Len(old) + 1)
      <4>1. y = z /\ i = j /\ ~(i < j)
        BY <2>5, <3>5, SMTT(30)
      <4> QED
        BY <4>1 DEF Apart
    <3> QED
      BY <3>1, <3>2, <3>3, <3>4, <3>5
  <2>9. HeldInv'
    BY <1>0, <2>3 DEF WrittenInv, HeldInv
  <2> QED
    BY <2>7, <2>8, <2>9 DEF WrittenInv, Apart
<1>3. PICK s : NoEntry(t, s) \/ AddsEntry(t, s)
  BY Writes
<1> QED
  BY <1>1, <1>2, <1>3 DEF NoEntry

\* A new stream has an empty file, and no other file changes.
FileMade(x, a, ret, c) == disk'[x].pkts = <<>> /\ NewFile(a, ret, c, disk'[x].file)
Makes(a, ret) == a.name \in Names /\ ret \in {"ok", "EIO"} /\ ~(a.type = "fifo" /\ ret # "ok")

LEMMA CreateDisk ==
    ASSUME TypeInv, NEW a, Output(a), NEW ret, NEW c \in Nat, NEW by \in Nat, Create(a, ret, c, by)
    PROVE  \A x \in Names : \/ disk'[x] = disk[x] /\ ~(x = a.name /\ Makes(a, ret))
                            \/ x = a.name /\ FileMade(x, a, ret, c)
<1>1. CASE disk' = disk /\ (ret \notin {"ok", "EIO"} \/ a.name \notin Names \/ (a.type = "fifo" /\ ret # "ok"))
  BY <1>1 DEF Makes
<1>2. ASSUME NEW f \in CapFile, a.name \in Names, NewFile(a, ret, c, f),
             disk' = [disk EXCEPT ![a.name] = [file |-> f, pkts |-> <<>>]]
      PROVE  FileMade(a.name, a, ret, c) /\ \A x \in Names : x # a.name => disk'[x] = disk[x]
  <2>1. disk'[a.name] = [file |-> f, pkts |-> <<>>] /\ \A x \in Names : x # a.name => disk'[x] = disk[x]
    BY <1>2 DEF TypeInv
  <2> QED
    BY <1>2, <2>1, SMTT(30) DEF FileMade
<1> QED
  BY <1>1, <1>2, Creates

\* A new stream is the last one, and no other stream changes.
StreamMade(a, ret, c, by) ==
    /\ DOMAIN strm = 1..Len(strm) /\ Len(strm) \in Nat /\ DOMAIN strm' = 1..Len(strm) + 1 /\ Len(strm') = Len(strm) + 1
    /\ dst' = Len(strm) + 1
    /\ LET new == strm'[Len(strm) + 1]
       IN /\ new.name = a.name /\ new.open = TRUE /\ (new.ok <=> ret = "ok") /\ new.by = by /\ new.comment = c
          /\ (new.fifo <=> a.type = "fifo") /\ new.saved = FALSE
    /\ \A r \in DOMAIN strm : strm'[r] = strm[r]

LEMMA CreateStream ==
    ASSUME TypeInv, NEW a, Output(a), NEW ret, NEW c \in Nat, NEW by \in Nat, Create(a, ret, c, by)
    PROVE  \/ ret \notin {"ok", "EIO"} /\ strm' = strm /\ dst' = 0
           \/ ret \in {"ok", "EIO"} /\ StreamMade(a, ret, c, by)
<1> DEFINE new == NewStream(a, ret, c, by)
<1> HIDE DEF new
<1>1. ASSUME strm' = Append(strm, new)
      PROVE  /\ DOMAIN strm = 1..Len(strm) /\ Len(strm) \in Nat
             /\ DOMAIN strm' = 1..Len(strm) + 1 /\ Len(strm') = Len(strm) + 1
             /\ strm'[Len(strm) + 1] = new /\ \A r \in DOMAIN strm : strm'[r] = strm[r]
  <2>1. strm \in Seq(Stream)
    BY DEF TypeInv
  <2> QED
    BY <1>1, <2>1
<1>2. /\ new.name = a.name /\ new.open = TRUE /\ (new.ok <=> ret = "ok") /\ new.by = by /\ new.comment = c
      /\ (new.fifo <=> a.type = "fifo") /\ new.saved = FALSE
  BY DEF new, NewStream
<1>3. \/ ret \notin {"ok", "EIO"} /\ strm' = strm /\ dst' = 0
      \/ ret \in {"ok", "EIO"} /\ strm' = Append(strm, new) /\ dst' = Len(strm) + 1
  BY Creates DEF new
<1>4. ASSUME strm' = Append(strm, new), dst' = Len(strm) + 1 PROVE StreamMade(a, ret, c, by)
  <2>1. strm'[Len(strm) + 1] = new
    BY <1>1, <1>4
  <2> QED
    BY <1>1, <1>2, <1>4, <2>1 DEF StreamMade
<1> QED
  BY <1>3, <1>4

LEMMA WrittenStep ==
    ASSUME TypeInv, OptionsInv, WrittenInv, Next
    PROVE  WrittenInv'
<1> USE DEF startup, signals, naming
<1>0. pc \in [Threads -> Labels] /\ "main" \in Threads /\ "tcp" \in Threads
  BY DEF TypeInv, Threads
<1>1. CASE ParseOutput \/ OpenInput \/ UdpError \/ LoopHead \/ ReadNothing \/ ReadEnds \/ TcpStops \/ TcpError
  <2>1. \A t \in Threads : pc'[t] \in Busy => pc[t] \in Busy
    BY <1>0, <1>1 DEF ParseOutput, OpenInput, UdpError, LoopHead, ReadNothing, ReadEnds, TcpStops, TcpError, Goto,
                      Interrupted, Busy
  <2>2. ev' = ev /\ count' = count /\ disk' = disk /\ tcp_buf' = tcp_buf
    BY <1>1 DEF ParseOutput, OpenInput, UdpError, LoopHead, ReadNothing, ReadEnds, TcpStops, TcpError
  <2> QED
    BY <2>1, <2>2, WrittenQuiet
<1>7. ASSUME NEW s \in 0..Len(strm), CloseStream(s) PROVE \A x \in Names : disk'[x].pkts \in {disk[x].pkts, <<>>}
  BY <1>7, Closes, SMTT(30) DEF Removed, Absent
<1>2. CASE Alarm \/ Sigint \/ Ended \/ Close
  <2>1. \A t \in Threads : pc'[t] \in Busy => pc[t] \in Busy
    BY <1>0, <1>2 DEF Alarm, Sigint, Ended, Close, Crash, Goto, vars, Busy
  <2>2. ev' = ev /\ count' = count /\ tcp_buf' = tcp_buf
    BY <1>2 DEF Alarm, Sigint, Ended, Close, vars
  <2>3. disk' = disk \/ \E s \in Memory(dst) : CloseStream(s)
    BY <1>2 DEF Alarm, Sigint, Ended, Close, vars
  <2>4. \A x \in Names : disk'[x].pkts \in {disk[x].pkts, <<>>}
    BY <1>7, <2>3, MemoryTyped DEF TypeInv
  <2> QED
    BY <2>1, <2>2, <2>4, WrittenQuiet
<1>3. CASE CreateOutput
  <2>1. \A t \in Threads : pc'[t] \in Busy => pc[t] \in Busy
    BY <1>0, <1>3 DEF CreateOutput, Goto, Crash, Busy
  <2>2. ev' = ev /\ count' = count /\ tcp_buf' = tcp_buf
    BY <1>3 DEF CreateOutput
  <2>3. PICK o : Create(output, o.ret, cfg.comment, 0)
    BY <1>3 DEF CreateOutput
  <2>4. \A x \in Names : disk'[x].pkts \in {disk[x].pkts, <<>>}
    BY <2>3, CreateDisk DEF TypeInv, OptionsInv, FileMade
  <2> QED
    BY <2>1, <2>2, <2>4, WrittenQuiet
<1>8. \A t \in Threads : ev[t].n <= count + 1
  <2>1. \A t \in Threads : ev[t].at <= count /\ ev[t].n <= ev[t].at
    BY DEF WrittenInv, HeldInv
  <2> QED
    BY <2>1, HeldTyped, SMTT(30)
<1>9. count + 1 \in Nat /\ count + 1 <= count + 1
  BY SMTT(30) DEF TypeInv
<1>4. ASSUME NEW m \in Markers, HandleUdp(m) \/ ReadPacket(m) PROVE WrittenInv'
  <2>1. PICK via \in {"src", "udp"} : Deliver("main", m, count + 1, via)
    BY <1>4 DEF HandleUdp, ReadPacket
  <2>2. disk' = disk /\ tcp_buf' = tcp_buf
    BY <1>4 DEF HandleUdp, ReadPacket
  <2> QED
    BY <1>0, <1>8, <1>9, <2>1, <2>2, Arrives, WrittenDeliver
<1>5. ASSUME NEW m \in Markers, TcpAccept(m) PROVE WrittenInv'
  <2>1. Deliver("tcp", m, count + 1, "tcp") /\ tcp_buf'.n = count + 1 /\ disk' = disk
    BY <1>5 DEF TcpAccept
  <2> QED
    BY <1>0, <1>8, <1>9, <2>1, Arrives, WrittenDeliver
<1>10. CASE TcpEmpty
  <2>1. Deliver("tcp", tcp_buf.msg, tcp_buf.n, "tcp") /\ tcp_buf' = tcp_buf /\ disk' = disk
    BY <1>10 DEF TcpEmpty
  <2>2. ev["tcp"].n = tcp_buf.n /\ tcp_buf.msg \in Message /\ tcp_buf.n \in Nat
    BY DEF WrittenInv, HeldInv, TypeInv
  <2>3. ev["tcp"].n <= tcp_buf.n /\ tcp_buf.n <= count + 1
    BY <1>0, <1>8, <2>2, SMTT(30)
  <2> QED
    BY <1>0, <2>1, <2>2, <2>3, WrittenDeliver
<1>6. ASSUME NEW t \in Threads, Handle(t) PROVE WrittenInv'
  <2>1. \A u \in Threads : pc'[u] \in Busy => pc[u] \in Busy
    BY <1>0, <1>6, HandlePc DEF Busy
  <2>2. CASE Write(t)
    BY <2>1, <2>2, WrittenWrite
  <2>3. CASE HandleMarker(t) \/ GenerateFilename(t) \/ LoadOld(t) \/ Fetch(t)
    <3>1. ev' = ev /\ count' = count /\ disk' = disk /\ tcp_buf' = tcp_buf
      BY <2>3 DEF HandleMarker, GenerateFilename, LoadOld, Fetch
    <3> QED
      BY <2>1, <3>1, WrittenQuiet
  <2>4. CASE CloseOld(t)
    <3>1. ev' = ev /\ count' = count /\ tcp_buf' = tcp_buf
      BY <2>4 DEF CloseOld
    <3>2. PICK s \in Memory(reg[t]) : CloseStream(s)
      BY <2>4 DEF CloseOld
    <3>3. \A x \in Names : disk'[x].pkts \in {disk[x].pkts, <<>>}
      BY <1>7, <3>2, MemoryTyped DEF TypeInv
    <3> QED
      BY <2>1, <3>1, <3>3, WrittenQuiet
  <2>5. CASE OpenNext(t)
    <3>1. ev' = ev /\ count' = count /\ tcp_buf' = tcp_buf
      BY <2>5 DEF OpenNext
    <3>2. \A x \in Names : disk'[x].pkts \in {disk[x].pkts, <<>>}
      BY <2>5, Opens, CreateDisk DEF FileMade
    <3> QED
      BY <2>1, <3>1, <3>2, WrittenQuiet
  <2> QED
    BY <1>6, <2>2, <2>3, <2>4, <2>5 DEF Handle
<1> QED
  BY <1>0, <1>1, <1>2, <1>3, <1>4, <1>5, <1>6, <1>10 DEF Next, MainStep, TcpStep

\* OnceInOrder from it.
LEMMA WrittenApart == TypeInv /\ WrittenInv => OnceInOrder
<1> SUFFICES ASSUME TypeInv, WrittenInv,
                    NEW x \in Names, NEW y \in Names, NEW i \in DOMAIN disk[x].pkts, NEW j \in DOMAIN disk[y].pkts
             PROVE  LET p == disk[x].pkts[i]
                        q == disk[y].pkts[j]
                    IN /\ p.n = q.n => (x = y /\ i = j) \/ p.n < p.at \/ q.n < q.at
                       /\ p.n < p.at => p.by = "tcp"
                       /\ x = y /\ p.by = q.by /\ i < j => p.at < q.at /\ p.n <= q.n
  BY DEF OnceInOrder
<1> DEFINE p == disk[x].pkts[i]
           q == disk[y].pkts[j]
<1>1. /\ p.n \in Nat /\ p.at \in Nat /\ p.by \in Threads /\ q.n \in Nat /\ q.at \in Nat
  BY EntryTyped
<1>2. p.n <= p.at /\ q.n <= q.at /\ (p.by = "main" => p.n = p.at)
  BY DEF WrittenInv, Behind
<1>3. (p.at = q.at => x = y /\ i = j) /\ (p.by = q.by /\ x = y /\ i < j => p.at < q.at /\ p.n <= q.n)
  BY SMTT(30) DEF WrittenInv, Apart
<1> HIDE DEF p, q
<1>4. p.n = q.n => p.at = q.at \/ p.n < p.at \/ q.n < q.at
  BY <1>1, <1>2, SMTT(30)
<1>5. p.n < p.at => p.by = "tcp"
  <2>1. p.n < p.at => p.n # p.at
    BY <1>1, SMTT(30)
  <2> QED
    BY <1>1, <1>2, <2>1 DEF Threads
<1> QED
  BY <1>3, <1>4, <1>5 DEF p, q

-----------------------------------------------------------------------------
(* FilesInv *)

\* No stream is made; a file is not replaced, and a FIFO may be removed.
LEMMA FilesQuiet ==
    ASSUME FilesInv, DOMAIN strm' = DOMAIN strm,
           \A s \in DOMAIN strm :
              /\ strm'[s].name = strm[s].name /\ strm'[s].ok = strm[s].ok /\ strm'[s].by = strm[s].by
              /\ strm'[s].comment = strm[s].comment /\ strm'[s].fifo = strm[s].fifo
              /\ strm'[s].saved => strm[s].saved \/ (strm[s].ok /\ ~strm[s].fifo),
           \A x \in Names :
              \/ disk'[x] = disk[x] \/ Removed(x)
              \/ disk'[x].file = disk[x].file /\ disk[x].file \notin {NoFile, Fifo}
    PROVE  FilesInv'
<1>1. ASSUME NEW s \in DOMAIN strm PROVE HasFile(s)'
  <2>1. HasFile(s) /\ (Latest(s)' => Latest(s))
    BY DEF FilesInv, Latest
  <2>2. ASSUME strm[s].name \in Names, ~strm[s].fifo PROVE disk'[strm[s].name].file = disk[strm[s].name].file
    BY <2>1, <2>2 DEF HasFile, Removed
  <2> QED
    BY <2>1, <2>2 DEF HasFile
<1>2. Unwritten'
  BY SMTT(30) DEF FilesInv, Unwritten, Removed, Absent
<1> QED
  BY <1>1, <1>2 DEF FilesInv

\* A FIFO can only be the first stream.
LEMMA FilesCreate ==
    ASSUME TypeInv, FilesInv, NEW a, Output(a), NEW ret, NEW c \in Nat, NEW by \in Nat, Create(a, ret, c, by),
           a.type = "fifo" => strm = <<>> /\ by = 0
    PROVE  FilesInv'
<1>0. \A x \in Names : \/ disk'[x] = disk[x] /\ ~(x = a.name /\ Makes(a, ret))
                       \/ x = a.name /\ FileMade(x, a, ret, c)
  BY CreateDisk
<1>1. Unwritten'
  BY <1>0 DEF FilesInv, Unwritten, FileMade
<1>2. CASE ret \notin {"ok", "EIO"} /\ strm' = strm
  <2>1. disk' = disk
    BY <1>2, Creates
  <2> QED
    BY <1>2, <2>1, FilesQuiet
<1>3. CASE ret \in {"ok", "EIO"} /\ StreamMade(a, ret, c, by)
  <2>0. PICK n : n = Len(strm) + 1
    OBVIOUS
  <2>1. /\ DOMAIN strm' = 1..n /\ DOMAIN strm = 1..Len(strm) /\ Len(strm) \in Nat
        /\ strm'[n].name = a.name /\ (strm'[n].ok <=> ret = "ok") /\ strm'[n].by = by /\ strm'[n].comment = c
        /\ (strm'[n].fifo <=> a.type = "fifo") /\ strm'[n].saved = FALSE
        /\ \A r \in DOMAIN strm : strm'[r] = strm[r]
    BY <1>3, <2>0 DEF StreamMade
  <2>2. a.type = "fifo" => DOMAIN strm = {}
    OBVIOUS
  <2>3. n \in DOMAIN strm' /\ DOMAIN strm \subseteq DOMAIN strm' /\ \A s \in DOMAIN strm : n > s /\ s # n
    BY <2>0, <2>1, SMTT(30)
  <2>4. \A s \in DOMAIN strm' : s = n \/ s \in DOMAIN strm
    BY <2>0, <2>1, SMTT(30)
  <2>5. HasFile(n)'
    <3>1. ASSUME a.name \in Names, a.type # "fifo" PROVE FileMade(a.name, a, ret, c)
      BY <1>0, <1>3, <3>1 DEF Makes
    <3>2. ASSUME a.name \in Names, a.type # "fifo"
          PROVE  /\ disk'[a.name].file \notin {NoFile, Fifo}
                 /\ ret = "ok" => disk'[a.name].file = stream_file_create(c)
      BY <3>1, <3>2 DEF FileMade, NewFile
    <3> QED
      BY <2>1, <3>2 DEF HasFile
  <2>6. ASSUME NEW s \in DOMAIN strm PROVE HasFile(s)'
    <3>1. HasFile(s) /\ strm'[s] = strm[s] /\ a.type # "fifo"
      BY <2>1, <2>2 DEF FilesInv
    <3>2. CASE strm[s].name = a.name
      <4>1. ~Latest(s)'
        BY <2>1, <2>3, <3>1, <3>2 DEF Latest
      <4>2. strm[s].name \in Names => FileMade(a.name, a, ret, c)
        BY <1>0, <1>3, <3>1, <3>2 DEF Makes
      <4> QED
        BY <3>1, <3>2, <4>1, <4>2 DEF HasFile, FileMade, NewFile
    <3>3. CASE strm[s].name # a.name
      <4>1. Latest(s)' => Latest(s)
        BY <2>1, <2>3, <3>1 DEF Latest
      <4>2. strm[s].name \in Names => disk'[strm[s].name] = disk[strm[s].name]
        BY <1>0, <3>3
      <4> QED
        BY <3>1, <4>1, <4>2 DEF HasFile
    <3> QED
      BY <3>2, <3>3
  <2> QED
    BY <1>1, <2>4, <2>5, <2>6 DEF FilesInv
<1> QED
  BY <1>2, <1>3, CreateStream

LEMMA FilesStep ==
    ASSUME TypeInv, OptionsInv, StartInv, FilesInv, Next
    PROVE  FilesInv'
<1> USE DEF startup, signals, naming
<1>0. CASE UNCHANGED <<strm, disk>>
  BY <1>0, FilesQuiet
<1>1. CASE ParseOutput \/ OpenInput \/ UdpError \/ LoopHead \/ ReadNothing \/ ReadEnds \/ TcpEmpty \/ TcpStops
           \/ TcpError \/ Sigint \/ Ended
  BY <1>0, <1>1
  DEF ParseOutput, OpenInput, UdpError, LoopHead, ReadNothing, ReadEnds, TcpEmpty, TcpStops, TcpError, Sigint, Ended, vars
<1>2. ASSUME NEW m \in Markers, HandleUdp(m) \/ ReadPacket(m) \/ TcpAccept(m) PROVE FilesInv'
  BY <1>0, <1>2 DEF HandleUdp, ReadPacket, TcpAccept
<1>3. CASE CreateOutput
  <2>1. PICK o : Create(output, o.ret, cfg.comment, 0)
    BY <1>3 DEF CreateOutput
  <2>2. strm = <<>>
    BY <1>3 DEF CreateOutput, StartInv
  <2> QED
    BY <2>1, <2>2, FilesCreate DEF TypeInv, OptionsInv
<1>4. ASSUME NEW r \in 0..Len(strm), NEW s \in Memory(r), CloseStream(s) PROVE FilesInv'
  <2>1. s \in 0..Len(strm)
    BY MemoryTyped
  <2> QED
    BY <1>4, <2>1, Closes, FilesQuiet DEF ClosedAt
<1>5. CASE Alarm
  <2>1. UNCHANGED <<strm, disk>> \/ \E s \in Memory(dst) : CloseStream(s)
    BY <1>5 DEF Alarm
  <2> QED
    BY <1>0, <1>4, <2>1 DEF TypeInv
<1>6. CASE Close
  BY <1>4, <1>6 DEF Close, TypeInv
<1>7. ASSUME NEW t \in Threads, Handle(t) PROVE FilesInv'
  <2>1. CASE HandleMarker(t) \/ GenerateFilename(t) \/ LoadOld(t) \/ Fetch(t)
    BY <1>0, <2>1 DEF HandleMarker, GenerateFilename, LoadOld, Fetch
  <2>2. CASE CloseOld(t)
    BY <1>4, <2>2 DEF CloseOld, TypeInv
  <2>3. CASE OpenNext(t)
    <3>1. PICK o : Create(output', o.ret, CommentOf(t), ByMarker(t))
      BY <2>3, Opens
    <3>2. Output(output') /\ output'.type = "capfile" /\ ByMarker(t) \in Nat /\ CommentOf(t) \in Nat
      BY <2>3, Opens
    <3> QED
      BY <3>1, <3>2, FilesCreate
  <2>4. CASE Write(t)
    <3>1. PICK s \in Memory(reg[t]) : NoEntry(t, s) \/ AddsEntry(t, s)
      BY <2>4, Writes
    <3>2. strm' = strm
      BY <2>4, Writes
    <3>3. CASE NoEntry(t, s)
      BY <1>0, <3>2, <3>3 DEF NoEntry
    <3>4. CASE AddsEntry(t, s)
      <4> DEFINE x == strm[s].name
      <4>1. x \in Names /\ disk[x].file \notin {NoFile, Fifo}
        BY <3>4 DEF FilesInv, HasFile, AddsEntry, Open
      <4>2. disk' = WithEntry(x, EntryOf(t))
        BY <3>4 DEF AddsEntry
      <4> HIDE DEF x
      <4>3. disk'[x].file = disk[x].file /\ \A y \in Names : y # x => disk'[y] = disk[y]
        BY <4>1, <4>2 DEF TypeInv, WithEntry
      <4> QED
        BY <3>2, <4>1, <4>3, FilesQuiet
    <3> QED
      BY <3>1, <3>3, <3>4
  <2> QED
    BY <1>7, <2>1, <2>2, <2>3, <2>4 DEF Handle
<1> QED
  BY <1>1, <1>2, <1>3, <1>5, <1>6, <1>7 DEF Next, MainStep, TcpStep, Threads

-----------------------------------------------------------------------------
(* SingleInv *)

\* Without --listen there is no second thread.
LEMMA NoTcp == ASSUME pc["tcp"] = "off", Next PROVE MainStep \/ Alarm \/ Sigint \/ Ended
<1>1. ~Handle("tcp")
  BY DEF Handle, HandleMarker, GenerateFilename, LoadOld, CloseOld, OpenNext, Fetch, Write
<1> QED
  BY <1>1 DEF Next, TcpStep, TcpAccept, TcpEmpty, TcpStops, TcpError

\* The stream of dst is open, so that no other has its memory.
LEMMA DstMemory ==
    ASSUME DstInv, pc["main"] # "exit"
    PROVE  ~Stale(dst) /\ Memory(dst) = {dst}
<1>1. ~Stale(dst)
  BY DEF DstInv, Stale
<1> QED
  BY <1>1 DEF Memory

\* dst is set to NULL after its stream, or one that is closed already, was closed.
LEMMA DstClosed ==
    ASSUME TypeInv, DstInv, NEW s \in 0..Len(strm), CloseStream(s), dst' = 0, s = dst \/ dst = 0, pc'["tcp"] = "off"
    PROVE  DstInv'
<1>1. ASSUME NEW r \in DOMAIN strm', strm'[r].open, strm'[r].ok PROVE FALSE
  <2>1. r \in DOMAIN strm /\ strm[r].ok /\ strm[r].open /\ r # s
    BY <1>1, Closes DEF ClosedAt
  <2>2. r = dst
    BY <2>1 DEF DstInv
  <2>3. r # 0
    BY <2>1, SMTT(30) DEF TypeInv
  <2> QED
    BY <2>1, <2>2, <2>3
<1> QED
  BY <1>1 DEF DstInv

LEMMA DstQuiet ==
    ASSUME TypeInv, DstInv, dst' = dst, strm' = strm, pc'["tcp"] = pc["tcp"],
           pc["main"] # "exit" \/ pc'["main"] = "exit",
           pc'["main"] \in {"closing", "write"} => dst \in {0, reg'["main"]},
           pc'["main"] # "create"
    PROVE  DstInv'
  BY DEF DstInv

LEMMA DstCreate ==
    ASSUME TypeInv, DstInv, dst = 0, NEW a, Output(a), NEW ret, NEW c \in Nat, NEW by \in Nat, Create(a, ret, c, by),
           pc'["tcp"] = "off", pc'["main"] \notin {"closing", "write", "create"}
    PROVE  DstInv'
<1>1. CASE strm' = strm /\ dst' = 0
  BY <1>1 DEF DstInv
<1>2. CASE ret \in {"ok", "EIO"} /\ StreamMade(a, ret, c, by)
  <2> DEFINE n == Len(strm) + 1
  <2>1. /\ DOMAIN strm' = 1..n /\ DOMAIN strm = 1..Len(strm) /\ Len(strm) \in Nat /\ Len(strm') = n /\ dst' = n
        /\ strm'[n].open = TRUE /\ \A r \in DOMAIN strm : strm'[r] = strm[r]
    BY <1>2 DEF StreamMade
  <2>2. \A r \in DOMAIN strm : ~(strm[r].open /\ strm[r].ok)
    BY <2>1, SMTT(30) DEF DstInv
  <2> QED
    BY <2>1, <2>2, SMTT(30) DEF DstInv
<1> QED
  BY <1>1, <1>2, CreateStream

LEMMA DstStep ==
    ASSUME TypeInv, OptionsInv, StartInv, DstInv, ~cfg.listen, Next
    PROVE  DstInv'
<1> USE DEF startup, signals, naming
<1>0. pc \in [Threads -> Labels] /\ "main" \in Threads /\ "tcp" \in Threads /\ "main" # "tcp" /\ pc["tcp"] = "off"
  BY DEF TypeInv, Threads, DstInv
<1>1. CASE ParseOutput \/ OpenInput \/ UdpError \/ LoopHead \/ ReadNothing \/ ReadEnds
  <2>1. /\ dst' = dst /\ strm' = strm /\ pc'["tcp"] = pc["tcp"] /\ pc["main"] # "exit"
        /\ pc'["main"] \notin {"closing", "write", "create"}
    BY <1>0, <1>1 DEF ParseOutput, OpenInput, UdpError, LoopHead, ReadNothing, ReadEnds, Goto, Interrupted
  <2> QED
    BY <2>1, DstQuiet
<1>2. ASSUME NEW m \in Markers, HandleUdp(m) \/ ReadPacket(m) PROVE DstInv'
  <2>1. /\ dst' = dst /\ strm' = strm /\ pc'["tcp"] = pc["tcp"] /\ pc["main"] # "exit"
        /\ pc'["main"] \notin {"closing", "write", "create"}
    BY <1>0, <1>2 DEF HandleUdp, ReadPacket, Deliver, Goto
  <2> QED
    BY <2>1, DstQuiet
<1>3. CASE CreateOutput
  <2>1. PICK o : Create(output, o.ret, cfg.comment, 0)
    BY <1>3 DEF CreateOutput
  <2>2. dst = 0 /\ Output(output)
    BY <1>3 DEF CreateOutput, StartInv, TypeInv
  <2>3. pc'["tcp"] = "off" /\ pc'["main"] \notin {"closing", "write", "create"}
    BY <1>0, <1>3 DEF CreateOutput, Goto, Crash
  <2> QED
    BY <2>1, <2>2, <2>3, DstCreate DEF OptionsInv
<1>4. CASE HandleMarker("main")
  <2>1. /\ dst' = dst /\ strm' = strm /\ pc'["tcp"] = pc["tcp"] /\ pc["main"] # "exit"
        /\ pc'["main"] \notin {"closing", "write", "create"}
    BY <1>0, <1>4 DEF HandleMarker, Arrived, Failed, Crash, Goto
  <2> QED
    BY <2>1, DstQuiet
<1>13. CASE GenerateFilename("main")
  <2>1. /\ dst' = dst /\ strm' = strm /\ pc'["tcp"] = pc["tcp"] /\ pc["main"] # "exit"
        /\ pc'["main"] \notin {"closing", "write", "create"}
    BY <1>0, <1>13 DEF GenerateFilename, Crash, Goto
  <2> QED
    BY <2>1, DstQuiet
<1>5. CASE LoadOld("main") \/ Fetch("main")
  <2>1. /\ dst' = dst /\ strm' = strm /\ pc'["tcp"] = pc["tcp"] /\ pc["main"] # "exit"
        /\ pc'["main"] # "create" /\ reg' = [reg EXCEPT !["main"] = dst]
    BY <1>0, <1>5 DEF LoadOld, Fetch, Goto
  <2>2. reg'["main"] = dst
    BY <1>0, <2>1 DEF TypeInv
  <2> QED
    BY <2>1, <2>2, DstQuiet
<1>6. CASE CloseOld("main")
  <2>1. PICK s \in Memory(reg["main"]) : CloseStream(s)
    BY <1>6 DEF CloseOld
  <2>2. dst' = 0 /\ reg["main"] \in 0..Len(strm) /\ pc'["tcp"] = "off"
    BY <1>0, <1>6 DEF CloseOld, Goto, Crash, TypeInv
  <2>3. pc["main"] = "closing" /\ (reg["main"] = dst \/ dst = 0)
    BY <1>6 DEF CloseOld, DstInv
  <2>4. s = dst \/ dst = 0
    BY <2>3, DstMemory
  <2> QED
    BY <2>1, <2>2, <2>4, DstClosed, MemoryTyped
<1>7. CASE OpenNext("main")
  <2>1. PICK o : /\ Create(output', o.ret, CommentOf("main"), ByMarker("main"))
                 /\ Goto("main", "fetch") \/ Failed("main")
                 /\ Output(output') /\ ByMarker("main") \in Nat /\ CommentOf("main") \in Nat
    BY <1>0, <1>7, Opens
  <2>2. pc'["tcp"] = "off" /\ pc'["main"] \notin {"closing", "write", "create"}
    BY <1>0, <2>1 DEF Failed, Goto
  <2>3. dst = 0
    BY <1>7 DEF OpenNext, DstInv
  <2> QED
    BY <2>1, <2>2, <2>3, DstCreate
<1>8. CASE Write("main")
  <2>1. dst' = dst /\ strm' = strm
    BY <1>0, <1>8, Writes
  <2>2. pc["main"] # "exit" /\ pc'["tcp"] = pc["tcp"] /\ pc'["main"] \notin {"closing", "write", "create"}
    <3>1. PICK s : NoEntry("main", s) \/ AddsEntry("main", s)
      BY <1>0, <1>8, Writes
    <3>2. PICK l \in {"accept", "read", "close", "loop", "crashed"} : pc' = [pc EXCEPT !["main"] = l]
      BY <1>0, <3>1, WrittenLabel DEF NoEntry, AddsEntry
    <3>3. pc["main"] = "write"
      BY <1>0, <1>8, Writes
    <3> QED
      BY <1>0, <3>2, <3>3
  <2> QED
    BY <2>1, <2>2, DstQuiet
<1>9. CASE Alarm
  <2>1. reg' = reg /\ Looping /\ pc["main"] # "exit"
    BY <1>9 DEF Alarm, Looping
  <2>2. pc' = pc
    BY <1>9, <2>1, DstMemory DEF Alarm
  <2>3. CASE (\E s \in Memory(dst) : CloseStream(s)) /\ dst' = 0
    <3>1. CloseStream(dst)
      BY <2>1, <2>3, DstMemory
    <3> QED
      BY <1>0, <2>2, <2>3, <3>1, DstClosed DEF TypeInv
  <2>4. CASE UNCHANGED <<dst, strm>>
    BY <2>1, <2>2, <2>4 DEF DstInv
  <2> QED
    BY <1>9, <2>3, <2>4 DEF Alarm
<1>10. CASE Sigint
  <2>1. dst' = dst /\ strm' = strm /\ reg' = reg /\ pc["main"] # "exit"
    BY <1>10 DEF Sigint, Looping
  <2>2. pc' = pc \/ (pc'["main"] = "aborted" /\ pc'["tcp"] = pc["tcp"])
    BY <1>0, <1>10 DEF Sigint
  <2> QED
    BY <2>1, <2>2 DEF DstInv
<1>11. CASE Close
  <2>1. dst' = dst /\ pc'["tcp"] = "off" /\ pc'["main"] = "exit"
    BY <1>0, <1>11, DstMemory DEF Close, Goto
  <2>2. CloseStream(dst) /\ dst \in 0..Len(strm)
    BY <1>11, DstMemory DEF Close, TypeInv
  <2> QED
    BY <2>1, <2>2, Closes DEF DstInv, ClosedAt
<1>12. CASE Ended
  BY <1>12 DEF Ended, vars, DstInv
<1> QED
  BY <1>0, <1>1, <1>2, <1>3, <1>4, <1>5, <1>6, <1>7, <1>8, <1>9, <1>10, <1>11, <1>12, <1>13, NoTcp DEF MainStep, Handle

Ends == {"close", "exit", "crashed", "aborted"}

LEMMA HeadQuiet ==
    ASSUME TypeInv, HeadInv, cfg' = cfg, \A x \in Names : disk'[x].pkts = disk[x].pkts, DOMAIN strm' = DOMAIN strm,
           \A r \in DOMAIN strm : strm'[r].name = strm[r].name /\ strm'[r].by = strm[r].by,
           \/ dst' = 0
           \/ /\ dst' = dst
              /\ \/ strm[dst].name \notin Names \/ strm[dst].by = 0
                 \/ /\ pc["main"] \in Ends => pc'["main"] \in Ends
                    /\ pc["main"] \in {"fetch", "write"} =>
                          \/ pc'["main"] \in Ends
                          \/ pc'["main"] \in {"fetch", "write"} /\ ev' = ev
    PROVE  HeadInv'
<1>1. MarkerHeadsFile'
  <2> SUFFICES ASSUME NEW s \in DOMAIN strm', ~cfg'.listen, strm'[s].by > 0, strm'[s].name \in Names,
                      \A r \in DOMAIN strm' : r > s => strm'[r].name # strm'[s].name
               PROVE  disk'[strm'[s].name].pkts = <<>> \/ disk'[strm'[s].name].pkts[1].n = strm'[s].by
    BY DEF MarkerHeadsFile
  <2>1. \A r \in DOMAIN strm : r > s => strm[r].name # strm[s].name
    OBVIOUS
  <2> QED
    BY <2>1, SMTT(30) DEF HeadInv, MarkerHeadsFile
<1>2. ASSUME dst' # 0, strm'[dst'].by > 0, strm'[dst'].name \in Names, disk'[strm'[dst'].name].pkts = <<>>
      PROVE  \/ pc'["main"] \in Ends
             \/ pc'["main"] \in {"fetch", "write"} /\ ev'["main"].n = strm'[dst'].by
  <2>1. dst' = dst /\ dst \in DOMAIN strm
    BY <1>2, SMTT(30) DEF TypeInv
  <2>2. strm[dst].by > 0 /\ strm[dst].name \in Names /\ disk[strm[dst].name].pkts = <<>>
    BY <1>2, <2>1
  <2>3. pc["main"] \in Ends \/ (pc["main"] \in {"fetch", "write"} /\ ev["main"].n = strm[dst].by)
    BY <1>2, <2>1, <2>2 DEF HeadInv, Ends
  <2> QED
    BY <1>2, <2>1, <2>2, <2>3, SMTT(30)
<1> QED
  BY <1>1, <1>2 DEF HeadInv, Ends

\* A new stream.
LEMMA HeadCreate ==
    ASSUME TypeInv, HeadInv, cfg' = cfg, NEW a, Output(a), NEW ret, NEW c \in Nat, NEW by \in Nat, Create(a, ret, c, by),
           a.type = "fifo" => strm = <<>> /\ by = 0,
           by > 0 => pc'["main"] \in Ends \/ (pc'["main"] = "fetch" /\ ev'["main"].n = by)
    PROVE  HeadInv'
<1>0. \A x \in Names : \/ disk'[x] = disk[x] /\ ~(x = a.name /\ Makes(a, ret))
                       \/ x = a.name /\ FileMade(x, a, ret, c)
  BY CreateDisk
<1>1. CASE ret \notin {"ok", "EIO"} /\ strm' = strm /\ dst' = 0
  <2>1. disk' = disk
    BY <1>1, Creates
  <2> QED
    BY <1>1, <2>1, HeadQuiet
<1>2. CASE ret \in {"ok", "EIO"} /\ StreamMade(a, ret, c, by)
  <2> DEFINE n == Len(strm) + 1
  <2>1. /\ DOMAIN strm' = 1..n /\ DOMAIN strm = 1..Len(strm) /\ Len(strm) \in Nat /\ dst' = n
        /\ strm'[n].name = a.name /\ strm'[n].by = by /\ \A r \in DOMAIN strm : strm'[r] = strm[r]
    BY <1>2 DEF StreamMade
  <2>2. a.type # "fifo" => \A x \in Names : IF x = a.name THEN FileMade(x, a, ret, c) ELSE disk'[x] = disk[x]
    BY <1>0, <1>2 DEF Makes
  <2>5. a.type # "fifo" \/ (DOMAIN strm' = {n} /\ by = 0)
    <3>1. strm = <<>> => DOMAIN strm' = {n}
      BY <2>1, SMTT(30)
    <3> QED
      BY <3>1
  <2>3. ASSUME NEW s \in DOMAIN strm', ~cfg'.listen, strm'[s].by > 0, strm'[s].name \in Names,
               \A r \in DOMAIN strm' : r > s => strm'[r].name # strm'[s].name
        PROVE  disk'[strm'[s].name].pkts = <<>> \/ disk'[strm'[s].name].pkts[1].n = strm'[s].by
    <3>0. a.type # "fifo"
      BY <2>1, <2>3, <2>5, SMTT(30)
    <3>1. CASE strm'[s].name = a.name
      BY <2>2, <2>3, <3>0, <3>1 DEF FileMade
    <3>2. CASE strm'[s].name # a.name
      <4>1. s \in DOMAIN strm /\ strm'[s] = strm[s] /\ DOMAIN strm \subseteq DOMAIN strm'
        BY <2>1, <3>2, SMTT(30)
      <4>2. \A r \in DOMAIN strm : r > s => strm[r].name # strm[s].name
        BY <2>1, <2>3, <4>1
      <4> QED
        BY <2>2, <2>3, <3>0, <3>2, <4>1, <4>2, ZenonT(30) DEF HeadInv, MarkerHeadsFile
    <3> QED
      BY <3>1, <3>2
  <2>4. MarkerHeadsFile'
    BY <2>3 DEF MarkerHeadsFile
  <2> QED
    BY <2>1, <2>4 DEF HeadInv, Ends
<1> QED
  BY <1>1, <1>2, CreateStream

\* The first packet of the file of a marker is the marker.
LEMMA HeadWrite ==
    ASSUME TypeInv, FilesInv, DstInv, HeadInv, cfg' = cfg, Write("main")
    PROVE  HeadInv'
<1>0. "main" \in Threads /\ pc["main"] = "write" /\ pc \in [Threads -> Labels]
  BY DEF Threads, Write, TypeInv
<1>1. ev' = ev /\ strm' = strm /\ dst' = dst
  BY <1>0, Writes
<1>4. PICK s \in Memory(reg["main"]) : NoEntry("main", s) \/ AddsEntry("main", s)
  BY <1>0, Writes
<1> DEFINE x == strm[s].name
           e == EntryOf("main")
           old == disk[x].pkts
<1> HIDE DEF x, e, old
<1>2. CASE NoEntry("main", s)
  <2>1. dst = 0 \/ (s = dst /\ ~Stale(dst))
    BY <1>0, DstMemory DEF DstInv
  <2>2. dst = 0 \/ pc'["main"] \in Ends \/ strm[dst].name \notin Names \/ strm[dst].by = 0
    <3>1. Open(s) /\ strm[s].fifo => strm[s].by = 0
      BY DEF FilesInv, HasFile, Open
    <3> QED
      BY <1>0, <1>2, <2>1, <3>1 DEF NoEntry, Ends
  <2> QED
    BY <1>0, <1>1, <1>2, <2>2, HeadQuiet DEF NoEntry, Ends
<1>3. CASE AddsEntry("main", s)
  <2>1. s = dst /\ s \in DOMAIN strm /\ x \in Names /\ disk' = WithEntry(x, e)
    BY <1>3 DEF AddsEntry, Open, DstInv, x, e
  <2>2. strm \in Seq(Stream) /\ dst # 0 /\ dst = Len(strm)
    <3>1. strm \in Seq(Stream) /\ dst \in {0, Len(strm)}
      BY DEF TypeInv, DstInv
    <3> QED
      BY <2>1, <3>1
  <2>3. old \in Seq(Entry) /\ disk'[x].pkts = Append(old, e) /\ e.n = ev["main"].n
    BY <2>1 DEF TypeInv, WithEntry, EntryOf, e, old
  <2>4. \A y \in Names : y # x => disk'[y] = disk[y]
    BY <2>1 DEF TypeInv, WithEntry
  <2>5. disk'[x].pkts # <<>> /\ disk'[x].pkts[1] = IF old = <<>> THEN e ELSE old[1]
    <3>1. Append(old, e) # <<>> /\ (old = <<>> => Append(old, e)[1] = e) /\ (old # <<>> => Append(old, e)[1] = old[1])
      BY <2>3
    <3> QED
      BY <2>3, <3>1
  <2>6. ASSUME NEW r \in DOMAIN strm, ~cfg.listen, strm[r].by > 0, strm[r].name \in Names,
               \A q \in DOMAIN strm : q > r => strm[q].name # strm[r].name
        PROVE  disk'[strm[r].name].pkts = <<>> \/ disk'[strm[r].name].pkts[1].n = strm[r].by
    <3>1. disk[strm[r].name].pkts = <<>> \/ disk[strm[r].name].pkts[1].n = strm[r].by
      BY <2>6 DEF HeadInv, MarkerHeadsFile
    <3>2. CASE strm[r].name # x
      BY <2>4, <2>6, <3>1, <3>2
    <3>3. CASE strm[r].name = x
      <4>1. r = dst \/ dst > r
        BY <2>2
      <4>2. r = dst
        BY <2>1, <2>6, <3>3, <4>1 DEF x
      <4>3. old = <<>> => ev["main"].n = strm[dst].by
        BY <1>0, <2>2, <2>6, <3>3, <4>2 DEF HeadInv, old
      <4> QED
        BY <2>3, <2>5, <3>1, <3>3, <4>2, <4>3 DEF old
    <3> QED
      BY <3>2, <3>3
  <2>7. MarkerHeadsFile'
    BY <1>1, <2>6 DEF MarkerHeadsFile
  <2> QED
    BY <1>1, <2>1, <2>5, <2>7 DEF HeadInv, x
<1> QED
  BY <1>2, <1>3, <1>4

LEMMA HeadStep ==
    ASSUME TypeInv, OptionsInv, StartInv, FilesInv, DstInv, HeadInv, cfg' = cfg, Next
    PROVE  HeadInv'
<1> USE DEF startup, signals, naming
<1>0. pc \in [Threads -> Labels] /\ "main" \in Threads /\ pc["tcp"] = "off"
  BY DEF TypeInv, Threads, DstInv
<1>1. ASSUME disk' = disk, strm' = strm, dst' = dst, pc["main"] \notin Ends \cup {"fetch", "write"} PROVE HeadInv'
  BY <1>1, HeadQuiet
<1>2. CASE ParseOutput \/ OpenInput \/ UdpError \/ LoopHead \/ ReadNothing \/ ReadEnds
  BY <1>1, <1>2 DEF ParseOutput, OpenInput, UdpError, LoopHead, ReadNothing, ReadEnds, Ends
<1>3. ASSUME NEW m \in Markers, HandleUdp(m) \/ ReadPacket(m) PROVE HeadInv'
  BY <1>1, <1>3 DEF HandleUdp, ReadPacket, Ends
<1>4. CASE CreateOutput
  <2>1. PICK o : Create(output, o.ret, cfg.comment, 0)
    BY <1>4 DEF CreateOutput
  <2>2. strm = <<>> /\ ~(0 > 0)
    BY <1>4, SMTT(30) DEF CreateOutput, StartInv
  <2> QED
    BY <2>1, <2>2, HeadCreate DEF TypeInv, OptionsInv
<1>5. CASE HandleMarker("main") \/ GenerateFilename("main") \/ LoadOld("main")
  BY <1>1, <1>5 DEF HandleMarker, GenerateFilename, LoadOld, Ends
<1>14. ASSUME NEW r \in 0..Len(strm), NEW s \in Memory(r), CloseStream(s)
       PROVE  /\ \A x \in Names : disk'[x].pkts = disk[x].pkts
              /\ DOMAIN strm' = DOMAIN strm
              /\ \A q \in DOMAIN strm : strm'[q].name = strm[q].name /\ strm'[q].by = strm[q].by
  <2>1. s \in 0..Len(strm)
    BY MemoryTyped
  <2> QED
    <3>1. \A x \in Names : disk'[x] = disk[x] \/ Removed(x)
      BY <1>14, <2>1, Closes
    <3>2. \A x \in Names : disk'[x].pkts = disk[x].pkts
      BY <3>1 DEF Removed, Absent, FilesInv, Unwritten
    <3> QED
      BY <1>14, <2>1, <3>2, Closes DEF ClosedAt
<1>6. CASE CloseOld("main")
  <2>1. PICK s \in Memory(reg["main"]) : CloseStream(s)
    BY <1>6 DEF CloseOld
  <2>2. dst' = 0 /\ reg["main"] \in 0..Len(strm)
    BY <1>0, <1>6 DEF CloseOld, TypeInv
  <2> QED
    BY <1>14, <2>1, <2>2, HeadQuiet
<1>7. CASE OpenNext("main")
  <2>1. PICK o : /\ Create(output', o.ret, CommentOf("main"), ByMarker("main"))
                 /\ Goto("main", "fetch") \/ Failed("main")
                 /\ Output(output') /\ ByMarker("main") \in Nat /\ CommentOf("main") \in Nat
    BY <1>0, <1>7, Opens
  <2>2. ev' = ev /\ output'.type # "fifo"
    BY <1>0, <1>7, Opens DEF OpenNext
  <2>3. ByMarker("main") > 0 => pc'["main"] \in Ends \/ (pc'["main"] = "fetch" /\ ev'["main"].n = ByMarker("main"))
    BY <1>0, <2>1, <2>2, SMTT(30) DEF Ends, Goto, Failed, ByMarker
  <2> QED
    BY <2>1, <2>2, <2>3, HeadCreate
<1>8. CASE Fetch("main")
  <2>1. disk' = disk /\ strm' = strm /\ dst' = dst /\ ev' = ev /\ pc["main"] = "fetch" /\ pc'["main"] = "write"
    BY <1>0, <1>8 DEF Fetch, Goto
  <2> QED
    BY <2>1, HeadQuiet DEF Ends
<1>9. CASE Write("main")
  BY <1>9, HeadWrite
<1>10. CASE Alarm
  <2>1. ev' = ev /\ dst \in 0..Len(strm) /\ pc["main"] # "exit"
    BY <1>10 DEF Alarm, TypeInv, Looping
  <2>2. CASE (\E s \in Memory(dst) : CloseStream(s)) /\ dst' = 0
    BY <1>14, <2>1, <2>2, HeadQuiet
  <2>3. CASE UNCHANGED <<pc, dst, strm, disk>>
    BY <2>1, <2>3, HeadQuiet
  <2> QED
    BY <1>10, <2>2, <2>3 DEF Alarm
<1>11. CASE Sigint
  <2>1. disk' = disk /\ strm' = strm /\ dst' = dst /\ ev' = ev /\ (pc' = pc \/ pc'["main"] = "aborted")
    BY <1>0, <1>11 DEF Sigint
  <2> QED
    BY <2>1, HeadQuiet DEF Ends
<1>12. CASE Close
  <2>1. PICK s \in Memory(dst) : CloseStream(s)
    BY <1>12 DEF Close
  <2>2. dst' = dst /\ dst \in 0..Len(strm) /\ pc'["main"] \in {"exit", "crashed"}
    BY <1>0, <1>12 DEF Close, TypeInv, Goto, Crash
  <2> QED
    BY <1>14, <2>1, <2>2, HeadQuiet DEF Ends
<1>13. CASE Ended
  <2>1. disk' = disk /\ strm' = strm /\ dst' = dst /\ ev' = ev /\ pc' = pc
    BY <1>13 DEF Ended, vars
  <2> QED
    BY <2>1, HeadQuiet
<1> QED
  BY <1>0, <1>2, <1>3, <1>4, <1>5, <1>6, <1>7, <1>8, <1>9, <1>10, <1>11, <1>12, <1>13, NoTcp DEF MainStep, Handle

LEMMA NameStep ==
    ASSUME TypeInv, DstInv, NameInv, cfg' = cfg, Next
    PROVE  NameInv'
<1> USE DEF startup, signals, naming
<1>0. pc \in [Threads -> Labels] /\ "main" \in Threads /\ "tcp" \in Threads /\ "main" # "tcp" /\ pc["tcp"] = "off"
  BY DEF TypeInv, Threads, DstInv
<1> SUFFICES ASSUME pc'["main"] \in {"load", "closing", "create"} PROVE NameInv'
  BY DEF NameInv
<1>1. CASE ParseOutput \/ OpenInput \/ CreateOutput \/ UdpError \/ LoopHead \/ ReadNothing \/ ReadEnds \/ Close
  BY <1>0, <1>1
  DEF ParseOutput, OpenInput, CreateOutput, UdpError, LoopHead, ReadNothing, ReadEnds, Close, Goto, Crash, Interrupted
<1>2. ASSUME NEW m \in Markers, HandleUdp(m) \/ ReadPacket(m) PROVE FALSE
  BY <1>0, <1>2 DEF HandleUdp, ReadPacket, Deliver, Goto
<1>3. CASE HandleMarker("main") \/ OpenNext("main") \/ Fetch("main")
  BY <1>0, <1>3 DEF HandleMarker, Arrived, OpenNext, Handled, Fetch, Failed, Crash, Goto
<1>4. CASE Write("main")
  BY <1>0, <1>4, Writes, WrittenLabel DEF NoEntry, AddsEntry
<1>5. CASE GenerateFilename("main")
  <2> DEFINE q == ev["main"].seq
             x == IF cfg.mode = "I" THEN FreeName(q, suffix) ELSE 0
  <2>1. q \in Nat /\ suffix \in Nat
    BY <1>0 DEF TypeInv, EventType
  <2>2. /\ buffer' = <<q, x>> /\ disk' = disk /\ output' = output
        /\ cfg.mode = "A" /\ buffer' = output.name => pc'["main"] \in {"crashed", "fetch"}
    BY <1>0, <1>5 DEF GenerateFilename, Crash, Goto
  <2>3. buffer' # Unset
    BY <2>1, <2>2 DEF Unset
  <2>4. cfg.mode = "I" /\ buffer' \in Names => disk[buffer'].file = NoFile
    <3>1. cfg.mode = "I" => buffer' = <<q, FreeName(q, suffix)>>
      BY <2>2
    <3> HIDE DEF q
    <3> QED
      BY <2>1, <3>1, FreeNameFree DEF Exists
  <2> HIDE DEF x, q
  <2> QED
    BY <2>2, <2>3, <2>4 DEF NameInv
<1>10. ASSUME NEW r \in 0..Len(strm), NEW s \in Memory(r), CloseStream(s), NEW x \in Names, disk[x].file = NoFile
       PROVE  disk'[x].file = NoFile
  <2>1. s \in 0..Len(strm)
    BY MemoryTyped
  <2> QED
    BY <1>10, <2>1, Closes, SMTT(30) DEF Removed, Absent
<1>6. CASE CloseOld("main")
  <2>1. PICK s \in Memory(reg["main"]) : CloseStream(s)
    BY <1>6 DEF CloseOld
  <2>2. pc["main"] = "closing" /\ buffer' = buffer /\ output' = output /\ reg["main"] \in 0..Len(strm)
    BY <1>0, <1>6 DEF CloseOld, TypeInv
  <2> QED
    BY <1>10, <2>1, <2>2 DEF NameInv
<1>11. CASE LoadOld("main")
  BY <1>11 DEF LoadOld, NameInv
<1>7. CASE Alarm
  <2>1. buffer' = buffer /\ pc["main"] # "exit" /\ dst \in 0..Len(strm)
    BY <1>7 DEF Alarm, Looping, TypeInv
  <2>2. pc' = pc /\ (output' = output \/ output' = stream_addr_str(Unset, {}, FALSE))
    BY <1>7, <2>1, DstMemory DEF Alarm
  <2>3. stream_addr_str(Unset, {}, FALSE).name = Unset
    BY DEF stream_addr_str, FileAddr
  <2>4. disk' = disk \/ \E s \in Memory(dst) : CloseStream(s)
    BY <1>7 DEF Alarm
  <2>5. \A x \in Names : disk[x].file = NoFile => disk'[x].file = NoFile
    BY <1>10, <2>1, <2>4
  <2> QED
    BY <2>1, <2>2, <2>3, <2>5 DEF NameInv
<1>8. CASE Sigint
  BY <1>0, <1>8 DEF Sigint, NameInv
<1>9. CASE Ended
  BY <1>9 DEF Ended, vars, NameInv
<1> QED
  BY <1>0, <1>1, <1>2, <1>3, <1>4, <1>5, <1>6, <1>7, <1>8, <1>9, <1>11, NoTcp DEF MainStep, Handle

-----------------------------------------------------------------------------
LEMMA CapdumpInit == Init => CapdumpInv
<1> SUFFICES ASSUME Init PROVE CapdumpInv
  OBVIOUS
<1>1. TypeInv /\ OptionsInv /\ StartInv
  BY TypeInit
<1>2. strm = <<>> /\ dst = 0 /\ \A x \in Names : disk[x].pkts = <<>>
  BY DEF Init
<1>3. pc["main"] = "start" /\ pc["tcp"] = "off"
  BY DEF Init, Threads
<1>4. /\ \A t \in Threads : ev[t].n = 0 /\ ev[t].at = 0 /\ pc[t] \notin Busy
      /\ "main" \in Threads /\ "tcp" \in Threads /\ tcp_buf.n = 0 /\ count = 0
  BY DEF Init, Event, Busy, Threads
<1>5. WrittenInv
  <2>1. HeldInv
    BY <1>4, SMTT(30) DEF HeldInv
  <2> QED
    BY <1>2, <2>1 DEF WrittenInv
<1>6. FilesInv
  BY <1>2 DEF FilesInv, Unwritten
<1>7. SingleInv
  BY <1>2, <1>3 DEF SingleInv, DstInv, HeadInv, MarkerHeadsFile, NameInv
<1> QED
  BY <1>1, <1>5, <1>6, <1>7 DEF CapdumpInv

LEMMA CapdumpStays ==
    ASSUME CapdumpInv, UNCHANGED vars
    PROVE  CapdumpInv'
<1> USE DEF vars, startup, signals, naming
<1>1. TypeInv' /\ OptionsInv' /\ StartInv'
  BY DEF CapdumpInv, TypeInv, OptionsInv, StartInv
<1>2. WrittenInv'
  BY WrittenQuiet DEF CapdumpInv
<1>3. FilesInv'
  BY FilesQuiet DEF CapdumpInv
<1>4. SingleInv'
  BY DEF CapdumpInv, SingleInv, DstInv, HeadInv, MarkerHeadsFile, NameInv
<1> QED
  BY <1>1, <1>2, <1>3, <1>4 DEF CapdumpInv

\* The parts of the invariant hold in every state capdump reaches, with both of
\* its threads and with the signal handler at any point of them.
THEOREM CapdumpInvariant == Spec => []CapdumpInv
<1>1. CapdumpInv /\ [Next]_vars => CapdumpInv'
  <2> SUFFICES ASSUME CapdumpInv, Next PROVE CapdumpInv'
    BY CapdumpStays
  <2>1. TypeInv /\ OptionsInv /\ StartInv /\ WrittenInv /\ FilesInv /\ SingleInv
    BY DEF CapdumpInv
  <2>2. TypeInv' /\ OptionsInv' /\ StartInv' /\ WrittenInv' /\ FilesInv'
    BY <2>1, TypeStep, CfgStays, StartStep, WrittenStep, FilesStep DEF OptionsInv
  <2>3. SingleInv'
    <3> SUFFICES ASSUME ~cfg'.listen PROVE DstInv' /\ HeadInv' /\ NameInv'
      BY DEF SingleInv
    <3>1. cfg' = cfg
      BY CfgStays
    <3>2. ~cfg.listen /\ DstInv /\ HeadInv /\ NameInv
      BY <2>1, <3>1 DEF SingleInv
    <3> QED
      BY <2>1, <3>1, <3>2, DstStep, HeadStep, NameStep
  <2> QED
    BY <2>2, <2>3 DEF CapdumpInv
<1> QED
  BY <1>1, CapdumpInit, PTL DEF Spec

\* write_packet: each thread's packets are in each file in the order they arrived, and
\* none is written twice, whatever the two threads and the signal handler do to dst
\* between the marker and the write, except for what tcprelay still has in its buffer
\* when a connection brings nothing.
THEOREM WrittenOnceInOrder == Spec => []OnceInOrder
<1>1. CapdumpInv => OnceInOrder
  BY WrittenApart DEF CapdumpInv
<1> QED
  BY <1>1, CapdumpInvariant, PTL

\* open_next and the second look at dst: without the TCP thread, a file a marker
\* opened is empty or begins with that marker, wherever SIGALRM strikes.
THEOREM MarkersHeadFiles == Spec => []MarkerHeadsFile
<1>1. CapdumpInv => MarkerHeadsFile
  BY DEF CapdumpInv, SingleInv, HeadInv, MarkerHeadsFile
<1> QED
  BY <1>1, CapdumpInvariant, PTL

\* stream_file_open accepts what stream_file_create has written and stream_close has
\* saved, and finds the first packet behind the comment, for every comment whose length
\* fits into comment_size and for every version.
THEOREM CreatedFilesReopen == Spec => []CreatedFilesOpen
<1>1. ASSUME NEW c \in Nat, c < UINT16
      PROVE  stream_file_open(stream_file_create(c)) = [ret |-> "ok", pos |-> stream_file_create(c).size]
  <2>1. stream_file_create(c) # NoFile
    BY MadeFiles
  <2>2. ~(HEADER > PLAIN) /\ ~(HEADER + c < HEADER) /\ is_valid_version(VERSION)
    BY HeaderAssumption, SMTT(30) DEF is_valid_version
  <2>7. c % UINT16 = c
    BY <1>1, SMT DEF UINT16
  <2> DEFINE f == stream_file_create(c)
  <2>3. /\ f.size = HEADER + c /\ f.magic = TRUE /\ f.version = VERSION
        /\ f.header_offset = HEADER /\ f.comment_size = c
    BY <2>7 DEF stream_file_create
  <2>4. LoadHeader(f).version = VERSION /\ LoadHeader(f).offset = HEADER
    BY <2>3 DEF LoadHeader
  <2> HIDE DEF f
  <2>5. f # NoFile
    BY <2>1 DEF f
  <2>6. stream_file_open(f) = [ret |-> "ok", pos |-> f.size]
    <3>1. /\ ~(LoadHeader(f).offset > PLAIN) /\ ~(f.size < HEADER) /\ is_valid_version(LoadHeader(f).version)
          /\ LoadHeader(f).offset + f.comment_size = f.size /\ ~(f.size < f.size)
      BY <2>2, <2>3, <2>4, HeaderAssumption, SMTT(30)
    <3> QED
      BY <2>3, <2>5, <3>1 DEF stream_file_open
  <2> QED
    BY <2>6 DEF f
<1>2. CapdumpInv => CreatedFilesOpen
  <2> SUFFICES ASSUME CapdumpInv, NEW s \in DOMAIN strm, strm[s].saved, strm[s].name \in Names,
                      \A r \in DOMAIN strm : r > s => strm[r].name # strm[s].name, strm[s].comment < UINT16
               PROVE  stream_file_open(disk[strm[s].name].file) = [ret |-> "ok", pos |-> disk[strm[s].name].file.size]
    BY DEF CreatedFilesOpen
  <2>1. disk[strm[s].name].file = stream_file_create(strm[s].comment)
    BY DEF CapdumpInv, FilesInv, HasFile, Latest
  <2>2. strm[s].comment \in Nat
    <3>1. strm \in Seq(Stream)
      BY DEF CapdumpInv, TypeInv
    <3>2. strm[s] \in Stream
      BY <3>1, SMTT(30)
    <3> QED
      BY <3>2 DEF Stream
  <2> QED
    BY <1>1, <2>1, <2>2
<1> QED
  BY <1>2, CapdumpInvariant, PTL

\* generate_filename and open_next: without the TCP thread no marker truncates a trace
\* in mode I, nor the trace that is being written in mode A.
THEOREM MarkersKeepTraces == Spec => TracesKept
<1> DEFINE Keeps ==
        \A x \in Names :
          /\ Looping /\ ~cfg.listen
          /\ cfg.mode = "I" \/ (cfg.mode = "A" /\ output.name = x)
          => /\ disk[x].file \notin {NoFile, Fifo} => disk'[x].file = disk[x].file
             /\ Len(disk'[x].pkts) >= Len(disk[x].pkts)
<1> HIDE DEF Keeps
<1>1. CapdumpInv /\ [Next]_vars => [Keeps]_vars
  <2> USE DEF startup, signals, naming
  <2> SUFFICES ASSUME CapdumpInv, Next, NEW x \in Names, Looping, ~cfg.listen,
                      cfg.mode = "I" \/ (cfg.mode = "A" /\ output.name = x)
               PROVE  /\ disk[x].file \notin {NoFile, Fifo} => disk'[x].file = disk[x].file
                      /\ Len(disk'[x].pkts) >= Len(disk[x].pkts)
    BY DEF Keeps
  <2>1. TypeInv /\ OptionsInv /\ FilesInv /\ DstInv /\ NameInv /\ "main" \in Threads
    BY DEF CapdumpInv, SingleInv, Threads
  <2>2. disk[x].pkts \in Seq(Entry) /\ Len(disk[x].pkts) \in Nat
    BY <2>1, SMTT(30) DEF TypeInv
  <2>3. CASE disk'[x] = disk[x]
    BY <2>2, <2>3
  <2>4. CASE OpenNext("main")
    <3>1. pc["main"] = "create"
      BY <2>4 DEF OpenNext
    <3>5. disk'[x] = disk[x] \/ (x = buffer /\ disk'[x].pkts = <<>>)
      BY <2>1, <2>4, Opens, CreateDisk DEF FileMade
    <3>6. CASE x = buffer /\ disk'[x].pkts = <<>>
      <4>1. cfg.mode = "I" /\ disk[x].file = NoFile
        BY <2>1, <3>1, <3>6 DEF NameInv
      <4>2. disk[x].pkts = <<>>
        BY <2>1, <4>1 DEF FilesInv, Unwritten
      <4> QED
        BY <3>6, <4>1, <4>2
    <3> QED
      BY <2>3, <3>5, <3>6
  <2>5. CASE Write("main")
    <3> DEFINE e == EntryOf("main")
    <3> HIDE DEF e
    <3>1. PICK s : NoEntry("main", s) \/ AddsEntry("main", s)
      BY <2>1, <2>5, Writes
    <3>4. disk' = disk \/ \E y \in Names : disk' = WithEntry(y, e)
      BY <3>1 DEF NoEntry, AddsEntry, e
    <3>2. disk'[x] = disk[x] \/ disk'[x] = [file |-> disk[x].file, pkts |-> Append(disk[x].pkts, e)]
      BY <2>1, <3>4 DEF TypeInv, WithEntry
    <3>3. CASE disk'[x] = [file |-> disk[x].file, pkts |-> Append(disk[x].pkts, e)]
      <4>1. Len(Append(disk[x].pkts, e)) = Len(disk[x].pkts) + 1
        BY <2>2
      <4> QED
        BY <2>2, <3>3, <4>1
    <3> QED
      BY <2>3, <3>2, <3>3
  <2>6. CASE CreateOutput
    BY <2>6 DEF CreateOutput, Looping
  <2>7. CASE ParseOutput \/ OpenInput \/ UdpError \/ LoopHead \/ ReadNothing \/ ReadEnds \/ Sigint \/ Ended
    BY <2>3, <2>7 DEF ParseOutput, OpenInput, UdpError, LoopHead, ReadNothing, ReadEnds, Sigint, Ended, vars
  <2>8. CASE \E m \in Markers : HandleUdp(m) \/ ReadPacket(m)
    BY <2>3, <2>8 DEF HandleUdp, ReadPacket
  <2>9. CASE HandleMarker("main") \/ GenerateFilename("main") \/ LoadOld("main") \/ Fetch("main")
    BY <2>3, <2>9 DEF HandleMarker, GenerateFilename, LoadOld, Fetch
  <2>10. ASSUME NEW r \in 0..Len(strm), NEW s \in Memory(r), CloseStream(s)
         PROVE  /\ disk[x].file \notin {NoFile, Fifo} => disk'[x].file = disk[x].file
                /\ Len(disk'[x].pkts) >= Len(disk[x].pkts)
    <3>1. s \in 0..Len(strm)
      BY <2>1, MemoryTyped
    <3>2. disk'[x] = disk[x] \/ Removed(x)
      BY <2>1, <2>10, <3>1, Closes
    <3>3. CASE Removed(x)
      <4>1. disk'[x].pkts = disk[x].pkts
        BY <2>1, <3>3 DEF Removed, Absent, FilesInv, Unwritten
      <4> QED
        BY <2>2, <3>3, <4>1 DEF Removed
    <3> QED
      BY <2>3, <3>2, <3>3
  <2>11. CASE CloseOld("main") \/ Alarm \/ Close
    <3>1. dst \in 0..Len(strm) /\ reg["main"] \in 0..Len(strm)
      BY <2>1 DEF TypeInv
    <3>2. disk' = disk \/ (\E s \in Memory(dst) : CloseStream(s)) \/ (\E s \in Memory(reg["main"]) : CloseStream(s))
      BY <2>11 DEF CloseOld, Alarm, Close
    <3> QED
      BY <2>3, <2>10, <3>1, <3>2
  <2> QED
    BY <2>1, <2>4, <2>5, <2>6, <2>7, <2>8, <2>9, <2>11, NoTcp DEF MainStep, Handle, DstInv
<1>2. TracesKept <=> [][Keeps]_vars
  BY DEF TracesKept, Keeps
<1> QED
  BY <1>1, <1>2, CapdumpInvariant, PTL DEF Spec
=============================================================================
