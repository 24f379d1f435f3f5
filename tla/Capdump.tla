------------------------------ MODULE Capdump -------------------------------
(***************************************************************************)
(* tools/capdump.c: a stream is saved to files, and markers (from          *)
(* tools/capmarker.c) begin a new file or stop the saving.                 *)
(*                                                                         *)
(* Markers come in the stream, as datagrams that the main thread takes up  *)
(* between two packets, and over TCP, where a second thread handles them   *)
(* without a lock.  SIGALRM comes every second and runs handle_terminate_  *)
(* signal at any point of either thread.  A step of a thread ends where it *)
(* reads or writes the variables the other and the handler use: dst,       *)
(* output, the counters and the buffer of generate_filename.               *)
(*                                                                         *)
(* A file name is <<seq, suffix>>, seq from the marker and suffix 0        *)
(* without one.  A message has the number n of its arrival; at counts the  *)
(* connections that brought none as well.  A file holds what was written   *)
(* to it; it is on the disk for certain when its stream was closed and the *)
(* buffer of stdio could be flushed (saved).                               *)
(***************************************************************************)
EXTENDS StreamOpen

CONSTANTS
    Invocations,   \* [cmd, cfg]: a command line with its terminals and interface, and the
                   \* options marker, key, listen, quit, mode, max, comment, marker_comment
    Markers,       \* [mark, key, term, seq, comment]: mark FALSE for any other packet
    Files,         \* files that exist before: a function from names
    Names, MaxEvents, MaxRelayed     \* bounds; what may arrive without and with --listen

Message == [mark : BOOLEAN, key : BOOLEAN, term : BOOLEAN, seq : Nat, comment : Nat]

\* The texts of a command line, the unsigned fields of a marker, and the names a
\* marker may ask for, which the bound on the files includes; one suffix is the highest.
ASSUME InvocationsAssumption ==
    \A i \in Invocations : i.cmd.o \in Seq(Texts) /\ i.cmd.args \in Seq(Texts) /\ i.cfg.comment \in Nat
ASSUME NamesAssumption ==
    /\ Names \subseteq Nat \X Nat
    /\ \E top \in {0} \cup {n[2] : n \in Names} : \A n \in Names : n[2] <= top
ASSUME MarkersAssumption == \A m \in Markers : m \in Message /\ <<m.seq, 0>> \in Names
ASSUME FilesAssumption == \A x \in DOMAIN Files : Files[x] \in CapFile

VARIABLES
    cfg, cmd,
    pc, ev, reg,   \* per thread: where it is, what it handles, its copy of dst while in use
    keep_running, marker_terminate, marker_terminate_TO,
    src,           \* the input: addresses (-1 for no stream) and socket
    output, dst,   \* address and stream of the current file, 0 for NULL
    buffer, suffix,      \* the static variables of generate_filename
    tcp_buf,       \* and the one of tcprelay: [msg, n]
    strm,          \* streams created: [name, open, ok, by, comment, fifo, saved]
    disk,          \* files: [file, pkts]
    count, read, status

startup == <<cfg, cmd, src, status>>
signals == <<keep_running, marker_terminate, marker_terminate_TO>>
naming == <<output, buffer, suffix>>
vars == <<startup, pc, ev, reg, signals, naming, tcp_buf, dst, strm, disk, count, read>>

Threads == {"main", "tcp"}
Stdout == <<-1, 0>>
Unset == <<-2, 0>>
Blank == [mark |-> FALSE, key |-> FALSE, term |-> FALSE, seq |-> 0, comment |-> 0]
Absent == [file |-> NoFile, pkts |-> <<>>]
Event(m, n, at, via) ==
    [mark |-> m.mark, key |-> m.key, term |-> m.term, seq |-> m.seq, comment |-> m.comment, n |-> n, at |-> at, via |-> via]
Running == pc["main"] \notin {"exit", "aborted", "crashed"}
Looping == pc["main"] \in {"loop", "read", "mark", "name", "load", "closing", "create", "fetch", "write", "close"}

Init ==
    /\ \E i \in Invocations : cfg = i.cfg /\ cmd = i.cmd
    /\ pc = [t \in Threads |-> IF t = "main" THEN "start" ELSE "off"]
    /\ ev = [t \in Threads |-> Event(Blank, 0, 0, "src")] /\ reg = [t \in Threads |-> 0]
    /\ keep_running = TRUE /\ marker_terminate = 0 /\ marker_terminate_TO = 0
    /\ src = [n |-> 0, socket |-> FALSE]
    /\ output = NoAddr /\ dst = 0 /\ buffer = Unset /\ suffix = 1 /\ tcp_buf = [msg |-> Blank, n |-> 0]
    /\ strm = <<>> /\ count = 0 /\ read = 0 /\ status = 0
    /\ disk = [x \in Names |-> [file |-> IF x \in DOMAIN Files THEN Files[x] ELSE NoFile, pkts |-> <<>>]]

Goto(t, l) == pc' = [pc EXCEPT ![t] = l]
Crash == Goto("main", "crashed")

-----------------------------------------------------------------------------
(* Start-up *)

\* -o, else stdout if it is redirected, else the last argument.  set_destination
\* does not look at what stream_addr_aton says.
ParseOutput ==
    /\ pc["main"] = "start"
    /\ LET o == IF cmd.o = <<>> THEN NoAddr ELSE stream_addr_aton(cmd.o[1]).addr
           n == Len(cmd.args)
       IN /\ output' = IF stream_addr_is_set(o) THEN o
                       ELSE IF ~cmd.stdout_tty THEN stream_addr_str(Stdout, {}, FALSE)
                       ELSE IF n > 0 THEN stream_addr_aton(cmd.args[n]).addr ELSE o
          /\ cmd' = IF stream_addr_is_set(o) \/ ~cmd.stdout_tty \/ n = 0 THEN cmd
                    ELSE [cmd EXCEPT !.args = SubSeq(@, 1, n - 1)]
          /\ Goto("main", IF stream_addr_is_set(o) \/ ~cmd.stdout_tty \/ n > 0 THEN "input" ELSE "exit")
    /\ UNCHANGED <<cfg, src, status, ev, reg, signals, buffer, suffix, tcp_buf, dst, strm, disk, count, read>>

\* The input; the command line is not looked at again.
OpenInput ==
    /\ pc["main"] = "input"
    /\ \E o \in stream_from_getopt(cmd.args, cmd.stdin, cmd.stdin_tty, cmd.iface, cmd.bufsize,
                                   [x \in Names |-> disk[x].file]) :
          IF o.ret # "ok" THEN Goto("main", "exit") /\ status' = 1 /\ UNCHANGED src
          ELSE Goto("main", "output") /\ src' = [n |-> o.n, socket |-> o.socket] /\ UNCHANGED status
    /\ cmd' = <<>>
    /\ UNCHANGED <<cfg, ev, reg, signals, naming, tcp_buf, dst, strm, disk, count, read>>

\* stream_create for the address a: fopen truncates the file; a stream whose header
\* could not be written has no callbacks.  A FIFO that could not be opened is removed.
Create(a, ret, comment, by) ==
    LET made == ret \in {"ok", "EIO"}
        file == IF ret = "ok" THEN stream_file_create(comment) ELSE EmptyFile
    IN /\ disk' = IF a.name \in Names /\ a.type = "capfile" /\ made
                  THEN [disk EXCEPT ![a.name] = [file |-> file, pkts |-> <<>>]]
                  ELSE IF a.name \in Names /\ a.type = "fifo" /\ ret = "ok"
                  THEN [disk EXCEPT ![a.name] = [file |-> Fifo, pkts |-> <<>>]]
                  ELSE disk
       /\ strm' = IF made THEN Append(strm, [name |-> a.name, open |-> TRUE, ok |-> ret = "ok", by |-> by,
                                             comment |-> comment, fifo |-> a.type = "fifo", saved |-> FALSE])
                  ELSE strm
       /\ dst' = IF made THEN Len(strm) + 1 ELSE 0

\* The output.  Without an input stream, stream_num_address reads through NULL.
CreateOutput ==
    /\ pc["main"] = "output"
    /\ \E o \in stream_create(output, output.name \in Names /\ disk[output.name].file # NoFile) :
          /\ Create(output, o.ret, cfg.comment, 0)
          /\ IF o.ret # "ok" THEN Goto("main", "exit") /\ status' = 1
             ELSE IF src.n = -1 THEN Crash /\ UNCHANGED status
             ELSE pc' = [pc EXCEPT !["main"] = "loop", !["tcp"] = IF cfg.listen THEN "accept" ELSE "off"] /\ UNCHANGED status
    /\ UNCHANGED <<cfg, cmd, src, ev, reg, signals, naming, tcp_buf, count, read>>

-----------------------------------------------------------------------------
(* What arrives *)

Deliver(t, m, n, via) ==
    /\ count < IF cfg.listen THEN MaxRelayed ELSE MaxEvents
    /\ count' = count + 1
    /\ ev' = [ev EXCEPT ![t] = Event(m, n, count + 1, via)]
    /\ Goto(t, "mark")

\* handle_udp: a datagram that has the size of a marker.
HandleUdp(m) ==
    /\ pc["main"] = "loop" /\ keep_running /\ cfg.listen
    /\ Deliver("main", m, count + 1, "udp")
    /\ UNCHANGED <<startup, reg, signals, naming, tcp_buf, dst, strm, disk, read>>

\* error(): recvfrom fails.
UdpError ==
    /\ pc["main"] = "loop" /\ keep_running /\ cfg.listen
    /\ Goto("main", "exit") /\ status' = 1
    /\ UNCHANGED <<cfg, cmd, src, ev, reg, signals, naming, tcp_buf, dst, strm, disk, count, read>>

LoopHead ==
    /\ pc["main"] = "loop"
    /\ Goto("main", IF keep_running THEN "read" ELSE "close")
    /\ UNCHANGED <<startup, ev, reg, signals, naming, tcp_buf, dst, strm, disk, count, read>>

ReadPacket(m) ==
    /\ pc["main"] = "read"
    /\ Deliver("main", m, count + 1, "src")
    /\ read' = read + 1
    /\ UNCHANGED <<startup, reg, signals, naming, tcp_buf, dst, strm, disk>>

\* Mutant of Interrupted: an interrupted call is taken for one that read a packet.
InterruptedFallsThrough == "mark"

\* EINTR: goes on, unless the signal was one to stop.
Interrupted == IF keep_running THEN "loop" ELSE "close"

\* EAGAIN, and EINTR from a socket.
ReadNothing ==
    /\ pc["main"] = "read"
    /\ \E l \in {"loop"} \cup (IF src.socket THEN {Interrupted} ELSE {}) : Goto("main", l)
    /\ UNCHANGED <<startup, ev, reg, signals, naming, tcp_buf, dst, strm, disk, count, read>>

\* The end of the stream, or an error.
ReadEnds ==
    /\ pc["main"] = "read"
    /\ Goto("main", "close")
    /\ UNCHANGED <<startup, ev, reg, signals, naming, tcp_buf, dst, strm, disk, count, read>>

\* tcprelay: a connection, and one recvfrom.
TcpAccept(m) ==
    /\ pc["tcp"] = "accept" /\ Looping /\ keep_running
    /\ Deliver("tcp", m, count + 1, "tcp")
    /\ tcp_buf' = [msg |-> m, n |-> count + 1]
    /\ UNCHANGED <<startup, reg, signals, naming, dst, strm, disk, read>>

\* A peer that sends nothing leaves the message of the one before in the buffer, where
\* it is handled and written again.
TcpEmpty ==
    /\ pc["tcp"] = "accept" /\ Looping /\ keep_running
    /\ Deliver("tcp", tcp_buf.msg, tcp_buf.n, "tcp")
    /\ UNCHANGED <<startup, reg, signals, naming, tcp_buf, dst, strm, disk, read>>

TcpStops ==
    /\ pc["tcp"] = "accept" /\ Looping /\ ~keep_running
    /\ Goto("tcp", "done")
    /\ UNCHANGED <<startup, ev, reg, signals, naming, tcp_buf, dst, strm, disk, count, read>>

\* error(): accept or recvfrom fails.
TcpError ==
    /\ pc["tcp"] = "accept" /\ Looping
    /\ Goto("main", "exit") /\ status' = 1
    /\ UNCHANGED <<cfg, cmd, src, ev, reg, signals, naming, tcp_buf, dst, strm, disk, count, read>>

-----------------------------------------------------------------------------
(* handle_marker, by either thread *)

Failed(t) == Goto(t, IF t = "main" THEN "close" ELSE "done")

\* validate_key and handle_marker up to open_next.  A key must have been given.
\* The name of an output that is no file is read through a wild pointer.
Arrived(t) ==
    LET valid == cfg.marker /\ ev[t].mark /\ cfg.key /\ ev[t].key
        to(l) == Goto(t, l) /\ UNCHANGED marker_terminate
    IN IF ~valid THEN to("fetch")
       ELSE IF output.type \notin {"capfile", "fifo"} THEN Crash /\ UNCHANGED marker_terminate
       ELSE IF output.name = Stdout THEN Failed(t) /\ UNCHANGED marker_terminate
       ELSE IF ev[t].term THEN Goto(t, "fetch") /\ marker_terminate' = marker_terminate + 1
       ELSE to("name")

HandleMarker(t) ==
    /\ pc[t] = "mark" /\ Looping
    /\ Arrived(t)
    /\ UNCHANGED <<startup, ev, reg, keep_running, marker_terminate_TO, naming, tcp_buf, dst, strm, disk, count, read>>

Exists(x) == disk[x].file # NoFile

\* Mutant of FreeName: the name with a suffix is not looked for.
FreeNameOnce(seq, s) == IF Exists(<<seq, 0>>) THEN s ELSE 0

\* The suffix of the name that generate_filename finds, trying s, s + 1, ... .
FreeName(seq, s) ==
    IF ~Exists(<<seq, 0>>) THEN 0
    ELSE LET taken(x) == <<seq, x>> \in Names /\ Exists(<<seq, x>>)
         IN CHOOSE x \in {s} \cup {n[2] + 1 : n \in Names} : x >= s /\ ~taken(x) /\ \A y \in s..x - 1 : taken(y)

\* generate_filename.  Appending to the file that is open ends here, with
\* stream_flush.
GenerateFilename(t) ==
    /\ pc[t] = "name" /\ Looping
    /\ LET x == IF cfg.mode = "I" THEN FreeName(ev[t].seq, suffix) ELSE 0
       IN /\ buffer' = <<ev[t].seq, x>>
          /\ suffix' = IF x > 0 THEN x + 1 ELSE suffix
    /\ IF cfg.mode = "A" /\ buffer' = output.name THEN IF dst = 0 THEN Crash ELSE Goto(t, "fetch")
       ELSE Goto(t, "load")
    /\ UNCHANGED <<startup, ev, reg, signals, output, tcp_buf, dst, strm, disk, count, read>>

\* A pointer to a stream that was closed: using it is undefined.  It has no effect, or
\* the program crashes, or a later stream has the memory and is used in its place.
Stale(s) == s # 0 /\ ~strm[s].open
Memory(s) == {s} \cup IF Stale(s) THEN {r \in DOMAIN strm : r > s /\ strm[r].open} ELSE {}

\* stream_close: fclose writes what stdio has buffered, if it can, and nobody looks at its
\* result.  A FIFO is removed and not closed.
CloseStream(s) ==
    IF s = 0 \/ Stale(s) \/ ~strm[s].ok THEN UNCHANGED <<strm, disk>>
    ELSE /\ \E flushed \in BOOLEAN :
               strm' = [strm EXCEPT ![s] = [@ EXCEPT !.open = FALSE, !.saved = flushed /\ ~strm[s].fifo]]
         /\ disk' = [x \in Names |-> IF x = strm[s].name /\ disk[x].file = Fifo THEN Absent ELSE disk[x]]

\* open_next: *st is read for stream_close.
LoadOld(t) ==
    /\ pc[t] = "load" /\ Looping
    /\ reg' = [reg EXCEPT ![t] = dst]
    /\ Goto(t, "closing")
    /\ UNCHANGED <<startup, ev, signals, naming, tcp_buf, dst, strm, disk, count, read>>

CloseOld(t) ==
    /\ pc[t] = "closing" /\ Looping
    /\ \E s \in Memory(reg[t]) : CloseStream(s)
    /\ dst' = 0
    /\ \/ Goto(t, "create")
       \/ Stale(reg[t]) /\ Crash
    /\ reg' = [reg EXCEPT ![t] = 0]
    /\ UNCHANGED <<startup, ev, signals, naming, tcp_buf, count, read>>

\* Mutant of Handled: write_packet is given the stream from before the marker.
HandledStale(t) == Goto(t, "write")

\* dst is read again for write_packet.
Handled(t) == Goto(t, "fetch")

\* The rest of open_next: what is in the buffer by now.
OpenNext(t) ==
    /\ pc[t] = "create" /\ Looping
    /\ output' = stream_addr_str(buffer, {"DUPLICATE"}, FALSE)
    /\ \E o \in stream_create(output', TRUE) :
          /\ Create(output', o.ret, IF cfg.marker_comment THEN ev[t].comment ELSE cfg.comment,
                    IF ev[t].via = "src" THEN ev[t].n ELSE 0)
          /\ IF o.ret = "ok" THEN Handled(t) ELSE Failed(t)
    /\ UNCHANGED <<startup, ev, reg, signals, buffer, suffix, tcp_buf, count, read>>

-----------------------------------------------------------------------------
(* write_packet *)

Fetch(t) ==
    /\ pc[t] = "fetch" /\ Looping
    /\ reg' = [reg EXCEPT ![t] = dst]
    /\ Goto(t, "write")
    /\ UNCHANGED <<startup, ev, signals, naming, tcp_buf, dst, strm, disk, count, read>>

\* Where a thread goes behind a write.
Written(t) ==
    IF t = "tcp" THEN "accept"
    ELSE IF ev[t].via = "udp" THEN "read"
    ELSE IF cfg.max > 0 /\ read >= cfg.max THEN "close" ELSE "loop"

\* A stream without callbacks fails an assertion.
Write(t) ==
    /\ pc[t] = "write" /\ Looping
    /\ \E s \in Memory(reg[t]) :
          LET x == strm[s].name
              usable == s # 0 /\ strm[s].open /\ strm[s].ok
          IN \/ (s = 0 \/ Stale(s)) /\ Goto(t, Written(t)) /\ UNCHANGED disk
             \/ s # 0 /\ (Stale(s) \/ ~strm[s].ok) /\ Crash /\ UNCHANGED disk
             \/ usable /\ Failed(t) /\ UNCHANGED disk
             \/ /\ usable /\ Goto(t, Written(t))
                /\ disk' = IF x \in Names /\ ~strm[s].fifo
                           THEN [disk EXCEPT ![x].pkts = Append(@, [n |-> ev[t].n, at |-> ev[t].at, by |-> t])] ELSE disk
    /\ reg' = [reg EXCEPT ![t] = 0]
    /\ UNCHANGED <<startup, ev, signals, naming, tcp_buf, dst, strm, count, read>>

-----------------------------------------------------------------------------
(* Signals, and the end *)

\* Mutant of Timeout: seconds are not counted.
TimeoutNever == UNCHANGED marker_terminate_TO

Timeout == marker_terminate_TO' = marker_terminate_TO + 1

\* my_signalhandler and handle_terminate_signal.
Alarm ==
    /\ Looping /\ marker_terminate > 0
    /\ IF marker_terminate >= src.n \/ marker_terminate_TO >= src.n
       THEN /\ \E s \in Memory(dst) : CloseStream(s)
            /\ dst' = 0
            /\ output' = IF dst # 0 THEN stream_addr_str(Unset, {}, FALSE) ELSE output
            /\ IF cfg.quit THEN keep_running' = FALSE /\ UNCHANGED <<marker_terminate, marker_terminate_TO>>
               ELSE marker_terminate' = 0 /\ marker_terminate_TO' = 0 /\ UNCHANGED keep_running
            /\ UNCHANGED pc \/ (Stale(dst) /\ Crash)
       ELSE Timeout /\ UNCHANGED <<pc, keep_running, marker_terminate, dst, output, strm, disk>>
    /\ UNCHANGED <<startup, ev, reg, buffer, suffix, tcp_buf, count, read>>

\* sig_handler.
Sigint ==
    /\ Looping \/ pc["main"] \in {"input", "output"}
    /\ keep_running' = FALSE
    /\ pc' = IF keep_running THEN pc ELSE [pc EXCEPT !["main"] = "aborted"]
    /\ UNCHANGED <<startup, ev, reg, marker_terminate, marker_terminate_TO, naming, tcp_buf, dst, strm, disk, count, read>>

Close ==
    /\ pc["main"] = "close"
    /\ \E s \in Memory(dst) : CloseStream(s)
    /\ Goto("main", "exit") \/ (Stale(dst) /\ Crash)
    /\ UNCHANGED <<startup, ev, reg, signals, naming, tcp_buf, dst, count, read>>

Ended == ~Running /\ UNCHANGED vars

Handle(t) ==
    HandleMarker(t) \/ GenerateFilename(t) \/ LoadOld(t) \/ CloseOld(t) \/ OpenNext(t) \/ Fetch(t) \/ Write(t)
MainStep ==
    \/ ParseOutput \/ OpenInput \/ CreateOutput \/ UdpError \/ LoopHead \/ ReadNothing \/ ReadEnds \/ Close
    \/ \E m \in Markers : HandleUdp(m) \/ ReadPacket(m)
    \/ Handle("main")
TcpStep == (\E m \in Markers : TcpAccept(m)) \/ TcpEmpty \/ TcpStops \/ TcpError \/ Handle("tcp")

Next == MainStep \/ TcpStep \/ Alarm \/ Sigint \/ Ended

\* setitimer sends the signal every second.  The main thread is scheduled; it may
\* wait in fread for ever, but not for a socket, which the signal interrupts.
Fairness ==
    /\ WF_vars(Alarm)
    /\ WF_vars(MainStep /\ (pc["main"] = "read" => src.socket))

Spec == Init /\ [][Next]_vars /\ Fairness

-----------------------------------------------------------------------------
(* Properties *)

\* What a thread writes is in each file in the order it arrived, and no message is
\* written for a second time, through any sequence of markers, time-outs, interrupted
\* calls and races, except for a TCP connection that brought nothing: tcprelay then
\* writes what it has in its buffer again (n < at).
OnceInOrder ==
    \A x, y \in Names : \A i \in DOMAIN disk[x].pkts : \A j \in DOMAIN disk[y].pkts :
        LET p == disk[x].pkts[i]
            q == disk[y].pkts[j]
        IN /\ p.n = q.n => (x = y /\ i = j) \/ p.n < p.at \/ q.n < q.at
           /\ p.n < p.at => p.by = "tcp"
           /\ x = y /\ p.by = q.by /\ i < j => p.at < q.at /\ p.n <= q.n

\* "the marker will also be included in the trace" (man/capdump.1): without the TCP
\* thread, a file that a marker of the stream has opened is empty or begins with that
\* marker, although dst is looked up again for the write.
MarkerHeadsFile ==
    \A s \in DOMAIN strm :
        LET x == strm[s].name
        IN /\ ~cfg.listen /\ strm[s].by > 0 /\ x \in Names
           /\ \A r \in DOMAIN strm : r > s => strm[r].name # x
           => disk[x].pkts = <<>> \/ disk[x].pkts[1].n = strm[s].by

\* --marker-mode=I: "Append a sequential number after the filename".  Markers never
\* cost a trace: only the output named on the command line is truncated, as long as
\* one thread makes the names.  With mode A this holds for the file that is open.
TracesKept ==
    [][\A x \in Names :
          /\ Looping /\ ~cfg.listen
          /\ cfg.mode = "I" \/ (cfg.mode = "A" /\ output.name = x)
          => /\ disk[x].file \notin {NoFile, Fifo} => disk'[x].file = disk[x].file
             /\ Len(disk'[x].pkts) >= Len(disk[x].pkts)]_vars

\* A terminate marker stops the saving: the file is closed in the end, even if the
\* other streams never send one (the code counts the seconds, the formula does not say
\* how many); and with --marker-quit the program ends, if it reads from sockets.
TerminateStops ==
    /\ (Looping /\ marker_terminate > 0) ~> (dst = 0 \/ ~Looping)
    /\ (Looping /\ marker_terminate > 0 /\ cfg.quit /\ src.socket) ~> ~Running

\* A file that stream_create has made and stream_close has saved opens again, and its
\* first packet is where stream_copy has put it, behind header and comment, if the length
\* of the comment fits the 16 bits of comment_size.  Of a stream that was not closed, or
\* whose buffer could not be flushed, nothing is said.
CreatedFilesOpen ==
    \A s \in DOMAIN strm :
        LET f == disk[strm[s].name].file
        IN /\ strm[s].saved /\ strm[s].name \in Names
           /\ \A r \in DOMAIN strm : r > s => strm[r].name # strm[s].name
           /\ strm[s].comment < UINT16
           => stream_file_open(f) = [ret |-> "ok", pos |-> f.size]
=============================================================================
