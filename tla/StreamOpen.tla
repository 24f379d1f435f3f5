----------------------------- MODULE StreamOpen -----------------------------
(***************************************************************************)
(* src/stream.c and the transports: opening, creating and adding to a      *)
(* stream.  What the system under it may answer is a set of outcomes; an   *)
(* outcome has the status, the addresses the stream listens to and whether *)
(* it reads from a socket.                                                 *)
(***************************************************************************)
EXTENDS Address, StreamFile

CONSTANT MAX_ADDRESS

Outcome(ret, n, socket) == [ret |-> ret, n |-> n, socket |-> socket]
Errors(S) == {Outcome(e, 0, FALSE) : e \in S}

\* Joining a multicast group; a stream holds MAX_ADDRESS of them.
stream_ethernet_add(n, a) ==
    IF n = MAX_ADDRESS THEN Errors({"EBUSY"})
    ELSE IF ~a.mcast THEN Errors({"INVALID_MULTICAST"})
    ELSE {Outcome("ok", n + 1, TRUE)} \cup Errors({"errno"})
stream_udp_add(n, a) == stream_ethernet_add(n, a)

\* stream_ethernet_init: the interface, the size of the buffer, the socket.
stream_ethernet_init(a, iface, bufsize) ==
    IF ~iface THEN Errors({"EINVAL"})
    ELSE Errors({"errno"}) \cup
         CASE bufsize = "short" -> Errors({"BUFFER_LENGTH"})
           [] bufsize = "odd"   -> Errors({"BUFFER_MULTIPLE"})
           [] bufsize = "whole" -> stream_ethernet_add(0, a)

\* stream_udp_open: only a multicast address is counted.
stream_udp_open(a, iface) ==
    IF a.mcast /\ ~iface THEN Errors({"EINVAL"})
    ELSE Errors({"errno"}) \cup IF a.mcast THEN stream_udp_add(0, a) ELSE {Outcome("ok", 0, TRUE)}

\* stream_udp_create.
stream_udp_create == {Outcome("ok", 0, TRUE)} \cup Errors({"errno"})

FileOutcome(f) == LET r == stream_file_open(f) IN {Outcome(r.ret, IF r.ret = "ok" THEN 1 ELSE 0, FALSE)}

\* stream_open, with the file the address names.  A FIFO is made first; what its
\* writer sends is any file.
stream_open(a, iface, bufsize, file, Sent) ==
    CASE a.type = "ethernet" -> stream_ethernet_init(a, iface, bufsize)
      [] a.type = "udp"      -> stream_udp_open(a, iface)
      [] a.type = "tcp"      -> Errors({"NOT_IMPLEMENTED"})
      [] a.type = "guess"    -> Errors({"EINVAL"})
      [] a.type = "capfile"  -> FileOutcome(file) \cup Errors({"errno"})
      [] a.type = "fifo"     -> IF file # NoFile THEN Errors({"FIFO_EXIST"})
                                ELSE Errors({"errno"}) \cup UNION {FileOutcome(f) : f \in Sent}

\* stream_create without an interface: capdump names none.
stream_create(a, exists) ==
    CASE a.type = "ethernet" -> Errors({"EINVAL"})
      [] a.type = "udp"      -> stream_udp_create
      [] a.type = "tcp"      -> Errors({"NOT_IMPLEMENTED"})
      [] a.type = "guess"    -> Errors({"EINVAL"})
      [] a.type = "capfile"  -> {Outcome("ok", 1, FALSE)} \cup Errors({"errno", "EIO"})
      [] a.type = "fifo"     -> IF exists THEN Errors({"FIFO_EXIST"})
                                ELSE {Outcome("ok", 1, FALSE)} \cup Errors({"errno", "EIO"})

\* stream_add: the type of the address decides, not the type of the stream.
stream_add(o, a) ==
    IF a.type = "ethernet" THEN stream_ethernet_add(o.n, a)
    ELSE IF a.type = "udp" THEN stream_udp_add(o.n, a)
    ELSE Errors({"INVALID_PROTOCOL"})

\* The further addresses of stream_from_getopt.
AddAll(o, ts) ==
    LET added[i \in 0..Len(ts)] ==         \* the outcomes behind i of them
            IF i = 0 THEN {o}
            ELSE LET r == stream_addr_aton(ts[i])
                     after(x) == IF r.ret # "ok" THEN Errors({r.ret}) ELSE stream_add(x, r.addr)
                 IN UNION {IF x.ret = "ok" THEN after(x) ELSE {x} : x \in added[i - 1]}
    IN added[Len(ts)]

\* stream_from_getopt.  Without an address stdin is opened, unless it is a
\* terminal; an Ethernet address without an interface gives success and no
\* stream (n = -1).  files are those on the disk, by name.
stream_from_getopt(args, stdin, stdin_tty, iface, bufsize, files) ==
    LET first == IF args = <<>> THEN stdin ELSE Head(args)
        r == stream_addr_aton(first)
        more == IF args = <<>> THEN <<>> ELSE Tail(args)
    IN IF args = <<>> /\ stdin_tty THEN Errors({"EINVAL"})
       ELSE IF r.ret # "ok" THEN Errors({r.ret})
       ELSE IF r.addr.type = "ethernet" /\ ~iface THEN {Outcome("ok", -1, TRUE)}
       ELSE UNION {IF o.ret # "ok" \/ more = <<>> THEN {o}
                   ELSE IF r.addr.type \notin {"ethernet", "udp"} THEN Errors({"EINVAL"})
                   ELSE AddAll(o, more)
                   : o \in stream_open(r.addr, iface, bufsize, files[r.addr.name],
                                     {files[x] : x \in DOMAIN files})}
=============================================================================
