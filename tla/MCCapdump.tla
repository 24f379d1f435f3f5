----------------------------- MODULE MCCapdump ------------------------------
(* Capdump for TLC: two marker sequence numbers, files left by an earlier  *)
(* run, and command lines for every way to an input and an output.         *)
EXTENDS Capdump, TLC

Item(mark, key, term, seq) == [mark |-> mark, key |-> key, term |-> term, seq |-> seq, comment |-> seq]
MCMarkers ==
    {Item(FALSE, FALSE, FALSE, 0), Item(TRUE, TRUE, FALSE, 1), Item(TRUE, TRUE, FALSE, 2),
     Item(TRUE, TRUE, TRUE, 0)}

MCVersion == <<0, 7>>
MCNames == {<<0, 0>>, <<3, 0>>, <<4, 0>>, <<5, 0>>} \cup {<<s, x>> : s \in 1..2, x \in 0..4}
Plain == stream_file_create(1)
MCFiles ==
    (<<1, 1>> :> Plain) @@ (<<3, 0>> :> Plain) @@ (<<4, 0>> :> [Plain EXCEPT !.magic = FALSE, !.legacy = 5])
    @@ (<<5, 0>> :> [Plain EXCEPT !.size = 20, !.header_offset = 9,
                     !.exts = <<[type |-> "PADDING", next_offset |-> 3], [type |-> "NONE", next_offset |-> 0]>>])

Text(prefix, eth, ip, mcast, name) ==
    [prefix |-> prefix, eth |-> eth, ip |-> ip, mcast |-> mcast, name |-> <<name, 0>>, zero |-> FALSE]
Out == Text("none", FALSE, FALSE, FALSE, 0)
In(n) == Text("none", FALSE, FALSE, FALSE, n)
Eth(m) == Text("none", TRUE, FALSE, m, 0)
Udp(m) == Text("udp", FALSE, TRUE, m, 0)

Command(args, o, iface) ==
    [args |-> args, o |-> o, iface |-> iface, stdin |-> In(3), stdin_tty |-> TRUE, stdout_tty |-> TRUE,
     bufsize |-> "whole"]
MCCommands ==
    {Command(<<In(n)>>, <<Out>>, FALSE) : n \in {0, 3, 4, 5}}
    \cup {Command(<<Eth(TRUE), Eth(TRUE)>>, <<Out>>, TRUE), Command(<<Eth(TRUE)>>, <<Out>>, FALSE),
          Command(<<Udp(FALSE), Out>>, <<>>, FALSE), Command(<<>>, <<>>, FALSE),
          Command(<<Eth(FALSE)>>, <<Out>>, TRUE), Command(<<Udp(TRUE), In(3)>>, <<Out>>, TRUE),
          Command(<<In(3)>>, <<Udp(FALSE)>>, FALSE), Command(<<In(3), In(4)>>, <<Out>>, FALSE),
          Command(<<In(3)>>, <<[Out EXCEPT !.prefix = "other"]>>, FALSE),
          Command(<<In(3)>>, <<[Out EXCEPT !.zero = TRUE]>>, FALSE),
          Command(<<Text("fifo", FALSE, FALSE, FALSE, 1)>>, <<Text("fifo", FALSE, FALSE, FALSE, 2)>>, FALSE),
          Command(<<Text("tcp", FALSE, TRUE, FALSE, 1)>>, <<Text("file", FALSE, FALSE, FALSE, 0)>>, FALSE),
          [Command(<<>>, <<>>, FALSE) EXCEPT !.stdin_tty = FALSE, !.stdout_tty = FALSE],
          [Command(<<Eth(TRUE)>>, <<Out>>, TRUE) EXCEPT !.bufsize = "odd"],
          [Command(<<Eth(TRUE)>>, <<Out>>, TRUE) EXCEPT !.bufsize = "short"],
          Command(<<Eth(TRUE), Eth(TRUE), Eth(TRUE)>>, <<Eth(TRUE)>>, TRUE)}

Config(mode, listen, quit, max) ==
    [marker |-> TRUE, key |-> TRUE, listen |-> listen, quit |-> quit, mode |-> mode, max |-> max, comment |-> 2,
     marker_comment |-> mode = "A"]
File1 == Command(<<In(3)>>, <<Out>>, FALSE)
Eth2 == Command(<<Eth(TRUE), Eth(TRUE)>>, <<Out>>, TRUE)
Run(c, o) == [cmd |-> c, cfg |-> o]
MCInvocations ==
    {Run(c, Config("I", FALSE, FALSE, 1)) : c \in MCCommands}
    \cup {Run(File1, Config("I", FALSE, FALSE, 0)), Run(Eth2, Config("A", FALSE, TRUE, 0)),
          Run(Eth2, Config("I", FALSE, FALSE, 0)), Run(Command(<<Udp(FALSE), Out>>, <<>>, FALSE), Config("O", FALSE, TRUE, 2)),
          Run(File1, Config("I", TRUE, FALSE, 2)), Run(File1, [Config("A", FALSE, FALSE, 2) EXCEPT !.key = FALSE]),
          Run(File1, [Config("I", FALSE, FALSE, 1) EXCEPT !.comment = 65537])}
=============================================================================
