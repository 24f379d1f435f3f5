---------------------------- MODULE PacketTools -----------------------------
(***************************************************************************)
(* The tools that look into packets: capshow printing a trace, or capinfo  *)
(* over the files it is given.                                             *)
(***************************************************************************)
EXTENDS FormatPacket, Capinfo

vars == <<fvars, ivars>>

FIdle ==
    /\ inv = CHOOSE i \in Invocations : TRUE
    /\ pc = "off" /\ format = format_setup(inv) /\ pkt = CHOOSE p \in inv.packets : TRUE
    /\ chunk = header_init /\ loop = NoLoop /\ dns = NoMessage /\ conn = NoConnections /\ lines = <<>>

IIdle ==
    /\ todo = 0 /\ ipc = "off" /\ global = [all |-> NoStats, marker |-> 0, transport |-> <<>>] /\ mpid = <<>> /\ CI = <<>> /\ location = <<>>
    /\ ipproto = <<>> /\ status = 0 /\ seen = <<>>

Init == (FInit /\ IIdle) \/ (FIdle /\ IInit)

\* A program that has ended, or was ended, stays so.
Ended == (pc \in {"ended", "aborted"} \/ ipc \in {"ended", "undefined"}) /\ UNCHANGED vars

Next == (FNext /\ UNCHANGED ivars) \/ (INext /\ UNCHANGED fvars) \/ Ended

\* Formatting a packet waits for nobody: the process goes on.
Spec == Init /\ [][Next]_vars /\ WF_vars(PrintStep /\ UNCHANGED ivars)
=============================================================================
