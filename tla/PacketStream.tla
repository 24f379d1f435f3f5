---------------------------- MODULE PacketStream ----------------------------
(***************************************************************************)
(* What a stream promises to the program that reads it, whatever transport *)
(* is underneath: the packets that entered the stream are looked at one by *)
(* one in the order they entered, each of them once, and exactly those the *)
(* filter matches are handed to the caller.                                *)
(***************************************************************************)
EXTENDS Sequences, Naturals

CONSTANTS
    Packet,      \* captured packets
    Match        \* the packets the caller's filter matches

VARIABLES
    rx,          \* packets that entered the stream, oldest first
    out,         \* packets taken from the stream, oldest first
    delivered    \* packets handed to the caller, oldest first

vars == <<rx, out, delivered>>

Init ==
    /\ rx = <<>>
    /\ out = <<>>
    /\ delivered = <<>>

\* More packets enter behind the ones that are already there.
Arrive ==
    /\ rx' \in Seq(Packet)
    /\ Len(rx') > Len(rx)
    /\ \A i \in 1..Len(rx) : rx'[i] = rx[i]
    /\ UNCHANGED <<out, delivered>>

\* The oldest packet that was not taken is taken; a match goes to the caller.
Take ==
    /\ Len(out) < Len(rx)
    /\ LET p == rx[Len(out) + 1]
       IN  /\ out' = Append(out, p)
           /\ delivered' = IF p \in Match THEN Append(delivered, p) ELSE delivered
    /\ UNCHANGED rx

Next == Arrive \/ Take

Spec == Init /\ [][Next]_vars
=============================================================================
