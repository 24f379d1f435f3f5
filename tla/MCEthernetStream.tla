-------------------------- MODULE MCEthernetStream --------------------------
(* EthernetStream for TLC: packets are numbered from 1 in the order they   *)
(* are sent, one to a frame; the caller's filter rejects the second.       *)
EXTENDS EthernetStream, TLC

MCPacket == 1..MaxSent
MCMatch == MCPacket \ {2}
MCFrame == {<<p>> : p \in MCPacket}

\* A good frame, a damaged one, and the last frame of a sender whose version
\* cannot be read.
MCAttributes ==
    {[sane |-> TRUE,  version |-> TRUE,  flush |-> FALSE],
     [sane |-> FALSE, version |-> TRUE,  flush |-> FALSE],
     [sane |-> TRUE,  version |-> FALSE, flush |-> TRUE]}

MCSymmetry == Permutations(Addr)
=============================================================================
