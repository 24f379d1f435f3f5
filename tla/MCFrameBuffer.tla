---------------------------- MODULE MCFrameBuffer ---------------------------
(* FrameBuffer for TLC.                                                    *)
EXTENDS FrameBuffer

CONSTANT MaxReceived   \* bound: packets put in the ring

\* Frames of up to two packets.
MCFrame == UNION {[1..n -> Packet] : n \in 0..2}

\* abort() has ended the process.
MCAborted == pc = "aborted" /\ UNCHANGED fbvars

MCNext ==
    \/ FBNext /\ Len(rx') <= MaxReceived
    \/ MCAborted

MCSpec == FBInit /\ [][MCNext]_fbvars /\ FBFairness
=============================================================================
