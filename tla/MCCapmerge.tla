----------------------------- MODULE MCCapmerge -----------------------------
(* Capmerge for TLC: up to MaxFiles files of up to MaxPackets packets with *)
(* the timestamps of Time.                                                 *)
EXTENDS Capmerge

CONSTANTS Time, MaxFiles, MaxPackets   \* bounds

MCFile == UNION {[1..n -> Time] : n \in 0..MaxPackets}
MCInputs == UNION {[1..n -> MCFile] : n \in 1..MaxFiles}
=============================================================================
