---------------------------- MODULE MCFileStream ----------------------------
(* FileStream for TLC: every file of up to MaxPackets packets of up to     *)
(* MaxCaplen captured bytes.                                               *)
EXTENDS FileStream

CONSTANTS MaxPackets, MaxCaplen   \* bounds

RECURSIVE Offsets(_)
Offsets(n) ==
    IF n = 0 THEN {<<0>>}
    ELSE {Append(s, s[n] + Hdr + c) : s \in Offsets(n - 1), c \in 0..MaxCaplen}

MCStarts == UNION {Offsets(n) : n \in 0..MaxPackets}
=============================================================================
