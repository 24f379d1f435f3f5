------------------------------ MODULE Picotime ------------------------------
(***************************************************************************)
(* src/picotime.c: the timestamps of packets, seconds and a fraction that  *)
(* counts PICODIVIDER to the second (10^12 in the code).                   *)
(***************************************************************************)
EXTENDS Integers

CONSTANT PICODIVIDER

ASSUME PicoAssumption == PICODIVIDER \in Nat \ {0}

Timepico == [sec : Nat, psec : Nat]
Normal(t) == t.psec \in 0..PICODIVIDER - 1

timepico_new(s, p) == [sec |-> s, psec |-> p]

\* timecmp: -1, 0 or 1.
timecmp(a, b) ==
    IF a.sec # b.sec THEN IF a.sec < b.sec THEN -1 ELSE 1
    ELSE IF a.psec # b.psec THEN IF a.psec < b.psec THEN -1 ELSE 1
    ELSE 0

\* x - y for x not before y, which is what the callers ask for.  First whole
\* seconds are borrowed until the fraction is positive, then those that are too
\* many are given back; a fraction of exactly one second stays.
timepico_sub(x, y) ==
    LET borrow == IF x.psec < y.psec THEN (y.psec - x.psec) \div PICODIVIDER + 1 ELSE 0
        frac == x.psec - y.psec + PICODIVIDER * borrow
        back == IF frac > PICODIVIDER THEN frac \div PICODIVIDER ELSE 0
    IN [sec |-> x.sec - y.sec - borrow + back, psec |-> frac - PICODIVIDER * back]

\* timepico_from_string: the seconds, and a fraction of `digits' digits scaled to
\* Digits of them (12 in the code).  A longer fraction is kept as it is.
timepico_from_string(s, frac, digits, Digits) ==
    [sec |-> s, psec |-> IF digits < Digits THEN frac * 10^(Digits - digits) ELSE frac]
=============================================================================
