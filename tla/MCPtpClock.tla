----------------------------- MODULE MCPtpClock -----------------------------
(* A small instance of PtpClock.                                           *)
EXTENDS PtpClock

CONSTANTS ptp, shell
TwoThreads == {ptp, shell}
Users == [t \in TwoThreads |-> IF t = ptp THEN {"set", "adjust", "rate_adjust"} ELSE {"get", "pps"}]
\* A second beyond the width of the counter.
SetTimes == {[second |-> 5, nanosecond |-> 1]}
\* Both signs, less and more than a second.
Steps == {-3, 3}
Rates == {-1, 2}
=============================================================================
