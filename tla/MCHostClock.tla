---------------------------- MODULE MCHostClock ----------------------------
(* Two host clocks, one busy, and a thread that asks either of them.       *)
EXTENDS HostClock
CONSTANTS c1, c2
TwoClocks == {c1, c2}
Submits == [c \in TwoClocks |-> IF c = c1 THEN 2 ELSE 1]
=============================================================================
