------------------------------- MODULE MCTimer -------------------------------
(***************************************************************************)
(* Timer on two slots and a counter of a few values, with periods of 1 and *)
(* 2: a callback can outlast the period of an event it arms, and events    *)
(* are armed on either side of a roll-over.  With INT_MAX = 3 the doubled  *)
(* repeat count of an oscillation overflows both ways: 2 becomes -4, which *)
(* never ends, and -3 becomes 2, which does.                               *)
(***************************************************************************)
EXTENDS Timer

MCPeriods == {1, 2}
OnePeriod == {1}
MCRepeatCounts == {-1, 0, 1, 2}
OverflowCounts == {-3, -1, 0, 1, 2}
=============================================================================
