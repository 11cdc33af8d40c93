---------------------------- MODULE MCEventQueue ----------------------------
(***************************************************************************)
(* Four calls of schedule() at two different times: ties, tombstones on    *)
(* top of the heap and below it, and an event in the past.                 *)
(***************************************************************************)
EXTENDS EventQueue, TLC

CONSTANTS e1, e2, e3, e4

MCEvent == {e1, e2, e3, e4}
=============================================================================
