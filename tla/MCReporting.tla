----------------------------- MODULE MCReporting -----------------------------
(***************************************************************************)
(* An instance of Reporting for TLC: thread d runs the demo's loop on a    *)
(* counter that is one tick behind, process m runs Consumer::run with a    *)
(* tracker too small for all messages.                                     *)
(***************************************************************************)
EXTENDS Reporting

CONSTANTS d, m

CapacityOf == [c \in Consumers |-> IF c = m THEN N - 1 ELSE N]

SkewOf == [c \in Consumers |-> IF c = d THEN -1 ELSE 0]

=============================================================================
