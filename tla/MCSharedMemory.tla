--------------------------- MODULE MCSharedMemory ---------------------------
(***************************************************************************)
(* Instances of SharedMemory for TLC.                                      *)
(***************************************************************************)
EXTENDS SharedMemory

CONSTANTS p1, p2, c1, c2

=============================================================================
