----------------------------- MODULE MCSpmcQueue -----------------------------
(***************************************************************************)
(* Instances of SpmcQueue for TLC.                                         *)
(***************************************************************************)
EXTENDS SpmcQueueRefinement, Bitwise

\* kRingSize is a power of two, so that the mask seq & kRingMask of Queue.h
\* is the remainder that Index computes.
ASSUME MaskIsRemainder ==
  \A s \in 0 .. N + 1 : (s & (RingSize - 1)) = Index(s)

=============================================================================
