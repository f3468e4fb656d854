------------------------- MODULE SpmcQueueRefinement -------------------------
(***************************************************************************)
(* The ring of SpmcQueue implements the log of PubSub for the readers that *)
(* registered in time: publish() takes effect at the release store of the  *)
(* slot's sequence, consume() at the store of the reader's position,       *)
(* register_consumer() at the store of the start position.                 *)
(***************************************************************************)
EXTENDS SpmcQueue

\* Messages whose slot has its sequence number.
Released == IF ppc \in Writing THEN next_ - 1 ELSE next_

JoinedInTime == {r \in safe : rpc[r] \in Reading}

ReleasedLog == [k \in 1 .. Released |-> k]

CursorInTime ==
  [r \in Readers |-> IF r \in JoinedInTime THEN position[id[r]] ELSE 0]

ReceivedInTime == [r \in Readers |-> IF r \in safe THEN received[r] ELSE <<>>]

PS == INSTANCE PubSub WITH
  Messages  <- 1 .. N,
  log       <- ReleasedLog,
  joined    <- JoinedInTime,
  cursor    <- CursorInTime,
  delivered <- ReceivedInTime

\* The ring behaves as one log with a cursor per reader: every step of
\* publish(), consume(), register_consumer() or unregister_consumer() is an
\* atomic publish, deliver, join or leave, or changes nothing a caller sees.
ImplementsPubSub == PS!PubSubSpec

=============================================================================
