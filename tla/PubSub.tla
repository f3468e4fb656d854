-------------------------------- MODULE PubSub --------------------------------
(***************************************************************************)
(* What the queue of include/Queue.h promises: a log that one producer     *)
(* appends to, and joined readers that each walk it with a cursor of their *)
(* own.  Every call is one step.  SpmcQueue implements this specification  *)
(* for the readers that register in time; RunLoop uses its actions as the  *)
(* calls publish(), consume() and unregister_consumer().                   *)
(***************************************************************************)
EXTENDS Integers, Sequences

CONSTANTS
  Readers,   \* consumer threads or processes
  RingSize,  \* kRingSize
  Messages   \* what publish() can be called with

VARIABLES
  log,       \* the published messages, in order
  joined,    \* registered readers
  cursor,    \* sequence number each joined reader consumes next
  delivered  \* what consume() has returned to each reader

pubsubVars == <<log, joined, cursor, delivered>>

PubSubInit ==
  /\ log = <<>>
  /\ joined = {}
  /\ cursor = [r \in Readers |-> 0]
  /\ delivered = [r \in Readers |-> <<>>]

\* No joined reader is a full ring behind the message to be published.
HasRoom == \A r \in joined : Len(log) + 1 < cursor[r] + RingSize

\* publish() returns true.
Publish(m) ==
  /\ HasRoom
  /\ log' = Append(log, m)
  /\ UNCHANGED <<joined, cursor, delivered>>

\* register_consumer(s), while the message at s is still in the ring.
Join(r, s) ==
  /\ r \notin joined
  /\ Len(log) < s + RingSize
  /\ joined' = joined \cup {r}
  /\ cursor' = [cursor EXCEPT ![r] = s]
  /\ UNCHANGED <<log, delivered>>

HasMessage(r) == cursor[r] \in 1 .. Len(log)

\* consume() returns true.
Deliver(r) ==
  /\ r \in joined
  /\ HasMessage(r)
  /\ delivered' = [delivered EXCEPT ![r] = Append(@, log[cursor[r]])]
  /\ cursor' = [cursor EXCEPT ![r] = @ + 1]
  /\ UNCHANGED <<log, joined>>

\* unregister_consumer(), or the reader dies.
Leave(r) ==
  /\ r \in joined
  /\ joined' = joined \ {r}
  /\ cursor' = [cursor EXCEPT ![r] = 0]
  /\ UNCHANGED <<log, delivered>>

PubSubNext ==
  \/ \E m \in Messages : Publish(m)
  \/ \E r \in Readers : \/ \E s \in 0 .. Len(log) + 1 : Join(r, s)
                        \/ Deliver(r) \/ Leave(r)

PubSubSpec == PubSubInit /\ [][PubSubNext]_pubsubVars

=============================================================================
