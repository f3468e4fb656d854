------------------------------ MODULE SpmcQueue ------------------------------
(***************************************************************************)
(* The lock-free single-producer multi-consumer ring of include/Queue.h:   *)
(* publish, consume, register_consumer and unregister_consumer, one action *)
(* per access to memory that another thread can touch.                     *)
(*                                                                         *)
(* The producer runs the retry loop every caller of publish() runs: it     *)
(* offers message i until publish() returns true, for i = 1..N.  A reader  *)
(* is one consumer thread or process: it registers, calls consume() any    *)
(* number of times and may unregister or die.                              *)
(*                                                                         *)
(* Message i is the number i.  Slot data is copied word by word in the     *)
(* code (a plain struct assignment), so a write of it is two steps with    *)
(* Torn in between, and a read of it is two half reads that must agree.    *)
(***************************************************************************)
EXTENDS Integers, Sequences

CONSTANTS
  RingSize,      \* kRingSize
  MaxConsumers,  \* consumer slots
  Word,          \* 2^64 in the code: unsigned arithmetic is modulo Word
  N,             \* messages the producer's loop publishes
  Readers,       \* consumer threads or processes
  Early,         \* readers whose registration ends before publishing starts
  FromNow,       \* readers that register at current_sequence(); others at 1
  Mortal         \* readers whose process may be killed while registered

ASSUME QueueAssumption ==
  /\ RingSize \in Nat \ {0}
  /\ MaxConsumers \in Nat \ {0}
  /\ N \in Nat
  /\ Word \in Nat /\ N + RingSize + 1 < Word
  /\ Early \subseteq Readers /\ FromNow \subseteq Readers
  /\ Mortal \subseteq Readers

VARIABLES
  slotSeq,            \* ring_[j].sequence
  slotData,           \* ring_[j].data
  active,             \* consumers_[c].active
  position,           \* consumers_[c].sequence
  next_,              \* last claimed sequence, producer only
  min_consumer_seq_,  \* cached minimum of the positions, producer only
  ppc,                \* where the producer is
  i,                  \* the message the producer's loop is at
  si, min_seq,        \* publish(): scan index and running minimum
  rpc,                \* where each reader is
  id,                 \* register_consumer(): loop index, then the result
  seq,                \* start_sequence while registering, then consume()'s seq
  out,                \* consume()'s out parameter
  received,           \* history: what consume() delivered to each reader
  first,              \* history: the start_sequence of each reader
  safe                \* history: readers whose registration was in time

ringVars   == <<slotSeq, slotData>>
tableVars  == <<active, position>>
prodVars   == <<next_, min_consumer_seq_, ppc, i, si, min_seq>>
readerVars == <<rpc, id, seq, out, received, first, safe>>
vars       == <<ringVars, tableVars, prodVars, readerVars>>

NoMsg     == 0        \* a value-initialised Slot holds no message
Torn      == -1       \* part of one message, part of another
MaxU64    == Word - 1
Slots     == 0 .. RingSize - 1
ConsumerIds == 0 .. MaxConsumers - 1

-----------------------------------------------------------------------------
(* Arithmetic of the ring. *)

\* seq & kRingMask
Index(s) == s % RingSize

\* uint64_t subtraction
Sub(a, b) == (a - b) % Word

Full_OffByOne(s, m) == Sub(s, m) > RingSize

\* (next_seq - min) >= kRingSize
Full(s, m) == Sub(s, m) >= RingSize

Ready_OffByOne(q, s) == q > s + 1

\* !(slot.sequence <= seq)
Ready(q, s) == q > s

Min2(a, b) == IF b < a THEN b ELSE a

-----------------------------------------------------------------------------
(* Where a thread is. *)

Registering == {"new", "cas", "set"}
Reading     == {"ready", "check", "copy", "copy2", "advance"}
Owning      == Reading \cup {"set", "crashed"}
Ended       == {"gone", "full", "crashed"}

\* A reader at position p in consumer slot c is seen by every decision the
\* producer has yet to take: it is inside the window of the ring, and neither
\* the cached minimum nor a scan under way has already passed it by.
Guarded(p, c) ==
  /\ p <= next_ + 1
  /\ next_ < p + RingSize
  /\ ppc \in {"wait", "idle", "write", "release"} =>
       \/ min_consumer_seq_ <= p
       \/ Full(next_ + 1, min_consumer_seq_)
  /\ ppc \in {"scan", "load"} => (c < si => min_seq <= p)
  /\ ppc = "claim" => min_consumer_seq_ <= p /\ next_ + 1 < p + RingSize

Init_CacheAtMax ==
  /\ slotSeq  = [j \in Slots |-> 0]
  /\ slotData = [j \in Slots |-> NoMsg]
  /\ active   = [c \in ConsumerIds |-> FALSE]
  /\ position = [c \in ConsumerIds |-> 0]
  /\ next_ = 0
  /\ min_consumer_seq_ = MaxU64
  /\ ppc = "wait"
  /\ i = 1
  /\ si = 0
  /\ min_seq = MaxU64
  /\ rpc = [r \in Readers |-> "new"]
  /\ id  = [r \in Readers |-> 0]
  /\ seq = [r \in Readers |-> 0]
  /\ out = [r \in Readers |-> NoMsg]
  /\ received = [r \in Readers |-> <<>>]
  /\ first = [r \in Readers |-> 0]
  /\ safe  = {}

Init ==
  /\ slotSeq  = [j \in Slots |-> 0]
  /\ slotData = [j \in Slots |-> NoMsg]
  /\ active   = [c \in ConsumerIds |-> FALSE]
  /\ position = [c \in ConsumerIds |-> 0]
  /\ next_ = 0
  /\ min_consumer_seq_ = 0
  /\ ppc = "wait"
  /\ i = 1
  /\ si = 0
  /\ min_seq = MaxU64
  /\ rpc = [r \in Readers |-> "new"]
  /\ id  = [r \in Readers |-> 0]
  /\ seq = [r \in Readers |-> 0]
  /\ out = [r \in Readers |-> NoMsg]
  /\ received = [r \in Readers |-> <<>>]
  /\ first = [r \in Readers |-> 0]
  /\ safe  = {}

-----------------------------------------------------------------------------
(* The producer. *)

\* Publishing starts once the early readers are registered: the demo and the
\* tests register before the first publish(), the producer process sleeps or
\* waits for Enter.
StartPublishing ==
  /\ ppc = "wait"
  /\ \A r \in Early : rpc[r] \notin Registering
  /\ ppc' = "idle"
  /\ UNCHANGED <<ringVars, tableVars, readerVars,
                 next_, min_consumer_seq_, i, si, min_seq>>

\* publish(), the cached minimum leaves room.
PublishFastPath ==
  /\ ppc = "idle" /\ i <= N
  /\ ~Full(next_ + 1, min_consumer_seq_)
  /\ ppc' = "claim"
  /\ UNCHANGED <<ringVars, tableVars, readerVars,
                 next_, min_consumer_seq_, i, si, min_seq>>

\* publish(), the ring looks full: rescan all consumer slots.
PublishSlowPath ==
  /\ ppc = "idle" /\ i <= N
  /\ Full(next_ + 1, min_consumer_seq_)
  /\ ppc' = "scan"
  /\ UNCHANGED <<ringVars, tableVars, readerVars,
                 next_, min_consumer_seq_, i, si, min_seq>>

ScanInactive ==
  /\ ppc = "scan" /\ si < MaxConsumers
  /\ ~active[si]
  /\ si' = si + 1
  /\ UNCHANGED <<ringVars, tableVars, readerVars,
                 next_, min_consumer_seq_, ppc, i, min_seq>>

ScanActive ==
  /\ ppc = "scan" /\ si < MaxConsumers
  /\ active[si]
  /\ ppc' = "load"
  /\ UNCHANGED <<ringVars, tableVars, readerVars,
                 next_, min_consumer_seq_, i, si, min_seq>>

ScanLoad_KeepsLast ==
  /\ ppc = "load"
  /\ min_seq' = position[si]
  /\ si' = si + 1
  /\ ppc' = "scan"
  /\ UNCHANGED <<ringVars, tableVars, readerVars, next_, min_consumer_seq_, i>>

ScanLoad ==
  /\ ppc = "load"
  /\ min_seq' = Min2(min_seq, position[si])
  /\ si' = si + 1
  /\ ppc' = "scan"
  /\ UNCHANGED <<ringVars, tableVars, readerVars, next_, min_consumer_seq_, i>>

ScanEnd_CachesNext ==
  /\ ppc = "scan" /\ si = MaxConsumers
  /\ min_consumer_seq_' = next_
  /\ ppc' = IF Full(next_ + 1, min_seq) THEN "idle" ELSE "claim"
  /\ si' = 0
  /\ min_seq' = MaxU64
  /\ UNCHANGED <<ringVars, tableVars, readerVars, next_, i>>

ScanEnd_KeepsMin ==
  /\ ppc = "scan" /\ si = MaxConsumers
  /\ min_consumer_seq_' = min_seq
  /\ ppc' = IF Full(next_ + 1, min_seq) THEN "idle" ELSE "claim"
  /\ si' = 0
  /\ UNCHANGED <<ringVars, tableVars, readerVars, next_, i, min_seq>>

\* End of the scan: the minimum is cached, and publish() goes on or returns
\* false.  The caller offers the same message again.
ScanEnd ==
  /\ ppc = "scan" /\ si = MaxConsumers
  /\ min_consumer_seq_' = min_seq
  /\ ppc' = IF Full(next_ + 1, min_seq) THEN "idle" ELSE "claim"
  /\ si' = 0
  /\ min_seq' = MaxU64
  /\ UNCHANGED <<ringVars, tableVars, readerVars, next_, i>>

ClaimAndWrite_StampFirst ==
  /\ ppc = "claim"
  /\ next_' = next_ + 1
  /\ slotData' = [slotData EXCEPT ![Index(next_ + 1)] = Torn]
  /\ slotSeq' = [slotSeq EXCEPT ![Index(next_ + 1)] = next_ + 2]
  /\ ppc' = "write"
  /\ UNCHANGED <<tableVars, readerVars, min_consumer_seq_, i, si, min_seq>>

\* next_ = next_seq, and the first half of slot.data = item.
ClaimAndWrite ==
  /\ ppc = "claim"
  /\ next_' = next_ + 1
  /\ slotData' = [slotData EXCEPT ![Index(next_ + 1)] = Torn]
  /\ ppc' = "write"
  /\ UNCHANGED <<slotSeq, tableVars, readerVars,
                 min_consumer_seq_, i, si, min_seq>>

WriteDone ==
  /\ ppc = "write"
  /\ slotData' = [slotData EXCEPT ![Index(next_)] = i]
  /\ ppc' = "release"
  /\ UNCHANGED <<slotSeq, tableVars, readerVars,
                 next_, min_consumer_seq_, i, si, min_seq>>

Release_StampAhead ==
  /\ ppc = "release"
  /\ slotSeq' = [slotSeq EXCEPT ![Index(next_)] = next_ + 2]
  /\ i' = i + 1
  /\ ppc' = "idle"
  /\ UNCHANGED <<slotData, tableVars, readerVars,
                 next_, min_consumer_seq_, si, min_seq>>

\* slot.sequence.store(next_seq + 1): publish() returns true, the loop moves on.
Release ==
  /\ ppc = "release"
  /\ slotSeq' = [slotSeq EXCEPT ![Index(next_)] = next_ + 1]
  /\ i' = i + 1
  /\ ppc' = "idle"
  /\ UNCHANGED <<slotData, tableVars, readerVars,
                 next_, min_consumer_seq_, si, min_seq>>

Producer ==
  \/ StartPublishing \/ PublishFastPath \/ PublishSlowPath
  \/ ScanInactive \/ ScanActive \/ ScanLoad \/ ScanEnd
  \/ ClaimAndWrite \/ WriteDone \/ Release

-----------------------------------------------------------------------------
(* register_consumer() and unregister_consumer(). *)

RegisterCall(r) ==
  /\ rpc[r] = "new"
  /\ seq' = [seq EXCEPT ![r] = IF r \in FromNow THEN next_ ELSE 1]
  /\ rpc' = [rpc EXCEPT ![r] = "cas"]
  /\ UNCHANGED <<ringVars, tableVars, prodVars, id, out, received, first, safe>>

CasWins_PlainStore(r) ==
  /\ rpc[r] = "cas" /\ id[r] < MaxConsumers
  /\ active' = [active EXCEPT ![id[r]] = TRUE]
  /\ rpc' = [rpc EXCEPT ![r] = "set"]
  /\ UNCHANGED <<ringVars, position, prodVars, id, seq, out, received, first, safe>>

\* compare_exchange_strong(false, true) succeeds.
CasWins(r) ==
  /\ rpc[r] = "cas" /\ id[r] < MaxConsumers
  /\ ~active[id[r]]
  /\ active' = [active EXCEPT ![id[r]] = TRUE]
  /\ rpc' = [rpc EXCEPT ![r] = "set"]
  /\ UNCHANGED <<ringVars, position, prodVars, id, seq, out, received, first, safe>>

CasLoses(r) ==
  /\ rpc[r] = "cas" /\ id[r] < MaxConsumers
  /\ active[id[r]]
  /\ id' = [id EXCEPT ![r] = @ + 1]
  /\ UNCHANGED <<ringVars, tableVars, prodVars, rpc, seq, out, received, first, safe>>

\* Every slot was taken when it was tried: nullopt, the caller gives up.
RegisterFails(r) ==
  /\ rpc[r] = "cas" /\ id[r] = MaxConsumers
  /\ rpc' = [rpc EXCEPT ![r] = "full"]
  /\ UNCHANGED <<ringVars, tableVars, prodVars, id, seq, out, received, first, safe>>

RegisterSet_SkipsFirst(r) ==
  /\ rpc[r] = "set"
  /\ position' = [position EXCEPT ![id[r]] = seq[r] + 1]
  /\ rpc' = [rpc EXCEPT ![r] = "ready"]
  /\ first' = [first EXCEPT ![r] = seq[r]]
  /\ safe' = IF Guarded(seq[r], id[r]) THEN safe \cup {r} ELSE safe
  /\ UNCHANGED <<ringVars, active, prodVars, id, seq, out, received>>

\* sequence.set(start_sequence), after the slot is already marked active.
RegisterSet(r) ==
  /\ rpc[r] = "set"
  /\ position' = [position EXCEPT ![id[r]] = seq[r]]
  /\ rpc' = [rpc EXCEPT ![r] = "ready"]
  /\ first' = [first EXCEPT ![r] = seq[r]]
  /\ safe' = IF Guarded(seq[r], id[r]) THEN safe \cup {r} ELSE safe
  /\ UNCHANGED <<ringVars, active, prodVars, id, seq, out, received>>

\* Between two calls of consume().
Unregister(r) ==
  /\ rpc[r] = "ready"
  /\ active' = [active EXCEPT ![id[r]] = FALSE]
  /\ rpc' = [rpc EXCEPT ![r] = "gone"]
  /\ UNCHANGED <<ringVars, position, prodVars, id, seq, out, received, first, safe>>

\* The process is killed: its slot stays active and its position frozen.
Crash(r) ==
  /\ r \in Mortal
  /\ rpc[r] \in Owning \ {"crashed"}
  /\ rpc' = [rpc EXCEPT ![r] = "crashed"]
  /\ UNCHANGED <<ringVars, tableVars, prodVars, id, seq, out, received, first, safe>>

-----------------------------------------------------------------------------
(* consume(). *)

ConsumeLoad(r) ==
  /\ rpc[r] = "ready"
  /\ active[id[r]]
  /\ seq' = [seq EXCEPT ![r] = position[id[r]]]
  /\ rpc' = [rpc EXCEPT ![r] = "check"]
  /\ UNCHANGED <<ringVars, tableVars, prodVars, id, out, received, first, safe>>

\* Nothing published at this position: return false, the caller polls again.
ConsumeEmpty(r) ==
  /\ rpc[r] = "check"
  /\ ~Ready(slotSeq[Index(seq[r])], seq[r])
  /\ rpc' = [rpc EXCEPT ![r] = "ready"]
  /\ UNCHANGED <<ringVars, tableVars, prodVars, id, seq, out, received, first, safe>>

ConsumeReady(r) ==
  /\ rpc[r] = "check"
  /\ Ready(slotSeq[Index(seq[r])], seq[r])
  /\ rpc' = [rpc EXCEPT ![r] = "copy"]
  /\ UNCHANGED <<ringVars, tableVars, prodVars, id, seq, out, received, first, safe>>

CopyFirst_AdvancesBefore(r) ==
  /\ rpc[r] = "copy"
  /\ position' = [position EXCEPT ![id[r]] = seq[r] + 1]
  /\ out' = [out EXCEPT ![r] = slotData[Index(seq[r])]]
  /\ rpc' = [rpc EXCEPT ![r] = "copy2"]
  /\ UNCHANGED <<ringVars, active, prodVars, id, seq, received, first, safe>>

\* out = slot.data, first half.
CopyFirst(r) ==
  /\ rpc[r] = "copy"
  /\ out' = [out EXCEPT ![r] = slotData[Index(seq[r])]]
  /\ rpc' = [rpc EXCEPT ![r] = "copy2"]
  /\ UNCHANGED <<ringVars, tableVars, prodVars, id, seq, received, first, safe>>

\* out = slot.data, second half.
CopySecond(r) ==
  /\ rpc[r] = "copy2"
  /\ out' = [out EXCEPT ![r] = IF slotData[Index(seq[r])] = @ THEN @ ELSE Torn]
  /\ rpc' = [rpc EXCEPT ![r] = "advance"]
  /\ UNCHANGED <<ringVars, tableVars, prodVars, id, seq, received, first, safe>>

\* consumer_seq.set(seq + 1), return true.
Advance(r) ==
  /\ rpc[r] = "advance"
  /\ position' = [position EXCEPT ![id[r]] = seq[r] + 1]
  /\ received' = [received EXCEPT ![r] = Append(@, out[r])]
  /\ out' = [out EXCEPT ![r] = NoMsg]
  /\ rpc' = [rpc EXCEPT ![r] = "ready"]
  /\ UNCHANGED <<ringVars, active, prodVars, id, seq, first, safe>>

\* What a reader's own program obliges it to do.
Reader(r) ==
  \/ RegisterCall(r) \/ CasWins(r) \/ CasLoses(r) \/ RegisterFails(r)
  \/ RegisterSet(r)
  \/ ConsumeLoad(r) \/ ConsumeEmpty(r) \/ ConsumeReady(r)
  \/ CopyFirst(r) \/ CopySecond(r) \/ Advance(r)

\* All messages are published and every reader has ended: the program stops.
AllDone ==
  /\ ppc = "idle" /\ i > N
  /\ \A r \in Readers : rpc[r] \in Ended
  /\ UNCHANGED vars

Next ==
  \/ Producer
  \/ \E r \in Readers : Reader(r) \/ Unregister(r) \/ Crash(r)
  \/ AllDone

Spec == Init /\ [][Next]_vars

\* The scheduler keeps running the producer's retry loop and each live reader's
\* poll loop; nobody is obliged to unregister or to crash.
Fairness ==
  /\ WF_vars(Producer)
  /\ \A r \in Readers : WF_vars(Reader(r))

FairSpec == Spec /\ Fairness

-----------------------------------------------------------------------------
(* Properties. *)

\* What a slot or a copy of it can hold.
Data == (NoMsg .. N) \cup {Torn}

\* The variables keep the shape of the code's fields and locals.
TypeOK ==
  /\ slotSeq \in [Slots -> 0 .. N + 1]
  /\ slotData \in [Slots -> Data]
  /\ active \in [ConsumerIds -> BOOLEAN]
  /\ position \in [ConsumerIds -> 0 .. N + 1]
  /\ next_ \in 0 .. N
  /\ min_consumer_seq_ \in 0 .. MaxU64
  /\ ppc \in {"wait", "idle", "scan", "load", "claim", "write", "release"}
  /\ i \in 1 .. N + 1
  /\ si \in 0 .. MaxConsumers /\ (ppc = "load" => si < MaxConsumers)
  /\ min_seq \in 0 .. MaxU64
  /\ rpc \in [Readers -> Registering \cup Reading \cup Ended]
  /\ id \in [Readers -> 0 .. MaxConsumers]
  /\ seq \in [Readers -> 0 .. N + 1]
  /\ out \in [Readers -> Data]
  /\ received \in [Readers -> Seq(Data)]
  /\ first \in [Readers -> 0 .. N + 1]
  /\ safe \in SUBSET Readers

\* register_consumer() hands a consumer slot to one live reader at a time, and
\* the slot of a live reader (a killed one included) is marked active.
SlotExclusive ==
  \A r \in Readers : rpc[r] \in Owning =>
    /\ id[r] \in ConsumerIds /\ active[id[r]]
    /\ \A q \in Readers \ {r} : rpc[q] \in Owning => id[q] # id[r]

\* A reader whose register_consumer() returned before the first publish() is
\* in time: the producer's cached minimum can never have passed it.
JoinInTime ==
  ppc # "wait" =>
    \A r \in Early : rpc[r] \in Reading \cup {"gone"} => r \in safe

\* consume() delivers to a reader that registered in time every message from
\* its start_sequence on, each one once, in publication order and whole, while
\* other readers register, unregister and die around it.
ExactlyOnceInOrder ==
  \A r \in safe : \A k \in DOMAIN received[r] :
    received[r][k] = first[r] + k - 1

\* publish() never writes slot.data while consume() copies it for a reader
\* that registered in time (slot.data is not atomic: overlap is undefined).
NoDataRace ==
  \A r \in safe :
    rpc[r] \in {"copy", "copy2"} /\ ppc = "write" => Index(next_) # Index(seq[r])

\* Every published message that a reader has not consumed yet is still in its
\* slot, under its own sequence number: publish() never overwrites it.
UnreadIntact ==
  \A r \in safe : rpc[r] \in Reading =>
    \A s \in position[id[r]] .. next_ :
      s >= 1 /\ (s < next_ \/ ppc \notin {"write", "release"}) =>
        slotSeq[Index(s)] = s + 1 /\ slotData[Index(s)] = s

\* When publish() skips the scan on the strength of its stale cached minimum,
\* a scan would have let it go on as well: no reader is a full lap behind.
FastPathSound ==
  ppc = "idle" /\ ~Full(next_ + 1, min_consumer_seq_) =>
    \A r \in safe : rpc[r] \in Reading =>
      next_ + 1 < position[id[r]] + RingSize

\* A reader that took current_sequence() for its start before anything was
\* published waits for sequence 0, and the producer in the end for the reader.
AwaitsZero == \E r \in Readers : rpc[r] \in Reading /\ position[id[r]] = 0

\* A reader registered before publishing starts and still polling receives all
\* N messages: but for readers at sequence 0, the producer's retry loop and the
\* readers' poll loops never wait for each other.
EarlyDelivery ==
  \A r \in Early : <>(Len(received[r]) = N \/ rpc[r] \in Ended \/ AwaitsZero)

\* The retry loop of the producer ends, unless every reader has ended or one
\* waits for sequence 0.
ProducerFinishes ==
  <>(i > N \/ (\A r \in Readers : rpc[r] \in Ended) \/ AwaitsZero)

-----------------------------------------------------------------------------
(* The inductive invariant behind the properties above. *)

Writing == {"write", "release"}
Copying == {"copy", "copy2", "advance"}

\* The loop counter and the claimed sequence move together: message i gets
\* sequence number i.
ProducerInv ==
  /\ i = IF ppc \in Writing THEN next_ ELSE next_ + 1
  /\ ppc \in Writing \cup {"scan", "load", "claim"} => i <= N
  /\ ppc = "wait" => next_ = 0 /\ min_consumer_seq_ = 0
  /\ ppc \notin {"scan", "load"} => si = 0

\* Each slot of the last lap holds its own message and stamp, except the one
\* being written; no stamp is ahead of the producer or in a wrong slot.
RingInv ==
  /\ \A j \in Slots : slotSeq[j] <= IF ppc \in Writing THEN next_ ELSE next_ + 1
  /\ \A s \in 1 .. next_ :
       next_ < s + RingSize /\ (s < next_ \/ ppc \notin Writing) =>
         slotSeq[Index(s)] = s + 1 /\ slotData[Index(s)] = s
  /\ \A j \in Slots : slotSeq[j] # 0 => slotSeq[j] >= 2 /\ Index(slotSeq[j] - 1) = j
  /\ ppc = "release" => slotData[Index(next_)] = i

\* Which readers are in time, and how far a copying reader can be.
JoinInv ==
  \A r \in Readers :
    /\ rpc[r] \in Copying => seq[r] <= next_
    /\ rpc[r] \in Registering => r \notin safe /\ received[r] = <<>>
    /\ rpc[r] \in {"cas", "set"} => seq[r] <= 1 \/ seq[r] <= next_
    /\ ppc # "wait" /\ r \in Early => rpc[r] \notin Registering
    /\ (ppc = "wait" \/ r \in Early) /\ rpc[r] \in Reading \cup {"gone"} => r \in safe

\* A reader in time is guarded, its position counts what it has received, and
\* what it copies is the message of its position.
InTime(r) ==
  /\ rpc[r] \in Reading =>
       /\ Guarded(position[id[r]], id[r])
       /\ position[id[r]] = first[r] + Len(received[r])
  /\ rpc[r] \in Reading \ {"ready"} => seq[r] = position[id[r]]
  /\ rpc[r] \in Copying => slotSeq[Index(seq[r])] = seq[r] + 1 /\ seq[r] >= 1
  /\ rpc[r] \in {"copy2", "advance"} => out[r] = seq[r]

ReaderInv == \A r \in safe : InTime(r)

IInv ==
  /\ TypeOK /\ ProducerInv /\ SlotExclusive /\ RingInv /\ JoinInv /\ ReaderInv
  /\ ExactlyOnceInOrder

-----------------------------------------------------------------------------
(* What the documentation says, where the code does something else. *)

\* README.md:94 "every consumer sees every message (pub-sub semantics)", and
\* Consumer.h:73 starts every consumer at sequence 1 whenever it attaches.
EveryConsumerSeesEveryMessage ==
  \A r \in Readers : \A k \in DOMAIN received[r] : received[r][k] = k

\* Queue.h:154, unregister_consumer(): "Does not block any other consumer or
\* the producer."
UnregisterDoesNotBlockProducer == <>(i > N)

\* Queue.h:132, start_sequence: "Typically set to the current producer position
\* (next_) so the consumer starts from "now" rather than the beginning."
StartsFromNow ==
  \A r \in FromNow : <>(received[r] # <<>> \/ rpc[r] \in Ended)

=============================================================================
