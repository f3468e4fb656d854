---------------------- MODULE SpmcQueueRefinementProofs ----------------------
(***************************************************************************)
(* The ring of SpmcQueue implements the log of PubSub, for every ring      *)
(* size, number of consumer slots, number of messages and set of readers.  *)
(* Four steps show: Release is Publish, RegisterSet is Join, Advance is    *)
(* Deliver, Unregister and Crash are Leave; all others change nothing that *)
(* PubSub can see.                                                         *)
(***************************************************************************)
EXTENDS SpmcQueueRefinement, SpmcQueueProofs

USE DEF ringVars, tableVars, prodVars, readerVars, vars, Registering, Reading,
        Owning, Ended, Writing, Copying

\* The producer sees a log as long as the number of released messages.
LEMMA LogLength ==
  ASSUME IInv
  PROVE  /\ Released \in 0 .. N /\ next_ \in 0 .. N
         /\ ReleasedLog \in Seq(1 .. N) /\ Len(ReleasedLog) = Released
<1>1. next_ \in 0 .. N /\ (ppc \in Writing => next_ >= 1)
  BY DEF IInv, TypeOK, ProducerInv
<1>2. Released \in 0 .. N /\ N \in Nat
  BY <1>1, QueueAssumption DEF Released
<1>3. ReleasedLog \in [1 .. Released -> 1 .. N]
  BY <1>2 DEF ReleasedLog
<1> QED
  BY <1>1, <1>2, <1>3 DEF ReleasedLog

\* One more message released is one more message appended.
LEMMA LogAppend ==
  ASSUME NEW n \in Nat
  PROVE  [k \in 1 .. n + 1 |-> k] = Append([k \in 1 .. n |-> k], n + 1)
<1> DEFINE a == [k \in 1 .. n + 1 |-> k]
           b == [k \in 1 .. n |-> k]
<1>1. b \in Seq(Nat) /\ Len(b) = n
  OBVIOUS
<1>2. /\ DOMAIN Append(b, n + 1) = 1 .. n + 1
      /\ \A k \in 1 .. n + 1 : Append(b, n + 1)[k] = k
  BY <1>1
<1>3. Append(b, n + 1) \in Seq(Nat)
  BY <1>1
<1> QED
  BY <1>1, <1>2, <1>3

\* The producer's steps before and after the release of a message do not show.
LEMMA ProducerStutters ==
  ASSUME IInv, Producer, ~Release
  PROVE  UNCHANGED PS!pubsubVars
<1>1. UNCHANGED <<tableVars, readerVars>>
  BY ProducerKeepsReaders
<1>2. Released' = Released
  BY QueueAssumption DEF IInv, TypeOK, Producer, StartPublishing, PublishFastPath,
     PublishSlowPath, ScanInactive, ScanActive, ScanLoad, ScanEnd, ClaimAndWrite,
     WriteDone, Released
<1> QED
  BY <1>1, <1>2 DEF PS!pubsubVars, ReleasedLog, JoinedInTime, CursorInTime,
     ReceivedInTime

\* The store of the stamp is the publication, and there is room for it.
LEMMA ReleasePublishes ==
  ASSUME IInv, Release
  PROVE  \E m \in 1 .. N : PS!Publish(m)
<1>1. UNCHANGED <<tableVars, readerVars>>
  BY ProducerKeepsReaders DEF Producer
<1>2. /\ next_ \in 1 .. N /\ i = next_ /\ Released = next_ - 1 /\ Released' = next_
      /\ RingSize \in Nat
  BY QueueAssumption DEF IInv, TypeOK, ProducerInv, Release, Released
<1>3. ReleasedLog' = Append(ReleasedLog, next_)
  <2>1. next_ - 1 \in Nat /\ (next_ - 1) + 1 = next_
    BY <1>2
  <2> QED
    BY <1>2, <2>1, LogAppend DEF ReleasedLog
<1>4. ASSUME NEW r \in JoinedInTime
      PROVE  Len(ReleasedLog) + 1 < CursorInTime[r] + RingSize
  <2>1. r \in Readers /\ r \in safe /\ rpc[r] \in Reading
    BY DEF JoinedInTime, IInv, TypeOK
  <2>2. next_ < position[id[r]] + RingSize
    BY <2>1 DEF IInv, ReaderInv, InTime, Guarded
  <2>3. Len(ReleasedLog) + 1 = next_ /\ CursorInTime[r] = position[id[r]]
    BY <1>2, <2>1, LogLength DEF CursorInTime
  <2> QED
    BY <2>2, <2>3
<1>5. UNCHANGED <<JoinedInTime, CursorInTime, ReceivedInTime>>
  BY <1>1 DEF JoinedInTime, CursorInTime, ReceivedInTime
<1>6. PS!Publish(next_)
  BY <1>3, <1>4, <1>5 DEF PS!Publish, PS!HasRoom
<1> QED
  BY <1>2, <1>6

\* A step of one reader changes nothing that is seen of another.
LEMMA OthersKept ==
  ASSUME IInv, NEW q \in Readers, NEW r \in Readers \ {q},
         Reader(q) \/ Unregister(q) \/ Crash(q)
  PROVE  /\ r \in JoinedInTime' <=> r \in JoinedInTime
         /\ CursorInTime'[r] = CursorInTime[r]
         /\ ReceivedInTime'[r] = ReceivedInTime[r]
<1>1. /\ rpc'[r] = rpc[r] /\ id'[r] = id[r] /\ received'[r] = received[r]
      /\ r \in safe' <=> r \in safe
  BY DEF IInv, TypeOK, Reader, RegisterCall, CasWins, CasLoses, RegisterFails,
         RegisterSet, Unregister, Crash, ConsumeLoad, ConsumeEmpty, ConsumeReady,
         CopyFirst, CopySecond, Advance
<1>2. rpc[r] \in Reading => position'[id[r]] = position[id[r]]
  <2>1. CASE RegisterSet(q) \/ Advance(q)
    <3>1. rpc[q] \in Owning /\ \E v : position' = [position EXCEPT ![id[q]] = v]
      BY <2>1 DEF RegisterSet, Advance
    <3>2. rpc[r] \in Reading => id[q] # id[r] /\ id[r] \in ConsumerIds
      BY <3>1 DEF IInv, SlotExclusive
    <3> QED
      BY <3>1, <3>2 DEF IInv, TypeOK
  <2>2. CASE ~(RegisterSet(q) \/ Advance(q))
    BY <2>2 DEF Reader, RegisterCall, CasWins, CasLoses, RegisterFails,
         Unregister, Crash, ConsumeLoad, ConsumeEmpty, ConsumeReady, CopyFirst,
         CopySecond
  <2> QED BY <2>1, <2>2
<1> QED
  BY <1>1, <1>2 DEF JoinedInTime, CursorInTime, ReceivedInTime

\* Only what is seen of the reader itself can change in its step.
LEMMA ReaderStutters ==
  ASSUME IInv, NEW q \in Readers, Reader(q) \/ Unregister(q) \/ Crash(q),
         q \in JoinedInTime' <=> q \in JoinedInTime,
         CursorInTime'[q] = CursorInTime[q],
         ReceivedInTime'[q] = ReceivedInTime[q],
         safe' \subseteq Readers
  PROVE  UNCHANGED PS!pubsubVars
<1>1. UNCHANGED ReleasedLog
  BY ReaderKeepsProducer DEF ReleasedLog, Released
<1>2. JoinedInTime \subseteq Readers /\ JoinedInTime' \subseteq Readers
  BY DEF JoinedInTime, IInv, TypeOK
<1>3. JoinedInTime' = JoinedInTime
  BY <1>2, OthersKept
<1>4. \A r \in Readers : /\ CursorInTime'[r] = CursorInTime[r]
                         /\ ReceivedInTime'[r] = ReceivedInTime[r]
  BY OthersKept
<1>5. CursorInTime' = CursorInTime /\ ReceivedInTime' = ReceivedInTime
  BY <1>4 DEF CursorInTime, ReceivedInTime
<1> QED
  BY <1>1, <1>3, <1>5 DEF PS!pubsubVars

\* The store of the start position is the joining of a reader in time, at a
\* message of the last lap or the next one; a reader too late does not show.
LEMMA RegisterSetJoins ==
  ASSUME IInv, IInv', NEW r \in Readers, RegisterSet(r)
  PROVE  [PS!PubSubNext]_PS!pubsubVars
<1>1. /\ r \notin safe /\ received[r] = <<>> /\ rpc[r] = "set" /\ received' = received
      /\ rpc'[r] = "ready" /\ id' = id /\ safe' \subseteq Readers
  BY DEF RegisterSet, IInv, JoinInv, TypeOK
<1>2. CASE ~Guarded(seq[r], id[r])
  <2>1. safe' = safe
    BY <1>2 DEF RegisterSet
  <2> QED
    BY <1>1, <2>1, ReaderStutters DEF Reader, JoinedInTime, CursorInTime,
       ReceivedInTime
<1>3. CASE Guarded(seq[r], id[r])
  <2>1. safe' = safe \cup {r}
    BY <1>3 DEF RegisterSet
  <2>2. id[r] \in ConsumerIds /\ position'[id[r]] = seq[r]
    BY DEF RegisterSet, IInv, TypeOK, SlotExclusive
  <2>3. r \notin JoinedInTime /\ r \in JoinedInTime'
    BY <1>1, <2>1 DEF JoinedInTime
  <2>4. JoinedInTime' = JoinedInTime \cup {r}
    <3>1. JoinedInTime \subseteq Readers /\ JoinedInTime' \subseteq Readers
      BY DEF JoinedInTime, IInv, TypeOK
    <3> QED
      BY <2>3, <3>1, OthersKept DEF Reader
  <2>5. CursorInTime' = [CursorInTime EXCEPT ![r] = seq[r]]
    <3>1. CursorInTime'[r] = seq[r]
      BY <1>1, <2>2, <2>3 DEF CursorInTime
    <3>2. \A q \in Readers \ {r} : CursorInTime'[q] = CursorInTime[q]
      BY OthersKept DEF Reader
    <3> QED
      BY <3>1, <3>2 DEF CursorInTime
  <2>6. ReceivedInTime' = ReceivedInTime
    BY <1>1, <2>1 DEF ReceivedInTime
  <2>7. ReleasedLog' = ReleasedLog
    BY ReaderKeepsProducer DEF Reader, ReleasedLog, Released
  <2>8. seq[r] \in 0 .. Len(ReleasedLog) + 1 /\ Len(ReleasedLog) < seq[r] + RingSize
    <3>1. seq[r] \in Nat /\ next_ \in Nat /\ RingSize \in Nat
      BY QueueAssumption DEF IInv, TypeOK
    <3>2. seq[r] <= 1 \/ seq[r] <= next_
      BY <1>1 DEF IInv, JoinInv
    <3>3. seq[r] <= next_ + 1 /\ next_ < seq[r] + RingSize
      BY <1>3 DEF Guarded
    <3>4. Len(ReleasedLog) \in Nat /\ Len(ReleasedLog) \in {next_ - 1, next_}
      BY LogLength DEF Released
    <3> QED
      BY <3>1, <3>2, <3>3, <3>4
  <2>9. PS!Join(r, seq[r])
    BY <2>3, <2>4, <2>5, <2>6, <2>7, <2>8 DEF PS!Join
  <2> QED
    BY <2>8, <2>9 DEF PS!PubSubNext
<1> QED
  BY <1>2, <1>3

\* The store of the advanced position is the delivery of the message there.
LEMMA AdvanceDelivers ==
  ASSUME IInv, IInv', NEW r \in Readers, Advance(r)
  PROVE  [PS!PubSubNext]_PS!pubsubVars
<1>1. /\ rpc[r] = "advance" /\ rpc'[r] = "ready" /\ id' = id /\ safe' = safe
      /\ received' = [received EXCEPT ![r] = Append(@, out[r])]
      /\ safe \subseteq Readers
  BY DEF Advance, IInv, TypeOK
<1>2. CASE r \notin safe
  BY <1>1, <1>2, ReaderStutters DEF Reader, JoinedInTime, CursorInTime,
     ReceivedInTime
<1>3. CASE r \in safe
  <2>1. r \in JoinedInTime /\ JoinedInTime' = JoinedInTime
    <3>1. \A q \in Readers \ {r} : q \in JoinedInTime' <=> q \in JoinedInTime
      BY OthersKept DEF Reader
    <3>2. r \in JoinedInTime /\ r \in JoinedInTime'
      BY <1>1, <1>3 DEF JoinedInTime
    <3>3. JoinedInTime \subseteq Readers /\ JoinedInTime' \subseteq Readers
      BY <1>1 DEF JoinedInTime
    <3> QED
      BY <3>1, <3>2, <3>3
  <2>2. /\ id[r] \in ConsumerIds /\ position'[id[r]] = seq[r] + 1
        /\ seq[r] = position[id[r]] /\ out[r] = seq[r]
    BY <1>1, <1>3 DEF Advance, IInv, TypeOK, SlotExclusive, ReaderInv, InTime
  <2>3. CursorInTime[r] = seq[r] /\ CursorInTime'[r] = seq[r] + 1
    BY <1>1, <2>1, <2>2 DEF CursorInTime
  <2>4. seq[r] \in 1 .. Len(ReleasedLog) /\ ReleasedLog[seq[r]] = seq[r]
    <3>1. seq[r] \in 1 .. next_ /\ (seq[r] < next_ \/ ppc \notin Writing)
      BY <1>1, <1>3, CopiesPublished
    <3>2. seq[r] \in 1 .. Released
      BY <3>1, LogLength DEF Released
    <3> QED
      BY <3>2, LogLength DEF ReleasedLog
  <2>5. CursorInTime' = [CursorInTime EXCEPT ![r] = @ + 1]
    <3>1. \A q \in Readers \ {r} : CursorInTime'[q] = CursorInTime[q]
      BY OthersKept DEF Reader
    <3> QED
      BY <2>3, <3>1 DEF CursorInTime
  <2>6. ReceivedInTime' = [ReceivedInTime EXCEPT ![r] = Append(@, seq[r])]
    <3>1. \A q \in Readers \ {r} : ReceivedInTime'[q] = ReceivedInTime[q]
      BY OthersKept DEF Reader
    <3>2. ReceivedInTime'[r] = Append(ReceivedInTime[r], seq[r])
      BY <1>1, <1>3, <2>2 DEF ReceivedInTime, IInv, TypeOK
    <3> QED
      BY <3>1, <3>2 DEF ReceivedInTime
  <2>7. ReleasedLog' = ReleasedLog
    BY ReaderKeepsProducer DEF Reader, ReleasedLog, Released
  <2>8. PS!Deliver(r)
    BY <2>1, <2>3, <2>4, <2>5, <2>6, <2>7 DEF PS!Deliver, PS!HasMessage
  <2> QED
    BY <2>8 DEF PS!PubSubNext
<1> QED
  BY <1>2, <1>3

\* Clearing the slot, or dying, is leaving.
LEMMA ExitLeaves ==
  ASSUME IInv, IInv', NEW r \in Readers, Unregister(r) \/ Crash(r)
  PROVE  [PS!PubSubNext]_PS!pubsubVars
<1>1. /\ rpc'[r] \notin Reading /\ received' = received /\ safe' = safe
      /\ safe \subseteq Readers
  BY DEF Unregister, Crash, IInv, TypeOK
<1>2. r \notin JoinedInTime' /\ CursorInTime'[r] = 0 /\ ReceivedInTime' = ReceivedInTime
  BY <1>1 DEF JoinedInTime, CursorInTime, ReceivedInTime
<1>3. CASE r \notin JoinedInTime
  <2>1. CursorInTime[r] = 0
    BY <1>3 DEF CursorInTime
  <2> QED
    BY <1>1, <1>2, <1>3, <2>1, ReaderStutters
<1>4. CASE r \in JoinedInTime
  <2>1. JoinedInTime' = JoinedInTime \ {r}
    <3>1. JoinedInTime \subseteq Readers /\ JoinedInTime' \subseteq Readers
      BY <1>1 DEF JoinedInTime
    <3> QED
      BY <1>2, <3>1, OthersKept
  <2>2. CursorInTime' = [CursorInTime EXCEPT ![r] = 0]
    <3>1. \A q \in Readers \ {r} : CursorInTime'[q] = CursorInTime[q]
      BY OthersKept
    <3> QED
      BY <1>2, <3>1 DEF CursorInTime
  <2>3. ReleasedLog' = ReleasedLog
    BY ReaderKeepsProducer DEF ReleasedLog, Released
  <2>4. PS!Leave(r)
    BY <1>2, <1>4, <2>1, <2>2, <2>3 DEF PS!Leave
  <2> QED
    BY <2>4 DEF PS!PubSubNext
<1> QED
  BY <1>3, <1>4

\* Looking for a slot, loading, checking and copying do not show.
LEMMA OtherStepsStutter ==
  ASSUME IInv, IInv', NEW r \in Readers, Reader(r), ~RegisterSet(r), ~Advance(r)
  PROVE  UNCHANGED PS!pubsubVars
<1>1. UNCHANGED <<position, received, safe>>
  BY DEF Reader, RegisterCall, CasWins, CasLoses, RegisterFails, ConsumeLoad,
     ConsumeEmpty, ConsumeReady, CopyFirst, CopySecond
<1>2. CASE RegisterCall(r) \/ CasWins(r) \/ CasLoses(r) \/ RegisterFails(r)
  <2>1. r \notin safe
    BY <1>2 DEF RegisterCall, CasWins, CasLoses, RegisterFails, IInv, JoinInv
  <2> QED
    BY <1>1, <2>1, ReaderStutters DEF JoinedInTime, CursorInTime, ReceivedInTime,
       IInv, TypeOK
<1>3. CASE \/ ConsumeLoad(r) \/ ConsumeEmpty(r) \/ ConsumeReady(r)
           \/ CopyFirst(r) \/ CopySecond(r)
  <2>1. rpc[r] \in Reading /\ rpc'[r] \in Reading /\ id' = id
    BY <1>3 DEF ConsumeLoad, ConsumeEmpty, ConsumeReady, CopyFirst, CopySecond,
       IInv, TypeOK
  <2> QED
    BY <1>1, <2>1, ReaderStutters DEF JoinedInTime, CursorInTime, ReceivedInTime,
       IInv, TypeOK
<1> QED
  BY <1>2, <1>3 DEF Reader

\* The ring behaves as one log with a cursor per reader: every access to memory
\* by publish(), consume(), register_consumer() and unregister_consumer() is an
\* atomic publish, deliver, join or leave of PubSub, or shows nothing.
THEOREM RingImplementsLog == Spec => ImplementsPubSub
<1>1. ASSUME Init
      PROVE  PS!PubSubInit
  <2>1. Released = 0 /\ safe = {}
    BY <1>1 DEF Init, Released
  <2>2. ReleasedLog = <<>> /\ JoinedInTime = {}
    BY <2>1 DEF ReleasedLog, JoinedInTime
  <2> QED
    BY <2>1, <2>2 DEF PS!PubSubInit, CursorInTime, ReceivedInTime
<1>2. ASSUME IInv, IInv', [Next]_vars
      PROVE  [PS!PubSubNext]_PS!pubsubVars
  <2>1. CASE Producer
    BY <1>2, <2>1, ProducerStutters, ReleasePublishes DEF PS!PubSubNext
  <2>2. ASSUME NEW r \in Readers, Reader(r) \/ Unregister(r) \/ Crash(r)
        PROVE  [PS!PubSubNext]_PS!pubsubVars
    BY <1>2, <2>2, RegisterSetJoins, AdvanceDelivers, ExitLeaves, OtherStepsStutter
  <2>3. CASE UNCHANGED vars
    BY <2>3 DEF PS!pubsubVars, ReleasedLog, Released, JoinedInTime, CursorInTime,
       ReceivedInTime
  <2> QED
    BY <1>2, <2>1, <2>2, <2>3, NextSplit
<1>3. IInv /\ IInv' /\ [Next]_vars => [PS!PubSubNext]_PS!pubsubVars
  BY <1>2
<1> QED
  BY <1>1, <1>3, Invariance, PTL DEF Spec, ImplementsPubSub, PS!PubSubSpec

=============================================================================
