--------------------------- MODULE SpmcQueueProofs ---------------------------
(***************************************************************************)
(* Proofs about SpmcQueue for every ring size, number of consumer slots,   *)
(* number of messages and set of readers.                                  *)
(*                                                                         *)
(* IInv is inductive.  Its conjuncts are shown to be preserved one lemma   *)
(* at a time (TypeStep, ProducerStep, ...), each by cases on the actions   *)
(* that can disturb it; the properties that the TLC runs check on small    *)
(* instances are then consequences of IInv.                                *)
(***************************************************************************)
EXTENDS SpmcQueue, TLAPS

-----------------------------------------------------------------------------
(* Arithmetic of the ring. *)

\* seq & kRingMask is an index of the ring.
LEMMA IndexRange == \A s \in Nat : Index(s) \in Slots
  BY QueueAssumption DEF Index, Slots

\* Two sequence numbers less than a lap apart use different slots.
LEMMA IndexInjective ==
  ASSUME NEW s \in Nat, NEW t \in Nat, s < t, t < s + RingSize
  PROVE  Index(s) # Index(t)
<1> DEFINE a == s \div RingSize
           b == t \div RingSize
<1>1. a \in Int /\ b \in Int /\ RingSize \in Int /\ RingSize > 0
  BY QueueAssumption
<1>2. s = RingSize * a + (s % RingSize) /\ t = RingSize * b + (t % RingSize)
  BY QueueAssumption
<1>3. SUFFICES ASSUME s % RingSize = t % RingSize PROVE FALSE
  BY DEF Index
<1>4. t - s = RingSize * b - RingSize * a
  BY <1>1, <1>2, <1>3
<1> HIDE DEF a, b
<1>5. RingSize * b - RingSize * a = RingSize * (b - a)
  BY <1>1
<1>6. CASE b - a <= 0
  <2>1. RingSize * (b - a) <= 0
    BY <1>1, <1>6
  <2> QED BY <2>1, <1>1, <1>4, <1>5
<1>7. CASE b - a >= 1
  <2>1. RingSize * (b - a) >= RingSize
    BY <1>1, <1>7
  <2> QED BY <2>1, <1>1, <1>4, <1>5
<1> QED BY <1>1, <1>6, <1>7

\* The unsigned subtraction of publish() is exact when it does not wrap: a
\* minimum that is not ahead of next_seq leaves room iff it is less than a lap
\* behind.
LEMMA FullExact ==
  ASSUME NEW s \in Nat, NEW m \in Nat, m <= s, s < Word
  PROVE  Full(s, m) <=> s - m >= RingSize
  BY QueueAssumption DEF Full, Sub

-----------------------------------------------------------------------------
(* What each thread leaves alone. *)

\* publish() writes neither the consumer table nor anything of a reader.
LEMMA ProducerKeepsReaders == Producer => UNCHANGED <<tableVars, readerVars>>
  BY DEF Producer, StartPublishing, PublishFastPath, PublishSlowPath,
         ScanInactive, ScanActive, ScanLoad, ScanEnd, ClaimAndWrite, WriteDone,
         Release

\* No call of a reader writes the ring or the producer's fields.
LEMMA ReaderKeepsProducer ==
  ASSUME NEW r \in Readers, Reader(r) \/ Unregister(r) \/ Crash(r)
  PROVE  UNCHANGED <<ringVars, prodVars>>
  BY DEF Reader, RegisterCall, CasWins, CasLoses, RegisterFails, RegisterSet,
         Unregister, Crash, ConsumeLoad, ConsumeEmpty, ConsumeReady, CopyFirst,
         CopySecond, Advance

\* A step is the producer's, one reader's, or changes nothing.
LEMMA NextSplit ==
  ASSUME [Next]_vars
  PROVE  \/ Producer
         \/ \E r \in Readers : Reader(r) \/ Unregister(r) \/ Crash(r)
         \/ UNCHANGED vars
  BY DEF Next, AllDone

USE DEF ringVars, tableVars, prodVars, readerVars, vars, Slots, ConsumerIds,
        Registering, Reading, Owning, Ended, Writing, Copying, MaxU64

-----------------------------------------------------------------------------
(* Type correctness. *)

\* Every action keeps the types.
LEMMA TypeStep == IInv /\ [Next]_vars => TypeOK'
<1> SUFFICES ASSUME IInv, [Next]_vars PROVE TypeOK'
  OBVIOUS
<1> USE QueueAssumption DEF IInv, TypeOK, ProducerInv
<1>1. CASE StartPublishing
  BY <1>1 DEF StartPublishing
<1>2. CASE PublishFastPath
  BY <1>2 DEF PublishFastPath
<1>3. CASE PublishSlowPath
  BY <1>3 DEF PublishSlowPath
<1>4. CASE ScanInactive
  <2>1. si + 1 \in 0 .. MaxConsumers
    BY <1>4 DEF ScanInactive
  <2> QED BY <1>4, <2>1 DEF ScanInactive
<1>5. CASE ScanActive
  BY <1>5 DEF ScanActive
<1>6. CASE ScanLoad
  <2>1. position[si] \in 0 .. MaxU64 /\ si + 1 \in 0 .. MaxConsumers
    BY <1>6 DEF ScanLoad
  <2>2. Min2(min_seq, position[si]) \in 0 .. MaxU64
    BY <2>1 DEF Min2
  <2> QED BY <1>6, <2>1, <2>2 DEF ScanLoad
<1>7. CASE ScanEnd
  <2>1. MaxU64 \in 0 .. MaxU64 /\ 0 \in 0 .. MaxConsumers
    OBVIOUS
  <2> QED BY <1>7, <2>1 DEF ScanEnd
<1>8. CASE ClaimAndWrite
  <2>1. next_ + 1 \in 0 .. N
    BY <1>8 DEF ClaimAndWrite
  <2> QED BY <1>8, <2>1, IndexRange DEF ClaimAndWrite, Data
<1>9. CASE WriteDone
  <2>1. i \in Data
    BY <1>9 DEF WriteDone, Data, NoMsg
  <2> QED BY <1>9, <2>1, IndexRange DEF WriteDone
<1>10. CASE Release
  <2>1. next_ + 1 \in 0 .. N + 1 /\ i + 1 \in 1 .. N + 1
    BY <1>10 DEF Release
  <2>2. next_ \in Nat /\ Index(next_) \in Slots
    <3>1. next_ \in Nat
      OBVIOUS
    <3> QED BY <3>1, IndexRange
  <2> QED BY <1>10, <2>1, <2>2 DEF Release
<1>11. ASSUME NEW r \in Readers, RegisterCall(r) PROVE TypeOK'
  <2>1. 1 \in 0 .. N + 1 /\ next_ \in 0 .. N + 1
    OBVIOUS
  <2> QED BY <1>11, <2>1 DEF RegisterCall
<1>12. ASSUME NEW r \in Readers, CasWins(r) PROVE TypeOK'
  BY <1>12 DEF CasWins
<1>13. ASSUME NEW r \in Readers, CasLoses(r) PROVE TypeOK'
  <2>1. id[r] + 1 \in 0 .. MaxConsumers
    BY <1>13 DEF CasLoses
  <2> QED BY <1>13, <2>1 DEF CasLoses
<1>14. ASSUME NEW r \in Readers, RegisterFails(r) PROVE TypeOK'
  BY <1>14 DEF RegisterFails
<1>15. ASSUME NEW r \in Readers, RegisterSet(r) PROVE TypeOK'
  BY <1>15 DEF RegisterSet
<1>16. ASSUME NEW r \in Readers, Unregister(r) PROVE TypeOK'
  BY <1>16 DEF Unregister
<1>17. ASSUME NEW r \in Readers, Crash(r) PROVE TypeOK'
  BY <1>17 DEF Crash
<1>18. ASSUME NEW r \in Readers, ConsumeLoad(r) PROVE TypeOK'
  BY <1>18 DEF ConsumeLoad, SlotExclusive
<1>19. ASSUME NEW r \in Readers, ConsumeEmpty(r) PROVE TypeOK'
  BY <1>19 DEF ConsumeEmpty
<1>20. ASSUME NEW r \in Readers, ConsumeReady(r) PROVE TypeOK'
  BY <1>20 DEF ConsumeReady
<1>21. ASSUME NEW r \in Readers, CopyFirst(r) PROVE TypeOK'
  <2>1. slotData[Index(seq[r])] \in Data
    <3>0. seq[r] \in Nat
      OBVIOUS
    <3>1. Index(seq[r]) \in Slots
      BY <3>0, IndexRange
    <3> QED BY <3>1
  <2> QED BY <1>21, <2>1 DEF CopyFirst
<1>22. ASSUME NEW r \in Readers, CopySecond(r) PROVE TypeOK'
  BY <1>22 DEF CopySecond, Data
<1>23. ASSUME NEW r \in Readers, Advance(r) PROVE TypeOK'
  <2>1. seq[r] + 1 \in 0 .. N + 1
    BY <1>23 DEF Advance, JoinInv
  <2>2. received[r] \in Seq(Data) /\ out[r] \in Data
    OBVIOUS
  <2>3. Append(received[r], out[r]) \in Seq(Data)
    BY <2>2
  <2>4. NoMsg \in Data
    BY DEF Data, NoMsg
  <2> QED BY <1>23, <2>1, <2>3, <2>4 DEF Advance
<1>24. CASE UNCHANGED vars
  BY <1>24
<1> QED
  BY <1>1, <1>2, <1>3, <1>4, <1>5, <1>6, <1>7, <1>8, <1>9, <1>10, <1>11, <1>12, <1>13, <1>14, <1>15, <1>16, <1>17, <1>18, <1>19, <1>20, <1>21, <1>22, <1>23, <1>24 DEF Next, Producer, Reader, AllDone

-----------------------------------------------------------------------------
(* The producer's counters. *)

\* publish() gives message i the sequence number i.
LEMMA ProducerInvStep == IInv /\ [Next]_vars => ProducerInv'
<1> SUFFICES ASSUME IInv, [Next]_vars PROVE ProducerInv'
  OBVIOUS
<1> USE QueueAssumption DEF IInv, TypeOK, ProducerInv
<1>1. CASE StartPublishing \/ PublishFastPath \/ PublishSlowPath
  BY <1>1 DEF StartPublishing, PublishFastPath, PublishSlowPath
<1>2. CASE ScanInactive \/ ScanActive \/ ScanLoad
  BY <1>2 DEF ScanInactive, ScanActive, ScanLoad
<1>3. CASE ScanEnd
  BY <1>3 DEF ScanEnd
<1>4. CASE ClaimAndWrite
  BY <1>4 DEF ClaimAndWrite
<1>5. CASE WriteDone
  BY <1>5 DEF WriteDone
<1>6. CASE Release
  BY <1>6 DEF Release
<1>7. CASE UNCHANGED prodVars
  BY <1>7
<1> QED
  BY <1>1, <1>2, <1>3, <1>4, <1>5, <1>6, <1>7, NextSplit, ReaderKeepsProducer
  DEF Producer

-----------------------------------------------------------------------------
(* Registration. *)

\* The compare-and-swap of register_consumer() keeps slots apart.
LEMMA SlotExclusiveStep == IInv /\ [Next]_vars => SlotExclusive'
<1> SUFFICES ASSUME IInv, [Next]_vars PROVE SlotExclusive'
  OBVIOUS
<1> USE DEF IInv, TypeOK, SlotExclusive
<1>1. CASE Producer
  BY <1>1, ProducerKeepsReaders
<1>2. ASSUME NEW r \in Readers, CasWins(r)
      PROVE  SlotExclusive'
  <2>1. id[r] \in ConsumerIds /\ ~active[id[r]] /\ id' = id
    BY <1>2, QueueAssumption DEF CasWins
  <2>2. \A q \in Readers \ {r} : rpc[q] \in Owning => id[q] # id[r]
    BY <2>1
  <2>3. active'[id[r]] /\ \A c \in ConsumerIds : active[c] => active'[c]
    BY <1>2, <2>1 DEF CasWins
  <2>4. rpc'[r] = "set" /\ \A q \in Readers \ {r} : rpc'[q] = rpc[q]
    BY <1>2 DEF CasWins
  <2> QED BY <2>1, <2>2, <2>3, <2>4
<1>3. ASSUME NEW r \in Readers, Unregister(r)
      PROVE  SlotExclusive'
  BY <1>3 DEF Unregister
<1>4. ASSUME NEW r \in Readers, RegisterCall(r) \/ CasLoses(r) \/ RegisterFails(r)
      PROVE  SlotExclusive'
  <2>1. active' = active /\ rpc'[r] \notin Owning
    BY <1>4 DEF RegisterCall, CasLoses, RegisterFails
  <2>2. \A q \in Readers \ {r} : rpc'[q] = rpc[q] /\ id'[q] = id[q]
    BY <1>4 DEF RegisterCall, CasLoses, RegisterFails
  <2> QED BY <2>1, <2>2
<1>5. ASSUME NEW r \in Readers, RegisterSet(r) \/ Crash(r) \/ Advance(r)
      PROVE  SlotExclusive'
  <2>1. active' = active /\ id' = id /\ rpc[r] \in Owning
    BY <1>5 DEF RegisterSet, Crash, Advance
  <2>2. \A q \in Readers \ {r} : rpc'[q] = rpc[q]
    BY <1>5 DEF RegisterSet, Crash, Advance
  <2> QED BY <2>1, <2>2
<1>6. ASSUME NEW r \in Readers,
             \/ ConsumeLoad(r) \/ ConsumeEmpty(r) \/ ConsumeReady(r)
             \/ CopyFirst(r) \/ CopySecond(r)
      PROVE  SlotExclusive'
  <2>1. active' = active /\ id' = id /\ rpc[r] \in Owning
    BY <1>6 DEF ConsumeLoad, ConsumeEmpty, ConsumeReady, CopyFirst, CopySecond
  <2>2. \A q \in Readers \ {r} : rpc'[q] = rpc[q]
    BY <1>6 DEF ConsumeLoad, ConsumeEmpty, ConsumeReady, CopyFirst, CopySecond
  <2> QED BY <2>1, <2>2
<1>7. CASE UNCHANGED vars
  BY <1>7
<1> QED
  BY <1>1, <1>2, <1>3, <1>4, <1>5, <1>6, <1>7, NextSplit DEF Reader

-----------------------------------------------------------------------------
(* The ring. *)

\* publish() keeps the last lap of the ring readable.
LEMMA RingInvStep == IInv /\ [Next]_vars => RingInv'
<1> SUFFICES ASSUME IInv, [Next]_vars PROVE RingInv'
  OBVIOUS
<1> USE QueueAssumption DEF IInv, TypeOK, ProducerInv, RingInv
<1>1. CASE StartPublishing \/ PublishFastPath \/ PublishSlowPath
  BY <1>1 DEF StartPublishing, PublishFastPath, PublishSlowPath
<1>2. CASE ScanInactive \/ ScanActive \/ ScanLoad \/ ScanEnd
  BY <1>2 DEF ScanInactive, ScanActive, ScanLoad, ScanEnd
<1>3. CASE ClaimAndWrite
  <2> DEFINE n == next_ + 1
  <2>1. n \in Nat /\ next_' = n /\ ppc = "claim" /\ ppc' = "write" /\ slotSeq' = slotSeq
    BY <1>3 DEF ClaimAndWrite
  <2>2. \A j \in Slots : slotSeq'[j] <= next_'
    BY <2>1
  <2>3. ASSUME NEW s \in 1 .. n, n < s + RingSize, s < n
        PROVE  slotSeq'[Index(s)] = s + 1 /\ slotData'[Index(s)] = s
    <3>1. s \in 1 .. next_ /\ next_ < s + RingSize
      BY <2>3, <2>1
    <3>2. slotSeq[Index(s)] = s + 1 /\ slotData[Index(s)] = s
      BY <3>1, <2>1
    <3>3. Index(s) # Index(n)
      BY <2>3, <2>1, IndexInjective
    <3> QED
      BY <1>3, <3>2, <3>3, <2>1 DEF ClaimAndWrite
  <2> QED
    BY <2>1, <2>2, <2>3
<1>4. CASE WriteDone
  <2>1. next_ \in Nat /\ next_' = next_ /\ ppc = "write" /\ ppc' = "release"
        /\ slotSeq' = slotSeq /\ i' = i
    BY <1>4 DEF WriteDone
  <2>2. Index(next_) \in Slots
    BY <2>1, IndexRange
  <2>3. slotData'[Index(next_)] = i
    BY <1>4, <2>2 DEF WriteDone
  <2>4. ASSUME NEW s \in 1 .. next_, next_ < s + RingSize, s < next_
        PROVE  slotSeq'[Index(s)] = s + 1 /\ slotData'[Index(s)] = s
    <3>1. slotSeq[Index(s)] = s + 1 /\ slotData[Index(s)] = s
      BY <2>4, <2>1
    <3>2. Index(s) # Index(next_)
      BY <2>4, <2>1, IndexInjective
    <3> QED
      BY <1>4, <3>1, <3>2, <2>1 DEF WriteDone
  <2> QED
    BY <2>1, <2>3, <2>4
<1>5. CASE Release
  <2>1. next_ \in Nat /\ next_' = next_ /\ ppc = "release" /\ ppc' = "idle"
        /\ slotData' = slotData /\ i = next_
    BY <1>5 DEF Release
  <2>2. Index(next_) \in Slots
    BY <2>1, IndexRange
  <2>3. slotSeq'[Index(next_)] = next_ + 1 /\ slotData'[Index(next_)] = next_
    BY <1>5, <2>1, <2>2 DEF Release
  <2>4. \A j \in Slots : slotSeq'[j] <= next_' + 1
    BY <1>5, <2>1 DEF Release
  <2>5. ASSUME NEW s \in 1 .. next_, next_ < s + RingSize, s < next_
        PROVE  slotSeq'[Index(s)] = s + 1 /\ slotData'[Index(s)] = s
    <3>1. slotSeq[Index(s)] = s + 1 /\ slotData[Index(s)] = s
      BY <2>5, <2>1
    <3>2. Index(s) # Index(next_)
      BY <2>5, <2>1, IndexInjective
    <3> QED
      BY <1>5, <3>1, <3>2, <2>1 DEF Release
  <2>6. ASSUME NEW j \in Slots, slotSeq'[j] # 0
        PROVE  slotSeq'[j] >= 2 /\ Index(slotSeq'[j] - 1) = j
    <3>1. CASE j = Index(next_)
      <4>1. (next_ + 1) - 1 = next_ /\ next_ >= 1
        BY <2>1
      <4> QED BY <2>3, <3>1, <4>1
    <3>2. CASE j # Index(next_)
      BY <1>5, <2>6, <3>2 DEF Release
    <3> QED BY <3>1, <3>2
  <2> QED
    BY <2>1, <2>3, <2>4, <2>5, <2>6
<1>6. CASE UNCHANGED <<ringVars, prodVars>>
  BY <1>6
<1> QED
  BY <1>1, <1>2, <1>3, <1>4, <1>5, <1>6, NextSplit, ReaderKeepsProducer
  DEF Producer

-----------------------------------------------------------------------------
(* Which readers are in time. *)

\* Registration that ends before StartPublishing is in time.
LEMMA JoinInvStep == IInv /\ [Next]_vars => JoinInv'
<1> SUFFICES ASSUME IInv, [Next]_vars PROVE JoinInv'
  OBVIOUS
<1> USE QueueAssumption DEF IInv, TypeOK, ProducerInv, JoinInv
<1>1. CASE StartPublishing
  BY <1>1 DEF StartPublishing
<1>2. CASE Producer /\ ~StartPublishing
  <2>1. (ppc' = "wait" <=> ppc = "wait") /\ next_' \in Nat /\ next_ <= next_'
    <3>1. CASE ClaimAndWrite
      BY <3>1 DEF ClaimAndWrite
    <3>2. CASE ~ClaimAndWrite
      <4>1. next_' = next_ /\ (ppc' = "wait" <=> ppc = "wait")
        BY <1>2, <3>2 DEF Producer, PublishFastPath, PublishSlowPath,
           ScanInactive, ScanActive, ScanLoad, ScanEnd, WriteDone, Release
      <4> QED BY <4>1
    <3> QED BY <3>1, <3>2
  <2> QED
    BY <1>2, <2>1, ProducerKeepsReaders
<1>3. ASSUME NEW r \in Readers, Reader(r) \/ Unregister(r) \/ Crash(r)
      PROVE  JoinInv'
  <2>1. next_' = next_ /\ ppc' = ppc
    BY <1>3, ReaderKeepsProducer
  <2>2. CASE RegisterCall(r)
    <3>1. /\ rpc[r] = "new" /\ rpc'[r] = "cas"
          /\ received' = received /\ safe' = safe
          /\ \A q \in Readers \ {r} : rpc'[q] = rpc[q] /\ seq'[q] = seq[q]
      BY <2>2 DEF RegisterCall
    <3>2. seq'[r] <= 1 \/ seq'[r] <= next_
      BY <2>2 DEF RegisterCall
    <3>3. r \notin safe /\ received[r] = <<>>
      BY <3>1 DEF Registering
    <3>4. ppc # "wait" => r \notin Early
      BY <3>1 DEF Registering
    <3> QED
      BY <2>1, <3>1, <3>2, <3>3, <3>4 DEF Registering, Reading, Copying
  <2>3. CASE CasWins(r) \/ CasLoses(r) \/ RegisterFails(r)
    <3>1. /\ seq' = seq /\ safe' = safe /\ received' = received
          /\ rpc[r] = "cas" /\ rpc'[r] \in {"set", "cas", "full"}
      BY <2>3 DEF CasWins, CasLoses, RegisterFails
    <3>2. \A q \in Readers \ {r} : rpc'[q] = rpc[q]
      BY <2>3 DEF CasWins, CasLoses, RegisterFails
    <3> QED BY <2>1, <3>1, <3>2
  <2>4. CASE RegisterSet(r)
    <3>1. ppc = "wait" => Guarded(seq[r], id[r])
      <4> SUFFICES ASSUME ppc = "wait" PROVE Guarded(seq[r], id[r])
        OBVIOUS
      <4>1. seq[r] <= 1 \/ seq[r] <= next_
        BY <2>4 DEF RegisterSet
      <4>2. next_ = 0 /\ min_consumer_seq_ = 0 /\ seq[r] \in Nat
        OBVIOUS
      <4>3. seq[r] <= 1
        BY <4>1, <4>2
      <4> QED BY <4>2, <4>3 DEF Guarded
    <3>2. rpc'[r] = "ready" /\ seq' = seq /\ received' = received
          /\ \A q \in Readers \ {r} : rpc'[q] = rpc[q] /\ (q \in safe' <=> q \in safe)
      BY <2>4 DEF RegisterSet
    <3>3. ppc # "wait" => r \notin Early
      BY <2>4 DEF RegisterSet
    <3>4. ppc = "wait" => r \in safe'
      BY <2>4, <3>1 DEF RegisterSet
    <3> QED
      BY <2>1, <3>2, <3>3, <3>4 DEF Registering, Reading, Copying
  <2>5. CASE Unregister(r) \/ Crash(r) \/ Advance(r)
    <3>1. /\ seq' = seq /\ safe' = safe /\ rpc'[r] \in {"gone", "crashed", "ready"}
          /\ \A q \in Readers \ {r} : rpc'[q] = rpc[q] /\ received'[q] = received[q]
      BY <2>5 DEF Unregister, Crash, Advance
    <3>2. rpc'[r] \in {"gone", "ready"} => rpc[r] \in Reading
      BY <2>5 DEF Unregister, Crash, Advance
    <3> QED BY <2>1, <3>1, <3>2
  <2>6. CASE ConsumeLoad(r) \/ ConsumeEmpty(r) \/ CopyFirst(r) \/ CopySecond(r)
    <3>1. /\ safe' = safe /\ received' = received /\ rpc[r] \in Reading
          /\ rpc'[r] \in Reading
          /\ rpc'[r] \in Copying => rpc[r] \in Copying /\ seq'[r] = seq[r]
      BY <2>6 DEF ConsumeLoad, ConsumeEmpty, CopyFirst, CopySecond
    <3>2. \A q \in Readers \ {r} : rpc'[q] = rpc[q] /\ seq'[q] = seq[q]
      BY <2>6 DEF ConsumeLoad, ConsumeEmpty, CopyFirst, CopySecond
    <3> QED BY <2>1, <3>1, <3>2
  <2>7. CASE ConsumeReady(r)
    <3>0. seq[r] \in Nat
      OBVIOUS
    <3>1. Index(seq[r]) \in Slots
      BY <3>0, IndexRange
    <3>2. slotSeq[Index(seq[r])] \in Nat /\ slotSeq[Index(seq[r])] <= next_ + 1
      BY <3>1 DEF RingInv
    <3>3. seq[r] <= next_
      BY <2>7, <3>2 DEF ConsumeReady, Ready
    <3> QED
      BY <2>1, <2>7, <3>3 DEF ConsumeReady
  <2> QED
    BY <1>3, <2>2, <2>3, <2>4, <2>5, <2>6, <2>7 DEF Reader
<1>4. CASE UNCHANGED vars
  BY <1>4
<1> QED
  BY <1>1, <1>2, <1>3, <1>4, NextSplit

-----------------------------------------------------------------------------
(* Readers in time. *)

\* No producer step takes a reader out of the guarded window.
LEMMA GuardedByProducer ==
  ASSUME IInv, Producer, NEW r \in safe, rpc[r] \in Reading
  PROVE  Guarded(position[id[r]], id[r])'
<1>1. r \in Readers /\ id[r] \in ConsumerIds /\ active[id[r]]
  BY DEF IInv, TypeOK, SlotExclusive
<1>2. PICK c \in ConsumerIds : c = id[r]
  BY <1>1
<1>3. PICK p \in 0 .. N + 1 : p = position[c]
  BY <1>2 DEF IInv, TypeOK
<1>4. /\ next_ \in 0 .. N /\ si \in 0 .. MaxConsumers
      /\ min_consumer_seq_ \in 0 .. MaxU64 /\ min_seq \in 0 .. MaxU64
  BY DEF IInv, TypeOK
<1>5. Guarded(p, c)
  BY <1>2, <1>3 DEF IInv, ReaderInv, InTime
<1>6. SUFFICES Guarded(p, c)'
  BY <1>2, <1>3, ProducerKeepsReaders DEF Guarded
<1>7. ASSUME NEW m \in 0 .. MaxU64, m <= p, ~Full(next_ + 1, m)
      PROVE  next_ + 1 < p + RingSize
  <2>1. m <= next_ + 1 /\ next_ + 1 < Word /\ m \in Nat /\ next_ + 1 \in Nat
    BY <1>4, <1>5, <1>7, QueueAssumption DEF Guarded
  <2>2. ~((next_ + 1) - m >= RingSize)
    BY <1>7, <2>1, FullExact
  <2> QED
    BY <1>3, <1>4, <1>7, <2>1, <2>2, QueueAssumption
<1>8. CASE StartPublishing
  BY <1>5, <1>8 DEF StartPublishing, Guarded
<1>9. CASE PublishFastPath
  BY <1>4, <1>5, <1>7, <1>9 DEF PublishFastPath, Guarded
<1>10. CASE PublishSlowPath
  <2>1. si = 0
    BY <1>10 DEF IInv, ProducerInv, PublishSlowPath
  <2> QED
    BY <1>2, <1>5, <1>10, <2>1, QueueAssumption DEF PublishSlowPath, Guarded
<1>11. CASE ScanInactive
  <2>1. c # si
    BY <1>1, <1>2, <1>11 DEF ScanInactive
  <2> QED
    BY <1>2, <1>4, <1>5, <1>11, <2>1, QueueAssumption DEF ScanInactive, Guarded
<1>12. CASE ScanActive
  BY <1>5, <1>12 DEF ScanActive, Guarded
<1>13. CASE ScanLoad
  <2>1. position[si] \in 0 .. N + 1
    BY <1>4, <1>13, QueueAssumption DEF ScanLoad, IInv, TypeOK
  <2>2. Min2(min_seq, position[si]) <= min_seq /\ Min2(min_seq, position[si]) <= position[si]
    BY <1>4, <2>1, QueueAssumption DEF Min2
  <2>3. Min2(min_seq, position[si]) \in Int
    BY <1>4, <2>1 DEF Min2
  <2>4. c < si + 1 => Min2(min_seq, position[si]) <= p
    BY <1>2, <1>3, <1>4, <1>5, <1>13, <2>1, <2>2, <2>3, QueueAssumption DEF ScanLoad, Guarded
  <2> QED
    BY <1>5, <1>13, <2>4 DEF ScanLoad, Guarded
<1>14. CASE ScanEnd
  <2>1. c < si /\ min_seq <= p
    BY <1>2, <1>5, <1>14, QueueAssumption DEF ScanEnd, Guarded
  <2> QED
    BY <1>4, <1>5, <1>7, <1>14, <2>1 DEF ScanEnd, Guarded
<1>15. CASE ClaimAndWrite
  BY <1>3, <1>4, <1>5, <1>15, QueueAssumption DEF ClaimAndWrite, Guarded
<1>16. CASE WriteDone
  BY <1>5, <1>16 DEF WriteDone, Guarded
<1>17. CASE Release
  BY <1>5, <1>17 DEF Release, Guarded
<1> QED
  BY <1>8, <1>9, <1>10, <1>11, <1>12, <1>13, <1>14, <1>15, <1>16, <1>17
  DEF Producer

\* Nor does a step of another reader: it writes only its own consumer slot.
LEMMA InTimeByOther ==
  ASSUME IInv, NEW q \in Readers, NEW r \in Readers, q # r, r \in safe',
         Reader(q) \/ Unregister(q) \/ Crash(q)
  PROVE  r \in safe /\ InTime(r)'
<1> USE DEF IInv, TypeOK
<1>1. /\ rpc'[r] = rpc[r] /\ id'[r] = id[r] /\ seq'[r] = seq[r] /\ out'[r] = out[r]
      /\ received'[r] = received[r] /\ first'[r] = first[r] /\ r \in safe
  BY DEF Reader, RegisterCall, CasWins, CasLoses, RegisterFails, RegisterSet,
         Unregister, Crash, ConsumeLoad, ConsumeEmpty, ConsumeReady, CopyFirst,
         CopySecond, Advance
<1>2. UNCHANGED <<ringVars, prodVars>>
  BY ReaderKeepsProducer
<1>3. rpc[r] \in Reading => position'[id[r]] = position[id[r]]
  <2>1. CASE RegisterSet(q) \/ Advance(q)
    <3>1. rpc[r] \in Reading => id[q] # id[r]
      BY <2>1 DEF SlotExclusive, RegisterSet, Advance
    <3>2. \E v : position' = [position EXCEPT ![id[q]] = v]
      BY <2>1 DEF RegisterSet, Advance
    <3>3. rpc[r] \in Reading => id[r] \in ConsumerIds
      BY DEF SlotExclusive, Owning
    <3> QED BY <3>1, <3>2, <3>3
  <2>2. CASE ~(RegisterSet(q) \/ Advance(q))
    BY <2>2 DEF Reader, RegisterCall, CasWins, CasLoses, RegisterFails,
         Unregister, Crash, ConsumeLoad, ConsumeEmpty, ConsumeReady, CopyFirst,
         CopySecond
  <2> QED BY <2>1, <2>2
<1>4. InTime(r)
  BY <1>1 DEF ReaderInv
<1> QED
  BY <1>1, <1>2, <1>3, <1>4 DEF InTime, Guarded

\* A reader that is copying copies from a slot of the last lap that is not
\* being written.
LEMMA CopiesPublished ==
  ASSUME IInv, NEW r \in safe, rpc[r] \in Copying
  PROVE  /\ seq[r] \in 1 .. next_ /\ next_ < seq[r] + RingSize
         /\ seq[r] < next_ \/ ppc \notin Writing
         /\ slotData[Index(seq[r])] = seq[r]
<1> USE QueueAssumption DEF IInv, TypeOK
<1>1. r \in Readers /\ seq[r] \in Nat /\ next_ \in Nat
  OBVIOUS
<1>2. seq[r] \in 1 .. next_ /\ next_ < seq[r] + RingSize
  <2>1. InTime(r) /\ rpc[r] \in Reading \ {"ready"}
    BY DEF ReaderInv, Copying, Reading
  <2>2. seq[r] = position[id[r]] /\ Guarded(position[id[r]], id[r]) /\ seq[r] >= 1
    BY <2>1 DEF InTime
  <2>3. seq[r] <= next_
    BY <1>1 DEF JoinInv
  <2> QED
    BY <1>1, <2>2, <2>3 DEF Guarded
<1>3. Index(seq[r]) \in Slots /\ slotSeq[Index(seq[r])] = seq[r] + 1
  BY <1>1, IndexRange DEF ReaderInv, InTime
<1>4. seq[r] < next_ \/ ppc \notin Writing
  BY <1>1, <1>3 DEF RingInv
<1> QED
  BY <1>2, <1>4 DEF RingInv

\* A reader that finds its slot ready finds its own message there.
LEMMA ReadyIsCurrent ==
  ASSUME IInv, NEW r \in safe, rpc[r] = "check",
         Ready(slotSeq[Index(seq[r])], seq[r])
  PROVE  slotSeq[Index(seq[r])] = seq[r] + 1 /\ seq[r] >= 1
<1> USE QueueAssumption DEF IInv, TypeOK
<1>1. r \in Readers /\ seq[r] \in Nat /\ next_ \in Nat
  OBVIOUS
<1>2. seq[r] = position[id[r]] /\ next_ < seq[r] + RingSize
  BY DEF ReaderInv, InTime, Guarded
<1>3. Index(seq[r]) \in Slots
  BY <1>1, IndexRange
<1>4. /\ slotSeq[Index(seq[r])] \in Nat /\ slotSeq[Index(seq[r])] > seq[r]
      /\ slotSeq[Index(seq[r])] <= next_ + 1
      /\ ppc \in Writing => slotSeq[Index(seq[r])] <= next_
  BY <1>3 DEF RingInv, Ready
<1>5. seq[r] <= next_ /\ (seq[r] < next_ \/ ppc \notin Writing)
  BY ONLY <1>1, <1>4
<1>6. CASE seq[r] = 0
  <2>1. PICK v \in Nat : v = slotSeq[Index(seq[r])]
    BY <1>4
  <2>2. v >= 2 /\ Index(v - 1) = Index(seq[r])
    BY <1>3, <1>4, <1>6, <2>1 DEF RingInv
  <2>3. v <= next_ + 1 /\ next_ < RingSize /\ next_ \in Nat /\ RingSize \in Nat
    BY <1>1, <1>2, <1>4, <1>6, <2>1
  <2>4. v - 1 \in Nat /\ 0 < v - 1 /\ v - 1 < 0 + RingSize
    BY ONLY <2>1, <2>2, <2>3
  <2> QED
    BY <1>6, <2>2, <2>4, IndexInjective
<1>7. CASE seq[r] >= 1
  <2>1. seq[r] \in 1 .. next_
    BY ONLY <1>1, <1>5, <1>7
  <2> QED
    BY <1>2, <1>5, <1>7, <2>1 DEF RingInv
<1> QED
  BY <1>1, <1>6, <1>7

\* A producer step keeps what a reader in time relies on: it stays guarded, and
\* the slot it copies from is not restamped.
LEMMA InTimeByProducer ==
  ASSUME IInv, Producer, NEW r \in safe
  PROVE  InTime(r)'
<1>1. InTime(r) /\ r \in Readers
  BY DEF IInv, ReaderInv, TypeOK
<1>2. UNCHANGED <<tableVars, readerVars>>
  BY ProducerKeepsReaders
<1>3. rpc[r] \in Reading => Guarded(position[id[r]], id[r])'
  BY GuardedByProducer
<1>4. rpc[r] \in Copying => slotSeq'[Index(seq[r])] = slotSeq[Index(seq[r])]
  <2>1. CASE Release
    <3> SUFFICES ASSUME rpc[r] \in Copying
                 PROVE  slotSeq'[Index(seq[r])] = slotSeq[Index(seq[r])]
      OBVIOUS
    <3>1. ppc \in Writing /\ next_ \in Nat
      BY <2>1 DEF Release, Writing, IInv, TypeOK
    <3>2. seq[r] \in Nat /\ seq[r] < next_ /\ next_ < seq[r] + RingSize
      BY <3>1, CopiesPublished
    <3>3. Index(seq[r]) # Index(next_) /\ Index(seq[r]) \in Slots
      BY <3>1, <3>2, IndexInjective, IndexRange
    <3> QED BY <2>1, <3>3 DEF Release, IInv, TypeOK
  <2>2. CASE ~Release
    BY <2>2 DEF Producer, StartPublishing, PublishFastPath, PublishSlowPath,
       ScanInactive, ScanActive, ScanLoad, ScanEnd, ClaimAndWrite, WriteDone,
       ringVars
  <2> QED BY <2>1, <2>2
<1> QED
  BY <1>1, <1>2, <1>3, <1>4 DEF InTime, tableVars, readerVars, Index

\* A reader's own steps keep its position, its count of received messages and
\* its copy together.
LEMMA InTimeByOwnStep ==
  ASSUME IInv, NEW r \in Readers, r \in safe',
         Reader(r) \/ Unregister(r) \/ Crash(r)
  PROVE  InTime(r)'
<1> USE DEF IInv, TypeOK
<1>1. UNCHANGED <<ringVars, prodVars>>
  BY ReaderKeepsProducer
<1>2. CASE RegisterCall(r) \/ CasWins(r) \/ CasLoses(r) \/ RegisterFails(r)
  <2>1. rpc[r] \in Registering /\ r \in safe
    BY <1>2 DEF RegisterCall, CasWins, CasLoses, RegisterFails, Registering
  <2> QED BY <2>1 DEF JoinInv
<1>3. CASE RegisterSet(r)
  <2>1. r \notin safe /\ received[r] = <<>>
    BY <1>3 DEF RegisterSet, JoinInv, Registering
  <2>2. Guarded(seq[r], id[r])
    BY <1>3, <2>1 DEF RegisterSet
  <2>3. id[r] \in ConsumerIds
    BY <1>3 DEF RegisterSet, SlotExclusive, Owning
  <2>4. /\ rpc'[r] = "ready" /\ id'[r] = id[r] /\ position'[id[r]] = seq[r]
        /\ first'[r] = seq[r] /\ Len(received'[r]) = 0
    BY <1>3, <2>1, <2>3 DEF RegisterSet
  <2>5. first'[r] + Len(received'[r]) = seq[r]
    BY <2>4
  <2>6. Guarded(position[id[r]], id[r])'
    BY <1>1, <2>2, <2>4 DEF Guarded, prodVars
  <2> QED BY <2>4, <2>5, <2>6 DEF InTime, Copying
<1>4. ASSUME ~(RegisterCall(r) \/ CasWins(r) \/ CasLoses(r) \/ RegisterFails(r)),
             ~RegisterSet(r)
      PROVE  InTime(r)'
  <2>1. r \in safe /\ id' = id /\ first' = first
    BY <1>4 DEF Reader, Unregister, Crash, ConsumeLoad, ConsumeEmpty,
       ConsumeReady, CopyFirst, CopySecond, Advance
  <2>2. InTime(r)
    BY <2>1 DEF ReaderInv
  <2>3. CASE Unregister(r) \/ Crash(r)
    BY <2>3 DEF Unregister, Crash, InTime, Reading, Copying
  <2>4. CASE Advance(r)
    <3>1. /\ rpc[r] = "advance" /\ rpc'[r] = "ready"
          /\ received'[r] = Append(received[r], out[r])
          /\ position' = [position EXCEPT ![id[r]] = seq[r] + 1]
      BY <2>4 DEF Advance
    <3>2. id[r] \in ConsumerIds
      BY <3>1 DEF SlotExclusive, Owning, Reading
    <3>3. position'[id[r]] = seq[r] + 1
      BY <3>1, <3>2
    <3>4. /\ seq[r] = position[id[r]] /\ Guarded(seq[r], id[r])
          /\ seq[r] = first[r] + Len(received[r])
      BY <2>2, <3>1 DEF InTime, Reading
    <3>5. seq[r] \in 0 .. next_ /\ next_ \in 0 .. N /\ seq[r] \in Nat
      BY <2>1, <3>1, CopiesPublished DEF Copying
    <3>6. Guarded(seq[r] + 1, id[r])
      <4>1. \A m \in 0 .. MaxU64 : m <= seq[r] => m <= seq[r] + 1
        BY <3>5
      <4>2. min_consumer_seq_ \in 0 .. MaxU64 /\ min_seq \in 0 .. MaxU64
        OBVIOUS
      <4>3. seq[r] + 1 <= next_ + 1
        BY <3>5
      <4>4. /\ next_ < seq[r] + RingSize => next_ < (seq[r] + 1) + RingSize
            /\ next_ + 1 < seq[r] + RingSize => next_ + 1 < (seq[r] + 1) + RingSize
        <5>1. RingSize \in Nat /\ next_ \in Nat /\ seq[r] \in Nat
          BY <3>5, QueueAssumption
        <5> QED BY ONLY <5>1
      <4> QED BY ONLY <3>4, <4>1, <4>2, <4>3, <4>4 DEF Guarded
    <3>7. Guarded(position[id[r]], id[r])'
      BY <1>1, <2>1, <3>3, <3>6 DEF Guarded, prodVars
    <3>8. Len(received'[r]) = Len(received[r]) + 1 /\ Len(received[r]) \in Nat
      BY <3>1
    <3>9. seq[r] + 1 = first[r] + Len(received'[r])
      BY <3>4, <3>8
    <3> QED BY <2>1, <3>1, <3>3, <3>7, <3>9 DEF InTime, Copying
  <2>5. CASE ConsumeLoad(r)
    <3>1. /\ rpc[r] = "ready" /\ rpc'[r] = "check" /\ seq'[r] = position[id[r]]
          /\ position' = position /\ received' = received
      BY <2>5 DEF ConsumeLoad, tableVars
    <3> QED
      BY <1>1, <2>1, <2>2, <3>1 DEF InTime, Guarded, prodVars, Reading, Copying
  <2>6. CASE ConsumeEmpty(r)
    <3>1. /\ rpc[r] = "check" /\ rpc'[r] = "ready"
          /\ position' = position /\ received' = received
      BY <2>6 DEF ConsumeEmpty, tableVars
    <3> QED
      BY <1>1, <2>1, <2>2, <3>1 DEF InTime, Guarded, prodVars, Reading, Copying
  <2>7. CASE ConsumeReady(r)
    <3>1. /\ rpc[r] = "check" /\ rpc'[r] = "copy" /\ seq' = seq
          /\ position' = position /\ received' = received
      BY <2>7 DEF ConsumeReady, tableVars
    <3>2. slotSeq[Index(seq[r])] = seq[r] + 1 /\ seq[r] >= 1
      BY <2>1, <2>7, ReadyIsCurrent DEF ConsumeReady
    <3> QED
      BY <1>1, <2>1, <2>2, <3>1, <3>2
      DEF InTime, Guarded, prodVars, ringVars, Reading, Copying
  <2>8. CASE CopyFirst(r) \/ CopySecond(r)
    <3>1. /\ rpc[r] \in {"copy", "copy2"} /\ rpc'[r] \in {"copy2", "advance"}
          /\ seq' = seq /\ position' = position /\ received' = received
      BY <2>8 DEF CopyFirst, CopySecond, tableVars
    <3>2. slotData[Index(seq[r])] = seq[r]
      BY <2>1, <3>1, CopiesPublished DEF Copying
    <3>3. out'[r] = seq[r]
      BY <2>2, <2>8, <3>2 DEF CopyFirst, CopySecond, InTime
    <3> QED
      BY <1>1, <2>1, <2>2, <3>1, <3>3
      DEF InTime, Guarded, prodVars, ringVars, Reading, Copying
  <2> QED
    BY <1>4, <2>3, <2>4, <2>5, <2>6, <2>7, <2>8 DEF Reader
<1> QED BY <1>2, <1>3, <1>4

\* Readers in time stay in time, whoever moves.
LEMMA ReaderInvStep == IInv /\ [Next]_vars => ReaderInv'
<1> SUFFICES ASSUME IInv, [Next]_vars, NEW r \in safe' PROVE InTime(r)'
  BY DEF ReaderInv
<1>1. CASE Producer
  <2>1. r \in safe
    BY <1>1, ProducerKeepsReaders DEF readerVars
  <2> QED BY <1>1, <2>1, InTimeByProducer
<1>2. ASSUME NEW q \in Readers, Reader(q) \/ Unregister(q) \/ Crash(q)
      PROVE  InTime(r)'
  <2>1. r \in Readers
    <3>1. safe \in SUBSET Readers
      BY DEF IInv, TypeOK
    <3> QED
      BY <1>2, <3>1 DEF Reader, RegisterCall, CasWins, CasLoses, RegisterFails,
         RegisterSet, Unregister, Crash, ConsumeLoad, ConsumeEmpty,
         ConsumeReady, CopyFirst, CopySecond, Advance
  <2> QED BY <1>2, <2>1, InTimeByOther, InTimeByOwnStep
<1>3. CASE UNCHANGED vars
  <2>1. r \in safe
    BY <1>3 DEF vars, readerVars
  <2>2. InTime(r)
    BY <2>1 DEF IInv, ReaderInv
  <2> QED
    BY <1>3, <2>2 DEF vars, readerVars, ringVars, tableVars, prodVars, InTime,
       Guarded
<1> QED BY <1>1, <1>2, <1>3, NextSplit

\* Only Advance delivers, and what it delivers is the message of the position.
LEMMA ExactlyOnceStep == IInv /\ [Next]_vars => ExactlyOnceInOrder'
<1> SUFFICES ASSUME IInv, [Next]_vars, NEW r \in safe', NEW k \in DOMAIN received'[r]
             PROVE  received'[r][k] = first'[r] + k - 1
  BY DEF ExactlyOnceInOrder
<1> DEFINE Same == r \in safe /\ received'[r] = received[r] /\ first'[r] = first[r]
<1>1. CASE Same
  BY <1>1 DEF IInv, ExactlyOnceInOrder
<1>2. CASE Producer \/ UNCHANGED vars
  <2>1. Same
    BY <1>2, ProducerKeepsReaders
  <2> QED BY <1>1, <2>1
<1>3. ASSUME NEW q \in Readers, Reader(q) \/ Unregister(q) \/ Crash(q)
      PROVE  received'[r][k] = first'[r] + k - 1
  <2>1. r \in Readers
    BY <1>3 DEF Reader, RegisterCall, CasWins, CasLoses, RegisterFails,
       RegisterSet, Unregister, Crash, ConsumeLoad, ConsumeEmpty, ConsumeReady,
       CopyFirst, CopySecond, Advance, IInv, TypeOK
  <2>2. CASE RegisterSet(q)
    <3>1. CASE q = r
      <4>1. received'[r] = <<>>
        BY <2>2, <3>1 DEF RegisterSet, IInv, JoinInv
      <4> QED BY <4>1
    <3>2. CASE q # r
      BY <1>1, <2>1, <2>2, <3>2 DEF RegisterSet, IInv, TypeOK
    <3> QED BY <3>1, <3>2
  <2>3. CASE Advance(q)
    <3>1. CASE q = r
      <4>1. /\ rpc[r] = "advance" /\ r \in safe /\ first'[r] = first[r]
            /\ received'[r] = Append(received[r], out[r])
        BY <2>1, <2>3, <3>1 DEF Advance, IInv, TypeOK
      <4>2. /\ out[r] = seq[r] /\ seq[r] = first[r] + Len(received[r])
        BY <4>1 DEF IInv, ReaderInv, InTime
      <4>3. received[r] \in Seq(Data) /\ out[r] \in Data /\ first[r] \in Nat
        BY <2>1 DEF IInv, TypeOK
      <4>4. /\ Len(received[r]) \in Nat
            /\ DOMAIN received'[r] = 1 .. Len(received[r]) + 1
        BY <4>1, <4>3
      <4>5. CASE k = Len(received[r]) + 1
        <5>1. received'[r][k] = out[r]
          BY <4>1, <4>3, <4>5
        <5> QED BY <4>1, <4>2, <4>3, <4>4, <4>5, <5>1
      <4>6. CASE k \in 1 .. Len(received[r])
        <5>1. received'[r][k] = received[r][k] /\ k \in DOMAIN received[r]
          BY <4>1, <4>3, <4>6
        <5> QED BY <4>1, <5>1 DEF IInv, ExactlyOnceInOrder
      <4> QED BY <4>4, <4>5, <4>6
    <3>2. CASE q # r
      BY <1>1, <2>1, <2>3, <3>2 DEF Advance, IInv, TypeOK
    <3> QED BY <3>1, <3>2
  <2>4. CASE ~RegisterSet(q) /\ ~Advance(q)
    <3>1. Same
      BY <1>3, <2>4 DEF Reader, RegisterCall, CasWins, CasLoses, RegisterFails,
         Unregister, Crash, ConsumeLoad, ConsumeEmpty, ConsumeReady, CopyFirst,
         CopySecond
    <3> QED BY <1>1, <3>1
  <2> QED BY <2>2, <2>3, <2>4
<1> QED BY <1>2, <1>3, NextSplit

-----------------------------------------------------------------------------
(* The invariant, and what follows from it. *)

\* The state of a freshly mapped queue satisfies the invariant.
LEMMA InitIInv == Init => IInv
<1> SUFFICES ASSUME Init PROVE IInv
  OBVIOUS
<1> USE QueueAssumption DEF Init
<1>1. TypeOK
  BY DEF TypeOK, Data, NoMsg
<1>2. ProducerInv /\ SlotExclusive /\ JoinInv
  BY DEF ProducerInv, SlotExclusive, JoinInv
<1>3. RingInv
  BY DEF RingInv
<1>4. ReaderInv /\ ExactlyOnceInOrder
  BY DEF ReaderInv, ExactlyOnceInOrder
<1> QED BY <1>1, <1>2, <1>3, <1>4 DEF IInv

\* IInv holds in every reachable state of publish(), consume() and the
\* registration calls, for every ring size and every set of readers.
THEOREM Invariance == Spec => []IInv
<1>1. Init => IInv
  BY InitIInv
<1>2. IInv /\ [Next]_vars => IInv'
  BY TypeStep, ProducerInvStep, SlotExclusiveStep, RingInvStep, JoinInvStep,
     ReaderInvStep, ExactlyOnceStep DEF IInv
<1> QED BY <1>1, <1>2, PTL DEF Spec

\* The fields and locals of the queue keep their types; in particular no
\* sequence number exceeds N + 1 and next_ never passes N.
THEOREM TypeCorrect == Spec => []TypeOK
<1>1. IInv => TypeOK
  BY DEF IInv
<1> QED BY <1>1, Invariance, PTL

\* register_consumer() never gives one consumer slot to two live readers.
THEOREM ConsumerSlotsExclusive == Spec => []SlotExclusive
<1>1. IInv => SlotExclusive
  BY DEF IInv
<1> QED BY <1>1, Invariance, PTL

\* Registering before the first publish() is always early enough.
THEOREM EarlyRegistrationInTime == Spec => []JoinInTime
<1>1. IInv => JoinInTime
  BY QueueAssumption DEF IInv, JoinInv, JoinInTime
<1> QED BY <1>1, Invariance, PTL

\* consume() delivers every message from start_sequence on exactly once, in
\* order and untorn, to each reader that registered in time.
THEOREM Delivery == Spec => []ExactlyOnceInOrder
<1>1. IInv => ExactlyOnceInOrder
  BY DEF IInv
<1> QED BY <1>1, Invariance, PTL

\* publish() never writes the slot a reader in time is copying.
THEOREM RaceFreedom == Spec => []NoDataRace
<1>1. ASSUME IInv, NEW r \in safe, rpc[r] \in {"copy", "copy2"}, ppc = "write"
      PROVE  Index(next_) # Index(seq[r])
  <2>1. /\ seq[r] \in Nat /\ next_ \in Nat
        /\ seq[r] < next_ /\ next_ < seq[r] + RingSize
    BY <1>1, CopiesPublished DEF IInv, TypeOK
  <2> QED BY <2>1, IndexInjective
<1>2. IInv => NoDataRace
  BY <1>1 DEF NoDataRace
<1> QED BY <1>2, Invariance, PTL

\* publish() never overwrites a message that a reader in time has yet to read.
THEOREM NothingOverwritten == Spec => []UnreadIntact
<1>1. ASSUME IInv, NEW r \in safe, rpc[r] \in Reading,
             NEW s \in position[id[r]] .. next_, s >= 1,
             s < next_ \/ ppc \notin {"write", "release"}
      PROVE  slotSeq[Index(s)] = s + 1 /\ slotData[Index(s)] = s
  <2>1. id[r] \in ConsumerIds /\ next_ \in Nat /\ RingSize \in Nat
    BY <1>1, QueueAssumption DEF IInv, TypeOK, SlotExclusive
  <2>2. position[id[r]] \in Nat /\ next_ < position[id[r]] + RingSize
    BY <1>1, <2>1 DEF IInv, TypeOK, ReaderInv, InTime, Guarded
  <2>3. s \in 1 .. next_ /\ next_ < s + RingSize
    BY <1>1, <2>1, <2>2
  <2> QED BY <1>1, <2>3 DEF IInv, RingInv
<1>2. IInv => UnreadIntact
  BY <1>1 DEF UnreadIntact
<1> QED BY <1>2, Invariance, PTL

\* The cached minimum, however stale, never lets publish() skip a scan that
\* would have stopped it.
THEOREM CacheConservative == Spec => []FastPathSound
<1>1. ASSUME IInv, ppc = "idle", ~Full(next_ + 1, min_consumer_seq_),
             NEW r \in safe, rpc[r] \in Reading
      PROVE  next_ + 1 < position[id[r]] + RingSize
  <2>1. /\ id[r] \in ConsumerIds /\ next_ \in 0 .. N
        /\ min_consumer_seq_ \in 0 .. MaxU64
    BY <1>1 DEF IInv, TypeOK, SlotExclusive
  <2>2. PICK p \in 0 .. N + 1 : p = position[id[r]]
    <3>1. position \in [ConsumerIds -> 0 .. N + 1]
      BY <1>1 DEF IInv, TypeOK
    <3> QED BY <2>1, <3>1
  <2>3. Guarded(p, id[r])
    BY <1>1, <2>2 DEF IInv, ReaderInv, InTime
  <2>4. min_consumer_seq_ <= p /\ p <= next_ + 1
    BY <1>1, <2>3 DEF Guarded
  <2>5. /\ next_ + 1 \in Nat /\ min_consumer_seq_ \in Nat
        /\ min_consumer_seq_ <= next_ + 1 /\ next_ + 1 < Word
    BY <2>1, <2>2, <2>4, QueueAssumption
  <2>6. ~((next_ + 1) - min_consumer_seq_ >= RingSize)
    BY <1>1, <2>5, FullExact
  <2> QED BY <2>1, <2>2, <2>4, <2>5, <2>6, QueueAssumption
<1>2. IInv => FastPathSound
  BY <1>1 DEF FastPathSound
<1> QED BY <1>2, Invariance, PTL

=============================================================================
