--------------------- MODULE SharedMemoryDeliveryProofs ---------------------
(***************************************************************************)
(* What consumers of the segment receive, for any number of producers,     *)
(* consumers, slots and messages, any ring size, and any processes that    *)
(* fail or are killed.  It builds on SharedMemoryProofs: who owns which    *)
(* slot.                                                                   *)
(***************************************************************************)
EXTENDS SharedMemoryProofs, WellFoundedInduction, SequenceTheorems

-----------------------------------------------------------------------------
(* Arithmetic. *)

\* A set of natural numbers has a smallest one.
LEMMA MinExists ==
  ASSUME NEW S \in SUBSET Nat, S # {}
  PROVE  Min(S) \in S /\ \A y \in S : Min(S) <= y
<1>1. PICK x \in S : \A y \in S : ~(<<y, x>> \in OpToRel(<, Nat))
  BY NatLessThanWellFounded, WFMin
<1>2. \A y \in S : x <= y
  <2> SUFFICES ASSUME NEW y \in S, y < x
               PROVE  FALSE
    OBVIOUS
  <2>1. <<y, x>> \in Nat \X Nat /\ <<y, x>>[1] < <<y, x>>[2]
    OBVIOUS
  <2>2. <<y, x>> \in OpToRel(<, Nat)
    BY <2>1 DEF OpToRel
  <2> QED
    BY <1>1, <2>2
<1> QED
  BY <1>2 DEF Min

\* A bounded set of natural numbers has a largest one.
LEMMA MaxExists ==
  ASSUME NEW n \in Nat, NEW S \in SUBSET (0 .. n), S # {}
  PROVE  Max(S) \in S
<1> DEFINE T == {n - m : m \in S}
<1>0. \A m \in S : m \in Nat /\ n - m \in Nat
  OBVIOUS
<1>1. T \in SUBSET Nat /\ T # {}
  BY <1>0
<1>2. Min(T) \in T /\ \A y \in T : Min(T) <= y
  BY <1>1, MinExists
<1>3. PICK x \in S : Min(T) = n - x
  BY <1>2
<1>4. ASSUME NEW y \in S
      PROVE  x >= y
  <2>1. Min(T) <= n - y
    BY <1>2
  <2> QED
    BY <1>0, <1>3, <2>1
<1> QED
  BY <1>4 DEF Max

\* The unsigned full check is exact while the minimum is not ahead.
LEMMA FullExact ==
  ASSUME NEW s \in Nat, NEW m \in Nat, m <= s, s < Word
  PROVE  Full(s, m) <=> s - m >= RingSize
  BY SharedMemoryAssumption DEF Full

\* What a queue in a segment looks like.
QueueType ==
  [active   : [ConsumerIds -> BOOLEAN],
   position : [ConsumerIds -> 0 .. N + 1],
   next_    : 0 .. N,
   min_consumer_seq_ : 0 .. Word - 1]

\* The minimum publish() goes by is a uint64_t, and no active consumer is
\* behind it if the slots were scanned.
LEMMA MinimumBound ==
  ASSUME NEW b \in QueueType
  PROVE  /\ Minimum(b) \in 0 .. Word - 1
         /\ ~Full(b.next_ + 1, b.min_consumer_seq_) => Minimum(b) = b.min_consumer_seq_
         /\ Full(b.next_ + 1, b.min_consumer_seq_) =>
              \A k \in ConsumerIds : b.active[k] => Minimum(b) <= b.position[k]
<1> USE SharedMemoryAssumption
<1> DEFINE S == {b.position[k] : k \in {j \in ConsumerIds : b.active[j]}} \cup {Word - 1}
<1>1. S \subseteq 0 .. Word - 1 /\ S # {} /\ S \in SUBSET Nat
  BY DEF QueueType
<1>2. Min(S) \in S /\ \A y \in S : Min(S) <= y
  BY <1>1, MinExists
<1>3. b.min_consumer_seq_ \in 0 .. Word - 1
  BY DEF QueueType
<1>4. Minimum(b) = IF Full(b.next_ + 1, b.min_consumer_seq_) THEN Min(S)
                   ELSE b.min_consumer_seq_
  BY DEF Minimum
<1> HIDE DEF S
<1>5. \A k \in ConsumerIds : b.active[k] => b.position[k] \in S
  BY DEF S
<1> QED
  BY <1>1, <1>2, <1>3, <1>4, <1>5

-----------------------------------------------------------------------------
(* Type correctness. *)

\* What is counted where: a producer counts from 1 in its loop, which starts
\* with an empty queue; a consumer has received something only in its loop.
Books ==
  /\ \A p \in Producers :
       /\ pc[p] # "ready" => i[p] = 1
       /\ pc[p] \in {"zeroed", "built", "ready"} => queue[seg[p]].next_ = i[p] - 1
  /\ \A c \in Consumers : pc[c] # "running" => received[c] = <<>>
  /\ punctual \subseteq {c \in Consumers : pc[c] = "running"}

\* Every position is at most the next sequence number; before the first message
\* the cached minimum is low or refuses.
Sane(b) ==
  /\ \A k \in ConsumerIds : b.position[k] <= b.next_ + 1
  /\ b.next_ = 0 => b.min_consumer_seq_ <= 1 \/ Full(1, b.min_consumer_seq_)

Base == TypeOK /\ Orderly /\ SlotOwners /\ Books /\ \A s \in Producers : Sane(queue[s])

\* What consume() looks at lies between the position and the last message.
LEMMA ConsumeStep ==
  ASSUME Base, NEW c \in Consumers, Consume(c)
  PROVE  /\ seg[c] \in Producers /\ id[c] \in ConsumerIds
         /\ Mine(c).position[id[c]] \in 0 .. Mine(c).next_
         /\ Max(InSlot(c)) \in 1 .. N /\ Max(InSlot(c)) \in InSlot(c)
<1>1. seg[c] \in Producers /\ id[c] \in ConsumerIds
  BY DEF Base, Orderly, Consume, Claimants, Working, Registered, Processes
<1>2. /\ Mine(c).next_ \in 0 .. N /\ Mine(c).position[id[c]] \in 0 .. N + 1
      /\ N \in Nat
  BY <1>1, SharedMemoryAssumption DEF Base, TypeOK, Mine
<1>3. InSlot(c) \in SUBSET (0 .. N) /\ InSlot(c) \subseteq 1 .. N /\ InSlot(c) # {}
  BY <1>2 DEF InSlot, Consume
<1>4. Max(InSlot(c)) \in InSlot(c)
  BY <1>2, <1>3, MaxExists
<1>5. \E m \in 1 .. Mine(c).next_ : m >= Mine(c).position[id[c]]
  BY <1>3 DEF InSlot
<1> QED
  BY <1>1, <1>2, <1>3, <1>4, <1>5

\* Every step keeps the queues in shape.
LEMMA QueueTypeStep ==
  ASSUME Base, [Next]_vars
  PROVE  queue' \in [Producers -> QueueType]
<1> USE SharedMemoryAssumption
<1>1. queue \in [Producers -> QueueType]
  BY DEF Base, TypeOK, QueueType
<1>2. ASSUME NEW p \in Producers, Construct(p)
      PROVE  queue' \in [Producers -> QueueType]
  <2>1. Blank \in QueueType
    BY DEF Blank, QueueType, ConsumerIds
  <2> QED
    BY <1>1, <1>2, <2>1 DEF Construct
<1>3. ASSUME NEW p \in Producers, Publish(p) \/ PublishRefused(p)
      PROVE  queue' \in [Producers -> QueueType]
  <2>1. seg[p] \in Producers /\ queue[seg[p]].next_ = i[p] - 1
    BY <1>3 DEF Base, Books, Orderly, Publish, PublishRefused, Working, Processes
  <2> DEFINE b == queue[seg[p]]
  <2>2. b \in QueueType
    BY <1>1, <2>1
  <2>3. Minimum(b) \in 0 .. Word - 1
    BY <2>2, MinimumBound
  <2>4. i[p] \in 1 .. N /\ b.next_ + 1 \in 0 .. N
    <3>1. i[p] \in 1 .. N + 1
      BY DEF Base, TypeOK
    <3>2. i[p] <= N
      BY <1>3 DEF Publish, PublishRefused
    <3> QED
      BY <2>1, <3>1, <3>2
  <2> HIDE DEF b
  <2>5. /\ [b EXCEPT !.next_ = @ + 1, !.min_consumer_seq_ = Minimum(b)] \in QueueType
        /\ [b EXCEPT !.min_consumer_seq_ = Minimum(b)] \in QueueType
    BY <2>2, <2>3, <2>4 DEF QueueType
  <2>6. CASE Publish(p)
    <3>1. queue' = [queue EXCEPT ![seg[p]] = [b EXCEPT !.next_ = @ + 1,
                                                       !.min_consumer_seq_ = Minimum(b)]]
      BY <2>6, Zenon DEF Publish, b
    <3> QED
      BY <1>1, <2>1, <2>5, <3>1
  <2>7. CASE PublishRefused(p)
    <3>1. queue' = [queue EXCEPT ![seg[p]] = [b EXCEPT !.min_consumer_seq_ = Minimum(b)]]
      BY <2>7, Zenon DEF PublishRefused, b
    <3> QED
      BY <1>1, <2>1, <2>5, <3>1
  <2> QED
    BY <1>3, <2>6, <2>7
<1>4. ASSUME NEW c \in Consumers,
             CasWins(c) \/ SetPosition(c) \/ Consume(c) \/ DestroyConsumer(c)
      PROVE  queue' \in [Producers -> QueueType]
  <2>1. seg[c] \in Producers
    BY <1>4 DEF Base, Orderly, CasWins, SetPosition, Consume, DestroyConsumer, Ends,
       Goto, Working, Registered, Processes
  <2> DEFINE b == queue[seg[c]]
  <2>2. b \in QueueType
    BY <1>1, <2>1
  <2>3. CASE CasWins(c)
    <3>1. [b EXCEPT !.active[id[c]] = TRUE] \in QueueType
      BY <2>2 DEF QueueType
    <3> QED
      BY <1>1, <2>1, <2>3, <3>1 DEF CasWins
  <2>4. CASE SetPosition(c)
    <3>1. [b EXCEPT !.position[id[c]] = 1] \in QueueType
      BY <2>2 DEF QueueType
    <3> QED
      BY <1>1, <2>1, <2>4, <3>1 DEF SetPosition
  <2>5. CASE Consume(c)
    <3>1. b.position[id[c]] + 1 \in 0 .. N + 1
      BY <2>2, <2>5, ConsumeStep DEF Mine, QueueType
    <3>2. [b EXCEPT !.position[id[c]] = b.position[id[c]] + 1] \in QueueType
      BY <2>2, <3>1 DEF QueueType
    <3> QED
      BY <1>1, <2>1, <2>5, <3>2 DEF Consume
  <2>6. CASE DestroyConsumer(c)
    <3>1. [b EXCEPT !.active[id[c]] = FALSE] \in QueueType
      BY <2>2 DEF QueueType
    <3> QED
      BY <1>1, <2>1, <2>6, <3>1 DEF DestroyConsumer
  <2> QED
    BY <1>4, <2>3, <2>4, <2>5, <2>6
<1>5. ASSUME NEW q \in Processes, Manager(q) \/ Kill(q)
      PROVE  queue' = queue
  BY <1>5 DEF Manager, Open, OpenFails, Map, MapFails, EventFd, EventFdFails, Kill,
     shmVars
<1>6. ASSUME NEW p \in Producers, Truncate(p) \/ TruncateFails(p) \/ DestroyProducer(p)
      PROVE  queue' = queue
  BY <1>6 DEF Truncate, TruncateFails, DestroyProducer
<1>7. ASSUME NEW c \in Consumers, BusError(c) \/ CasLoses(c) \/ RegisterFails(c)
                                   \/ ConsumeEmpty(c)
      PROVE  queue' = queue
  BY <1>7 DEF BusError, CasLoses, RegisterFails, ConsumeEmpty, shmVars, vars
<1>8. CASE Cleanup \/ UNCHANGED vars
  BY <1>1, <1>8 DEF Cleanup, vars, shmVars
<1> QED
  BY <1>1, <1>2, <1>3, <1>4, <1>5, <1>6, <1>7, <1>8
     DEF Next, Producer, Consumer, AllEnded, Processes

\* A process that ends leaves the other processes' memory as it was.
LEMMA EndsStep ==
  ASSUME TypeOK, NEW q \in Processes, NEW from, NEW how, Ends(q, from, how)
  PROVE  /\ i' \in [Producers -> 1 .. N + 1]
         /\ id' \in [Consumers -> 0 .. MaxConsumers]
         /\ received' \in [Consumers -> Seq(1 .. N)]
         /\ punctual' \subseteq Consumers
<1>1. \A p \in Producers : i[p] \in 1 .. N + 1
  BY DEF TypeOK
<1>2. 1 \in 1 .. N + 1 /\ 0 \in 0 .. MaxConsumers
  BY SharedMemoryAssumption
<1>3. i' \in [Producers -> 1 .. N + 1]
  BY <1>1, <1>2 DEF Ends
<1>4. id' \in [Consumers -> 0 .. MaxConsumers]
  BY <1>2 DEF Ends, TypeOK
<1>5. received' \in [Consumers -> Seq(1 .. N)]
  <2>1. <<>> \in Seq(1 .. N) /\ \A c \in Consumers : received[c] \in Seq(1 .. N)
    BY DEF TypeOK
  <2> QED
    BY <2>1, Zenon DEF Ends
<1> QED
  BY <1>3, <1>4, <1>5 DEF Ends, TypeOK

\* Every step keeps the processes' own memory and the histories in shape.
LEMMA MemoryStep ==
  ASSUME Base, [Next]_vars
  PROVE  /\ i' \in [Producers -> 1 .. N + 1]
         /\ id' \in [Consumers -> 0 .. MaxConsumers]
         /\ received' \in [Consumers -> Seq(1 .. N)]
         /\ punctual' \subseteq Consumers
         /\ disturbed' \subseteq Producers
         /\ orphans' \subseteq Producers \X ConsumerIds
<1> DEFINE Memory == /\ i' \in [Producers -> 1 .. N + 1]
                     /\ id' \in [Consumers -> 0 .. MaxConsumers]
                     /\ received' \in [Consumers -> Seq(1 .. N)]
                     /\ punctual' \subseteq Consumers
           Record == /\ disturbed' \subseteq Producers
                     /\ orphans' \subseteq Producers \X ConsumerIds
<1> SUFFICES Memory /\ Record
  OBVIOUS
<1>1. UNCHANGED <<i, id, received, punctual>> => Memory
  BY DEF Base, TypeOK
<1>2. UNCHANGED <<disturbed, orphans>> => Record
  BY DEF Base, TypeOK
<1>3. ASSUME NEW q \in Processes, NEW from, NEW how
      PROVE  Ends(q, from, how) => Memory
  BY EndsStep DEF Base
<1> HIDE DEF Memory, Record
<1>4. ASSUME NEW q \in Processes, Manager(q)
      PROVE  Memory /\ Record
  BY <1>1, <1>2, <1>3, <1>4 DEF Manager, Open, OpenFails, Map, MapFails, EventFd,
     EventFdFails, history
<1>5. ASSUME NEW p \in Producers,
             Truncate(p) \/ TruncateFails(p) \/ PublishRefused(p) \/ DestroyProducer(p)
      PROVE  Memory /\ Record
  BY <1>1, <1>2, <1>3, <1>5 DEF Truncate, TruncateFails, PublishRefused,
     DestroyProducer, history, procVars, Processes
<1>6. ASSUME NEW p \in Producers, Publish(p)
      PROVE  Memory /\ Record
  <2>1. i[p] \in 1 .. N + 1 /\ i[p] <= N /\ N \in Nat
    BY <1>6, SharedMemoryAssumption DEF Base, TypeOK, Publish
  <2>2. i[p] + 1 \in 1 .. N + 1
    BY <2>1
  <2>3. i' \in [Producers -> 1 .. N + 1]
    BY <1>6, <2>2 DEF Base, TypeOK, Publish
  <2>4. UNCHANGED <<id, received, punctual, disturbed, orphans>>
    BY <1>6 DEF Publish, history
  <2> QED
    BY <1>2, <2>3, <2>4 DEF Memory, Base, TypeOK
<1>7. ASSUME NEW p \in Producers, Construct(p)
      PROVE  Memory /\ Record
  <2>1. Memory
    BY <1>1, <1>7 DEF Construct
  <2>2. seg[p] \in Producers
    BY <1>7 DEF Construct, Goto, Base, Orderly, Working, Processes
  <2> QED
    BY <1>7, <2>1, <2>2 DEF Construct, Record, Base, TypeOK
<1>8. ASSUME NEW c \in Consumers, BusError(c) \/ CasWins(c) \/ RegisterFails(c)
                                   \/ ConsumeEmpty(c) \/ DestroyConsumer(c)
      PROVE  Memory /\ Record
  BY <1>1, <1>2, <1>3, <1>8 DEF BusError, CasWins, RegisterFails, ConsumeEmpty,
     DestroyConsumer, history, procVars, vars, Processes
<1>9. ASSUME NEW c \in Consumers, CasLoses(c)
      PROVE  Memory /\ Record
  <2>1. id[c] \in 0 .. MaxConsumers /\ id[c] < MaxConsumers /\ MaxConsumers \in Nat
    BY <1>9, SharedMemoryAssumption DEF Base, TypeOK, CasLoses
  <2>2. id[c] + 1 \in 0 .. MaxConsumers
    BY <2>1
  <2>3. id' \in [Consumers -> 0 .. MaxConsumers]
    BY <1>9, <2>2 DEF Base, TypeOK, CasLoses
  <2>4. UNCHANGED <<i, received, punctual, disturbed, orphans>>
    BY <1>9 DEF CasLoses, history
  <2> QED
    BY <1>2, <2>3, <2>4 DEF Memory, Base, TypeOK
<1>10. ASSUME NEW c \in Consumers, SetPosition(c)
       PROVE  Memory /\ Record
  <2>1. UNCHANGED <<i, id, received, disturbed, orphans>> /\ punctual' \subseteq Consumers
    BY <1>10 DEF SetPosition, Base, TypeOK
  <2> QED
    BY <1>2, <2>1 DEF Memory, Base, TypeOK
<1>11. ASSUME NEW c \in Consumers, Consume(c)
       PROVE  Memory /\ Record
  <2>1. Max(InSlot(c)) \in 1 .. N
    BY <1>11, ConsumeStep
  <2>2. received[c] \in Seq(1 .. N)
    BY DEF Base, TypeOK
  <2>3. Append(received[c], Max(InSlot(c))) \in Seq(1 .. N)
    BY <2>1, <2>2, AppendProperties
  <2>4. received' \in [Consumers -> Seq(1 .. N)]
    BY <1>11, <2>3 DEF Base, TypeOK, Consume
  <2>5. UNCHANGED <<i, id, punctual, disturbed, orphans>>
    BY <1>11 DEF Consume, history
  <2> QED
    BY <1>2, <2>4, <2>5 DEF Memory, Base, TypeOK
<1>12. ASSUME NEW q \in Processes, Kill(q)
       PROVE  Memory /\ Record
  <2>1. Memory /\ UNCHANGED disturbed
    BY <1>3, <1>12 DEF Kill
  <2>2. ASSUME NEW c \in Claimants
        PROVE  <<seg[c], id[c]>> \in Producers \X ConsumerIds
    BY DEF Base, Orderly, Claimants, Working, Processes
  <2> QED
    BY <1>12, <2>1, <2>2 DEF Kill, Record, Base, TypeOK
<1>13. CASE Cleanup \/ UNCHANGED vars
  BY <1>1, <1>2, <1>13 DEF Cleanup, vars, procVars, history
<1> QED
  BY <1>4, <1>5, <1>6, <1>7, <1>8, <1>9, <1>10, <1>11, <1>12, <1>13
     DEF Next, Producer, Consumer, AllEnded, Processes

\* Every step keeps the type.
LEMMA TypeStep ==
  ASSUME Base, [Next]_vars
  PROVE  TypeOK'
<1>1. Shape
  BY SharedMemoryAssumption DEF Base, TypeOK, Shape, Working
<1>2. Shape'
  BY <1>1, ShapeStep DEF Base
<1>3. /\ name' \in Producers \cup {None} /\ sized' \subseteq Producers
      /\ pc' \in [Processes -> Ended \cup Registered \cup
                   {"start", "opened", "sized", "mapped", "zeroed", "built", "ready"}]
      /\ seg' \in [Processes -> Producers \cup {None}]
      /\ held' \in [Processes -> SUBSET {"fd", "map", "efd"}]
  BY <1>2 DEF Shape, Working
<1> QED
  BY <1>3, QueueTypeStep, MemoryStep DEF TypeOK, QueueType

-----------------------------------------------------------------------------
(* The books. *)

\* Only a producer at work in its loop, or constructing, changes the count of
\* the published messages.
LEMMA CountStep ==
  ASSUME Base, NEW c \in Consumers, Consumer(c)
  PROVE  \A s \in Producers : queue'[s].next_ = queue[s].next_
<1>1. \A s \in Producers : queue[s] \in QueueType
  BY DEF Base, TypeOK, QueueType
<1>2. ASSUME Manager(c) \/ BusError(c) \/ CasLoses(c) \/ RegisterFails(c) \/ ConsumeEmpty(c)
      PROVE  queue' = queue
  BY <1>2 DEF Manager, Open, OpenFails, Map, MapFails, EventFd, EventFdFails,
     BusError, CasLoses, RegisterFails, ConsumeEmpty, shmVars, vars
<1>3. ASSUME CasWins(c)
      PROVE  \A s \in Producers : queue'[s].next_ = queue[s].next_
  BY <1>1, <1>3 DEF CasWins, QueueType, Base, TypeOK
<1>4. ASSUME SetPosition(c)
      PROVE  \A s \in Producers : queue'[s].next_ = queue[s].next_
  BY <1>1, <1>4 DEF SetPosition, QueueType, Base, TypeOK
<1>5. ASSUME Consume(c)
      PROVE  \A s \in Producers : queue'[s].next_ = queue[s].next_
  BY <1>1, <1>5 DEF Consume, QueueType, Base, TypeOK
<1>6. ASSUME DestroyConsumer(c)
      PROVE  \A s \in Producers : queue'[s].next_ = queue[s].next_
  BY <1>1, <1>6 DEF DestroyConsumer, QueueType, Base, TypeOK
<1> QED
  BY <1>2, <1>3, <1>4, <1>5, <1>6 DEF Consumer

\* A process that ends closes its books.
LEMMA BooksEnd ==
  ASSUME Base, NEW q \in Processes, NEW from, NEW how \in Ended, Ends(q, from, how),
         \A s \in Producers : queue'[s].next_ = queue[s].next_
  PROVE  Books'
<1> USE DEF Ended
<1>1. pc' = [pc EXCEPT ![q] = how] /\ pc \in [Processes -> Ended \cup Working \cup {"start"}]
      /\ \A r \in Processes : seg'[r] = IF r = q THEN None ELSE seg[r]
  BY DEF Ends, Goto, Base, TypeOK, Registered, Working
<1>2. ASSUME NEW p \in Producers
      PROVE  /\ pc'[p] # "ready" => i'[p] = 1
             /\ pc'[p] \in {"zeroed", "built", "ready"} => queue'[seg'[p]].next_ = i'[p] - 1
  <2>1. p \in Processes /\ i'[p] = IF p = q THEN 1 ELSE i[p]
    BY DEF Ends, Processes
  <2>2. CASE p = q
    BY <1>1, <2>1, <2>2
  <2>3. CASE p # q
    <3>1. pc'[p] = pc[p] /\ i'[p] = i[p] /\ seg'[p] = seg[p]
      BY <1>1, <2>1, <2>3
    <3>2. pc[p] \in {"zeroed", "built", "ready"} => seg[p] \in Producers
      BY <2>1 DEF Base, Orderly, Working
    <3> QED
      BY <3>1, <3>2 DEF Base, Books
  <2> QED
    BY <2>2, <2>3
<1>3. ASSUME NEW c \in Consumers
      PROVE  /\ pc'[c] # "running" => received'[c] = <<>>
             /\ c \in punctual' => pc'[c] = "running"
  BY <1>1 DEF Ends, Base, Books, Processes
<1>4. punctual' \subseteq Consumers
  BY DEF Ends, Base, TypeOK
<1> QED
  BY <1>2, <1>3, <1>4 DEF Books

\* A step that neither ends a process nor counts a message.
Uncounted ==
  /\ \A s \in Producers : queue'[s].next_ = queue[s].next_
  /\ UNCHANGED <<i, received, punctual>>
  /\ \A p \in Producers : pc[p] # "ready" /\ pc'[p] = "ready" => pc[p] = "built"
  /\ \A p \in Producers : pc'[p] # pc[p] => pc[p] # "ready"
  /\ \A p \in Producers : pc'[p] \in {"zeroed", "built"} => pc'[p] = pc[p]
  /\ \A p \in Producers : pc[p] \in {"zeroed", "built", "ready"} => seg'[p] = seg[p]
  /\ \A c \in Consumers : pc'[c] = "running" <=> pc[c] = "running"

\* Such a step keeps the books.
LEMMA UncountedStep ==
  ASSUME Base, Uncounted
  PROVE  Books'
<1>1. ASSUME NEW p \in Producers
      PROVE  /\ pc'[p] # "ready" => i'[p] = 1
             /\ pc'[p] \in {"zeroed", "built", "ready"} => queue'[seg'[p]].next_ = i'[p] - 1
  <2>1. i'[p] = i[p] /\ p \in Processes
    BY DEF Uncounted, Processes
  <2>2. pc'[p] # "ready" => i'[p] = 1
    BY <2>1 DEF Uncounted, Base, Books
  <2>3. ASSUME pc'[p] \in {"zeroed", "built", "ready"}
        PROVE  queue'[seg'[p]].next_ = i'[p] - 1
    <3>1. pc[p] \in {"zeroed", "built", "ready"}
      BY <2>3 DEF Uncounted
    <3>2. seg[p] \in Producers /\ seg'[p] = seg[p]
      BY <2>1, <3>1 DEF Base, Orderly, Working, Uncounted
    <3> QED
      BY <2>1, <3>1, <3>2 DEF Uncounted, Base, Books
  <2> QED
    BY <2>2, <2>3
<1>2. /\ \A c \in Consumers : pc'[c] # "running" => received'[c] = <<>>
      /\ punctual' \subseteq {c \in Consumers : pc'[c] = "running"}
  BY DEF Uncounted, Base, Books
<1> QED
  BY <1>1, <1>2 DEF Books

\* Every step keeps the books.
LEMMA BooksStep ==
  ASSUME Base, [Next]_vars
  PROVE  Books'
<1> USE SharedMemoryAssumption
<1>0. pc \in [Processes -> Ended \cup Working \cup {"start"}] /\ seg \in [Processes -> Producers \cup {None}]
      /\ queue \in [Producers -> QueueType]
  BY DEF Base, TypeOK, Registered, Working, Ended, QueueType
<1>1. ASSUME NEW q \in Processes, Manager(q)
      PROVE  Books'
  <2>1. queue' = queue
    BY <1>1 DEF Manager, Open, OpenFails, Map, MapFails, EventFd, EventFdFails, shmVars
  <2>2. CASE OpenFails(q) \/ MapFails(q) \/ EventFdFails(q)
    <3>1. \E from : Ends(q, from, "failed")
      BY <2>2 DEF OpenFails, MapFails, EventFdFails
    <3> QED
      BY <2>1, <3>1, BooksEnd DEF Ended
  <2>3. CASE Open(q)
    BY <1>0, <2>1, <2>3, UncountedStep DEF Uncounted, Open, Goto, Processes, history
  <2>4. CASE Map(q)
    BY <1>0, <2>1, <2>4, UncountedStep DEF Uncounted, Map, MapsFrom, Goto, Processes, history
  <2>5. CASE EventFd(q)
    BY <1>0, <2>1, <2>5, UncountedStep
       DEF Uncounted, EventFd, MakesEventFrom, Goto, Processes, history
  <2> QED
    BY <1>1, <2>2, <2>3, <2>4, <2>5 DEF Manager
<1>2. ASSUME NEW p \in Producers, Truncate(p)
      PROVE  Books'
  BY <1>0, <1>2, UncountedStep DEF Uncounted, Truncate, Goto, Processes, history
<1>3. ASSUME NEW p \in Producers, TruncateFails(p) \/ DestroyProducer(p)
      PROVE  Books'
  <2>1. queue' = queue
    BY <1>3 DEF TruncateFails, DestroyProducer
  <2>2. \E from, how : Ends(p, from, how) /\ how \in Ended
    BY <1>3 DEF TruncateFails, DestroyProducer, Ended
  <2> QED
    BY <2>1, <2>2, BooksEnd DEF Processes
<1>4. ASSUME NEW p \in Producers, Construct(p)
      PROVE  Books'
  <2>1. /\ pc[p] \in {"mapped", "zeroed"} /\ pc'[p] \in {"zeroed", "built"}
        /\ \A q \in Processes \ {p} : pc'[q] = pc[q]
        /\ UNCHANGED <<seg, i, received, punctual>>
    BY <1>0, <1>4 DEF Construct, Goto, Processes
  <2>2. seg[p] \in Producers /\ i[p] = 1
    BY <2>1 DEF Base, Orderly, Books, Working, Processes
  <2>3. queue'[seg[p]].next_ = 0
    BY <1>0, <1>4, <2>2 DEF Construct, Blank
  <2>4. ASSUME NEW r \in Producers, r # p
        PROVE  pc'[r] = pc[r] /\ pc[r] \notin {"zeroed", "built", "ready"}
    BY <2>1, <2>4 DEF Base, Orderly, Working, Processes
  <2>5. \A c \in Consumers : pc'[c] = pc[c]
    BY <2>1 DEF Processes
  <2> QED
    BY <2>1, <2>2, <2>3, <2>4, <2>5 DEF Books, Base
<1>5. ASSUME NEW p \in Producers, Publish(p)
      PROVE  Books'
  <2>1. pc[p] = "ready" /\ UNCHANGED <<pc, seg, received, punctual>>
    BY <1>5 DEF Publish, history
  <2>2. /\ seg[p] \in Producers /\ queue[seg[p]].next_ = i[p] - 1 /\ i[p] \in Nat
        /\ queue[seg[p]].next_ \in Nat
    BY <1>0, <2>1 DEF Base, Orderly, Books, Working, Processes, TypeOK, QueueType
  <2>3. queue'[seg[p]].next_ = queue[seg[p]].next_ + 1
    BY <1>0, <1>5, <2>2 DEF Publish, QueueType
  <2>4. i'[p] = i[p] + 1 /\ \A r \in Producers \ {p} : i'[r] = i[r]
    BY <1>5 DEF Publish, Base, TypeOK
  <2>5. ASSUME NEW r \in Producers, r # p
        PROVE  pc[r] \notin {"zeroed", "built", "ready"}
    BY <2>1, <2>5 DEF Base, Orderly, Working
  <2>6. queue'[seg[p]].next_ = i'[p] - 1
    BY <2>2, <2>3, <2>4
  <2> QED
    BY <2>1, <2>4, <2>5, <2>6 DEF Books, Base
<1>6. ASSUME NEW p \in Producers, PublishRefused(p)
      PROVE  Books'
  <2>1. \A s \in Producers : queue'[s].next_ = queue[s].next_
    BY <1>0, <1>6 DEF PublishRefused, QueueType
  <2> QED
    BY <1>6, <2>1, UncountedStep DEF Uncounted, PublishRefused, procVars, history
<1>7. ASSUME NEW c \in Consumers, Consumer(c), ~Manager(c)
      PROVE  Books'
  <2>1. \A s \in Producers : queue'[s].next_ = queue[s].next_
    BY <1>7, CountStep
  <2>2. c \in Processes /\ c \notin Producers
    BY DEF Processes
  <2>3. CASE BusError(c) \/ RegisterFails(c) \/ DestroyConsumer(c)
    <3>1. \E from, how : Ends(c, from, how) /\ how \in Ended
      BY <2>3 DEF BusError, RegisterFails, DestroyConsumer, Ended
    <3> QED
      BY <2>1, <2>2, <3>1, BooksEnd
  <2>4. CASE CasWins(c)
    BY <1>0, <2>1, <2>2, <2>4, UncountedStep
       DEF Uncounted, CasWins, Goto, Processes, history
  <2>5. CASE CasLoses(c) \/ ConsumeEmpty(c)
    BY <2>1, <2>5, UncountedStep
       DEF Uncounted, CasLoses, ConsumeEmpty, vars, procVars, history
  <2>6. CASE SetPosition(c)
    <3>1. /\ pc'[c] = "running" /\ \A q \in Processes \ {c} : pc'[q] = pc[q]
          /\ UNCHANGED <<i, seg, received>> /\ punctual' \subseteq punctual \cup {c}
      BY <1>0, <2>2, <2>6 DEF SetPosition, Goto
    <3>2. \A p \in Producers : pc'[p] = pc[p] /\ (pc[p] \in Working => seg[p] \in Producers)
      BY <2>2, <3>1 DEF Processes, Base, Orderly
    <3>3. \A d \in Consumers \ {c} : pc'[d] = pc[d]
      BY <3>1 DEF Processes
    <3>4. /\ \A d \in Consumers : pc'[d] # "running" => received'[d] = <<>>
          /\ punctual' \subseteq {d \in Consumers : pc'[d] = "running"}
      BY <3>1, <3>3 DEF Base, Books
    <3> QED
      BY <2>1, <3>1, <3>2, <3>4 DEF Base, Books, Working
  <2>7. CASE Consume(c)
    <3>1. /\ pc[c] = "running" /\ UNCHANGED <<pc, i, seg, punctual>>
          /\ \A d \in Consumers \ {c} : received'[d] = received[d]
      BY <2>7 DEF Consume, history, Base, TypeOK
    <3>2. \A p \in Producers : pc[p] \in Working => seg[p] \in Producers
      BY DEF Processes, Base, Orderly
    <3> QED
      BY <2>1, <3>1, <3>2 DEF Base, Books, Working
  <2> QED
    BY <1>7, <2>3, <2>4, <2>5, <2>6, <2>7 DEF Consumer
<1>8. ASSUME NEW q \in Processes, Kill(q)
      PROVE  Books'
  <2>1. queue' = queue /\ Ends(q, pc[q], "crashed")
    BY <1>8 DEF Kill, shmVars
  <2> QED
    BY <2>1, BooksEnd DEF Ended
<1>9. CASE Cleanup \/ UNCHANGED vars
  BY <1>9, UncountedStep DEF Uncounted, Cleanup, vars, shmVars, procVars, history
<1> QED
  BY <1>1, <1>2, <1>3, <1>4, <1>5, <1>6, <1>7, <1>8, <1>9
     DEF Next, Producer, Consumer, AllEnded, Processes

\* Every step keeps the queues sane.
LEMMA SaneStep ==
  ASSUME Base, [Next]_vars
  PROVE  \A s \in Producers : Sane(queue'[s])
<1> USE SharedMemoryAssumption
<1>0. /\ queue \in [Producers -> QueueType]
      /\ \A s \in Producers : queue[s] \in QueueType /\ Sane(queue[s])
  BY DEF Base, TypeOK, QueueType
<1>1. ASSUME NEW p \in Producers, Construct(p)
      PROVE  \A s \in Producers : Sane(queue'[s])
  <2>1. Sane(Blank)
    BY DEF Sane, Blank
  <2> QED
    BY <1>0, <1>1, <2>1 DEF Construct
<1>2. ASSUME NEW p \in Producers, Publish(p)
      PROVE  \A s \in Producers : Sane(queue'[s])
  <2> DEFINE b == queue[seg[p]]
  <2>1. seg[p] \in Producers
    BY <1>2 DEF Base, Orderly, Publish, Working, Processes
  <2>2. b \in QueueType /\ Sane(b)
    BY <1>0, <2>1
  <2>3. queue' = [queue EXCEPT ![seg[p]] = [b EXCEPT !.next_ = @ + 1,
                                                     !.min_consumer_seq_ = Minimum(b)]]
    BY <1>2, Zenon DEF Publish
  <2> HIDE DEF b
  <2>4. b.next_ \in Nat /\ \A k \in ConsumerIds : b.position[k] \in Nat
    BY <2>2 DEF QueueType
  <2>5. Sane([b EXCEPT !.next_ = @ + 1, !.min_consumer_seq_ = Minimum(b)])
    BY <2>2, <2>4 DEF Sane, QueueType
  <2> QED
    BY <1>0, <2>3, <2>5
<1>3. ASSUME NEW p \in Producers, PublishRefused(p)
      PROVE  \A s \in Producers : Sane(queue'[s])
  <2> DEFINE b == queue[seg[p]]
  <2>1. seg[p] \in Producers
    BY <1>3 DEF Base, Orderly, PublishRefused, Working, Processes
  <2>2. b \in QueueType /\ Sane(b)
    BY <1>0, <2>1
  <2>3. /\ queue' = [queue EXCEPT ![seg[p]] = [b EXCEPT !.min_consumer_seq_ = Minimum(b)]]
        /\ Full(b.next_ + 1, Minimum(b))
    BY <1>3, Zenon DEF PublishRefused
  <2> HIDE DEF b
  <2>4. Sane([b EXCEPT !.min_consumer_seq_ = Minimum(b)])
    BY <2>2, <2>3 DEF Sane, QueueType
  <2> QED
    BY <1>0, <2>3, <2>4
<1>4. ASSUME NEW c \in Consumers,
             CasWins(c) \/ SetPosition(c) \/ Consume(c) \/ DestroyConsumer(c)
      PROVE  \A s \in Producers : Sane(queue'[s])
  <2> DEFINE b == queue[seg[c]]
  <2>1. seg[c] \in Producers
    BY <1>4 DEF Base, Orderly, CasWins, SetPosition, Consume, DestroyConsumer, Ends,
       Goto, Working, Registered, Processes
  <2>2. b \in QueueType /\ Sane(b)
    BY <1>0, <2>1
  <2>3. b.next_ \in Nat /\ \A k \in ConsumerIds : b.position[k] \in Nat
    BY <2>2 DEF QueueType
  <2>4. CASE CasWins(c)
    <3>1. Sane([b EXCEPT !.active[id[c]] = TRUE])
      BY <2>2 DEF Sane, QueueType
    <3> QED
      BY <1>0, <2>1, <2>4, <3>1 DEF CasWins
  <2>5. CASE SetPosition(c)
    <3>1. Sane([b EXCEPT !.position[id[c]] = 1])
      BY <2>2, <2>3 DEF Sane, QueueType
    <3> QED
      BY <1>0, <2>1, <2>5, <3>1 DEF SetPosition
  <2>6. CASE Consume(c)
    <3>1. b.position[id[c]] + 1 <= b.next_ + 1
      BY <2>3, <2>6, ConsumeStep DEF Mine
    <3>2. Sane([b EXCEPT !.position[id[c]] = b.position[id[c]] + 1])
      BY <2>2, <2>3, <3>1 DEF Sane, QueueType
    <3> QED
      BY <1>0, <2>1, <2>6, <3>2 DEF Consume
  <2>7. CASE DestroyConsumer(c)
    <3>1. Sane([b EXCEPT !.active[id[c]] = FALSE])
      BY <2>2 DEF Sane, QueueType
    <3> QED
      BY <1>0, <2>1, <2>7, <3>1 DEF DestroyConsumer
  <2> QED
    BY <1>4, <2>4, <2>5, <2>6, <2>7
<1>5. ASSUME NEW q \in Processes, Manager(q) \/ Kill(q)
      PROVE  queue' = queue
  BY <1>5 DEF Manager, Open, OpenFails, Map, MapFails, EventFd, EventFdFails, Kill,
     shmVars
<1>6. ASSUME NEW p \in Producers, Truncate(p) \/ TruncateFails(p) \/ DestroyProducer(p)
      PROVE  queue' = queue
  BY <1>6 DEF Truncate, TruncateFails, DestroyProducer
<1>7. ASSUME NEW c \in Consumers, BusError(c) \/ CasLoses(c) \/ RegisterFails(c)
                                   \/ ConsumeEmpty(c)
      PROVE  queue' = queue
  BY <1>7 DEF BusError, CasLoses, RegisterFails, ConsumeEmpty, shmVars, vars
<1>8. CASE Cleanup \/ UNCHANGED vars
  BY <1>0, <1>8 DEF Cleanup, vars, shmVars
<1> QED
  BY <1>0, <1>1, <1>2, <1>3, <1>4, <1>5, <1>6, <1>7, <1>8
     DEF Next, Producer, Consumer, AllEnded, Processes

\* The inductive invariant holds throughout.
LEMMA BaseInvariance == Spec => []Base
<1>1. Init => Base
  <2> SUFFICES ASSUME Init
               PROVE  Base
    OBVIOUS
  <2> USE SharedMemoryAssumption
  <2>1. Blank \in QueueType /\ Sane(Blank) /\ Blank.next_ = 0
    BY DEF Blank, QueueType, ConsumerIds, Sane
  <2>2. /\ \A q \in Processes : pc[q] = "start"
        /\ \A s \in Producers : queue[s] = Blank
        /\ queue \in [Producers -> QueueType]
    BY <2>1 DEF Init
  <2>3. 1 \in 1 .. N + 1 /\ 0 \in 0 .. MaxConsumers /\ <<>> \in Seq(1 .. N)
    BY SMT
  <2>4. TypeOK
    BY <2>2, <2>3 DEF Init, TypeOK, QueueType
  <2>5. Claimants = {}
    BY <2>2 DEF Claimants, Registered, Processes
  <2>6. Orderly
    BY <2>2, <2>5 DEF Orderly, Working, Registered, Processes
  <2>7. SlotOwners
    BY <2>2, <2>5 DEF Init, Blank, SlotOwners
  <2>8. Books
    BY <2>2 DEF Init, Books, Processes
  <2> QED
    BY <2>1, <2>2, <2>4, <2>6, <2>7, <2>8 DEF Base
<1>2. Base /\ [Next]_vars => Base'
  <2> SUFFICES ASSUME Base, [Next]_vars
               PROVE  Base'
    OBVIOUS
  <2>1. Shape
    BY SharedMemoryAssumption DEF Base, TypeOK, Shape, Working
  <2>2. Orderly' /\ SlotOwners'
    BY <2>1, OrderlyStep, SlotsStep DEF Base
  <2> QED
    BY <2>2, TypeStep, BooksStep, SaneStep DEF Base
<1> QED
  BY <1>1, <1>2, PTL DEF Spec

-----------------------------------------------------------------------------
(* Delivery. *)

\* A punctual consumer is at the message after the last one it received, that
\* message has not been overwritten, and the cached minimum either does not
\* pass it or makes the next publish() scan the slots.
OnTime(c) ==
  /\ Mine(c).position[id[c]] = Len(received[c]) + 1
  /\ Mine(c).next_ < Mine(c).position[id[c]] + RingSize
  /\ \/ Mine(c).min_consumer_seq_ <= Mine(c).position[id[c]]
     \/ Full(Mine(c).next_ + 1, Mine(c).min_consumer_seq_)
  /\ \A k \in 1 .. Len(received[c]) : received[c][k] = k

AllOnTime == \A c \in punctual : seg[c] \notin disturbed => OnTime(c)

\* A punctual consumer has its slot.
LEMMA PunctualOwner ==
  ASSUME Base, NEW c \in punctual, seg[c] \notin disturbed
  PROVE  /\ c \in Claimants /\ c \in Consumers /\ c \in Processes
         /\ seg[c] \in Producers /\ id[c] \in ConsumerIds
         /\ Mine(c) \in QueueType /\ Sane(Mine(c)) /\ Mine(c).active[id[c]]
         /\ \A d \in Claimants : seg[d] = seg[c] /\ id[d] = id[c] => d = c
<1>1. c \in Claimants /\ c \in Consumers /\ c \in Processes
  BY DEF Base, Books, Claimants, Registered, Processes
<1>2. seg[c] \in Producers /\ id[c] \in ConsumerIds
  BY <1>1 DEF Base, Orderly, Claimants, Working
<1>3. Mine(c) \in QueueType /\ Sane(Mine(c))
  BY <1>2 DEF Base, TypeOK, QueueType, Mine
<1> QED
  BY <1>1, <1>2, <1>3 DEF Base, SlotOwners, Mine

\* publish(), refused or not, goes by a minimum that does not pass the
\* consumer, so the message it waits for is not overwritten.
LEMMA PublishOnTime ==
  ASSUME Base, NEW c \in punctual, seg[c] \notin disturbed, OnTime(c),
         NEW p \in Producers, Publish(p) \/ PublishRefused(p)
  PROVE  OnTime(c)'
<1> USE SharedMemoryAssumption
<1> DEFINE b == Mine(c)
           at == b.position[id[c]]
<1>1. /\ c \in Consumers /\ seg[c] \in Producers /\ id[c] \in ConsumerIds
      /\ b \in QueueType /\ Sane(b) /\ b.active[id[c]]
  BY PunctualOwner
<1>2. UNCHANGED <<seg, id, received>> /\ seg[p] \in Producers
  BY DEF Publish, PublishRefused, procVars, Base, Orderly, Working, Processes
<1>3. queue \in [Producers -> QueueType]
  BY DEF Base, TypeOK, QueueType
<1>4. CASE seg[p] # seg[c]
  <2>1. queue'[seg[c]] = queue[seg[c]]
    BY <1>1, <1>3, <1>4 DEF Publish, PublishRefused
  <2> QED
    BY <1>2, <2>1 DEF OnTime, Mine
<1>5. CASE seg[p] = seg[c]
  <2>1. at \in 0 .. N + 1 /\ b.next_ \in 0 .. N /\ b.min_consumer_seq_ \in 0 .. Word - 1
    BY <1>1 DEF QueueType
  <2>2. at <= b.next_ + 1
    BY <1>1 DEF Sane
  <2>3. Minimum(b) \in 0 .. Word - 1 /\ Minimum(b) <= at
    BY <1>1, MinimumBound DEF OnTime
  <2>4. CASE Publish(p)
    <3>1. /\ ~Full(b.next_ + 1, Minimum(b))
          /\ queue' = [queue EXCEPT ![seg[c]] = [b EXCEPT !.next_ = @ + 1,
                                                     !.min_consumer_seq_ = Minimum(b)]]
      BY <1>5, <2>4, Zenon DEF Publish, Mine
    <3> HIDE DEF b
    <3>2. b.next_ + 1 < at + RingSize
      <4>1. Minimum(b) <= b.next_ + 1 /\ b.next_ + 1 < Word /\ b.next_ + 1 \in Nat
            /\ Minimum(b) \in Nat
        BY <2>1, <2>2, <2>3
      <4>2. ~((b.next_ + 1) - Minimum(b) >= RingSize)
        BY <3>1, <4>1, FullExact
      <4> QED
        BY <2>1, <2>3, <4>1, <4>2
    <3>3. queue'[seg[c]] = [b EXCEPT !.next_ = @ + 1, !.min_consumer_seq_ = Minimum(b)]
      BY <1>1, <1>3, <3>1
    <3>4. /\ queue'[seg[c]].position = b.position
          /\ queue'[seg[c]].next_ = b.next_ + 1
          /\ queue'[seg[c]].min_consumer_seq_ = Minimum(b)
      BY <1>1, <3>3 DEF QueueType
    <3>5. at = Len(received[c]) + 1 /\ \A k \in 1 .. Len(received[c]) : received[c][k] = k
      BY DEF OnTime, b
    <3> QED
      BY <1>2, <2>3, <3>2, <3>4, <3>5 DEF OnTime, Mine
  <2>5. CASE PublishRefused(p)
    <3>1. queue' = [queue EXCEPT ![seg[c]] = [b EXCEPT !.min_consumer_seq_ = Minimum(b)]]
      BY <1>5, <2>5, Zenon DEF PublishRefused, Mine
    <3> HIDE DEF b
    <3>2. queue'[seg[c]] = [b EXCEPT !.min_consumer_seq_ = Minimum(b)]
      BY <1>1, <1>3, <3>1
    <3>3. /\ queue'[seg[c]].position = b.position
          /\ queue'[seg[c]].next_ = b.next_
          /\ queue'[seg[c]].min_consumer_seq_ = Minimum(b)
      BY <1>1, <3>2 DEF QueueType
    <3>4. /\ at = Len(received[c]) + 1 /\ b.next_ < at + RingSize
          /\ \A k \in 1 .. Len(received[c]) : received[c][k] = k
      BY DEF OnTime, b
    <3> QED
      BY <1>2, <2>3, <3>3, <3>4 DEF OnTime, Mine
  <2> QED
    BY <2>4, <2>5
<1> QED
  BY <1>4, <1>5

\* consume() takes the message the consumer is at.
LEMMA ConsumeOnTime ==
  ASSUME Base, NEW c \in punctual, seg[c] \notin disturbed, OnTime(c), Consume(c)
  PROVE  OnTime(c)'
<1> USE SharedMemoryAssumption
<1> DEFINE b == Mine(c)
           at == b.position[id[c]]
           m == Max(InSlot(c))
<1>1. /\ c \in Consumers /\ seg[c] \in Producers /\ id[c] \in ConsumerIds
      /\ b \in QueueType
  BY PunctualOwner
<1>2. at \in 0 .. N + 1 /\ b.next_ \in 0 .. N
  BY <1>1 DEF QueueType
<1>3. m \in 1 .. b.next_ /\ (m - at) % RingSize = 0 /\ m >= at
  BY <1>1, ConsumeStep DEF InSlot
<1>4. b.next_ < at + RingSize /\ at = Len(received[c]) + 1
  BY DEF OnTime
<1>5. m = at
  <2> HIDE DEF at, m, b
  <2>1. m - at \in 0 .. RingSize - 1
    BY <1>2, <1>3, <1>4
  <2>2. (m - at) % RingSize = m - at
    BY <2>1
  <2> QED
    BY <1>2, <1>3, <2>2
<1>6. /\ received[c] \in Seq(1 .. N) /\ received \in [Consumers -> Seq(1 .. N)]
      /\ queue \in [Producers -> QueueType]
  BY <1>1 DEF Base, TypeOK, QueueType
<1>7. /\ received'[c] = Append(received[c], at)
      /\ UNCHANGED <<seg, id>>
  BY <1>1, <1>5, <1>6 DEF Consume
<1>8. queue'[seg[c]] = [b EXCEPT !.position[id[c]] = at + 1]
  BY <1>1, <1>6 DEF Consume, Mine
<1>9. /\ queue'[seg[c]].position[id[c]] = at + 1
      /\ queue'[seg[c]].next_ = b.next_
      /\ queue'[seg[c]].min_consumer_seq_ = b.min_consumer_seq_
  <2> HIDE DEF b
  <2> QED
    BY <1>1, <1>8 DEF QueueType
<1>10. b.min_consumer_seq_ <= at \/ Full(b.next_ + 1, b.min_consumer_seq_)
  BY DEF OnTime
<1>11. b.min_consumer_seq_ \in Nat
  BY <1>1 DEF QueueType
<1>12. \A k \in 1 .. Len(received[c]) : received[c][k] = k
  BY DEF OnTime
<1> HIDE DEF b, at
<1>13. /\ Len(received'[c]) = at + 1 - 1
       /\ \A k \in 1 .. Len(received'[c]) : received'[c][k] = k
  BY <1>2, <1>4, <1>6, <1>7, <1>12
<1>14. at + 1 = Len(received'[c]) + 1
  BY <1>2, <1>13
<1>15. b.next_ < at + 1 + RingSize /\ (b.min_consumer_seq_ <= at => b.min_consumer_seq_ <= at + 1)
  BY <1>2, <1>4, <1>11
<1> QED
  BY <1>7, <1>9, <1>10, <1>13, <1>14, <1>15 DEF OnTime, Mine

\* A step that leaves the consumer and its slot alone.
LEMMA OthersOnTime ==
  ASSUME NEW c, OnTime(c),
         seg'[c] = seg[c], id'[c] = id[c], received'[c] = received[c],
         queue'[seg[c]].position[id[c]] = queue[seg[c]].position[id[c]],
         queue'[seg[c]].next_ = queue[seg[c]].next_,
         queue'[seg[c]].min_consumer_seq_ = queue[seg[c]].min_consumer_seq_
  PROVE  OnTime(c)'
  BY DEF OnTime, Mine

\* A process that ends takes no punctual consumer but itself with it.
LEMMA EndsOnTime ==
  ASSUME Base, AllOnTime, NEW q \in Processes, NEW from, NEW how, Ends(q, from, how),
         UNCHANGED <<queue, disturbed>>
  PROVE  AllOnTime'
<1> SUFFICES ASSUME NEW c \in punctual', seg'[c] \notin disturbed'
             PROVE  OnTime(c)'
  BY DEF AllOnTime
<1>1. c \in punctual /\ c # q /\ c \in Consumers /\ c \in Processes
  BY DEF Ends, Base, Books, Processes
<1>2. seg'[c] = seg[c] /\ id'[c] = id[c] /\ received'[c] = received[c]
  BY <1>1 DEF Ends, Base, TypeOK
<1>3. OnTime(c)
  BY <1>1, <1>2 DEF AllOnTime
<1> QED
  BY <1>2, <1>3, OthersOnTime

\* Every step keeps punctual consumers on time.
LEMMA OnTimeStep ==
  ASSUME Base, AllOnTime, [Next]_vars
  PROVE  AllOnTime'
<1> USE SharedMemoryAssumption
<1>0. queue \in [Producers -> QueueType] /\ seg \in [Processes -> Producers \cup {None}]
  BY DEF Base, TypeOK, QueueType
<1>1. ASSUME UNCHANGED <<queue, id, received, disturbed, punctual>>,
             \A c \in punctual : seg'[c] = seg[c]
      PROVE  AllOnTime'
  BY <1>1, OthersOnTime DEF AllOnTime
<1>2. ASSUME NEW q \in Processes, Manager(q)
      PROVE  AllOnTime'
  <2>1. CASE Open(q)
    <3>1. \A c \in punctual : seg'[c] = seg[c]
      BY <1>0, <2>1 DEF Open, Goto, Base, Books, Processes
    <3> QED
      BY <1>1, <2>1, <3>1 DEF Open, history
  <2>2. CASE Map(q) \/ EventFd(q)
    BY <1>1, <2>2 DEF Map, EventFd, shmVars, history
  <2>3. CASE OpenFails(q) \/ MapFails(q) \/ EventFdFails(q)
    BY <2>3, EndsOnTime DEF OpenFails, MapFails, EventFdFails, shmVars
  <2> QED
    BY <1>2, <2>1, <2>2, <2>3 DEF Manager
<1>3. ASSUME NEW p \in Producers, Truncate(p)
      PROVE  AllOnTime'
  BY <1>1, <1>3 DEF Truncate, history
<1>4. ASSUME NEW p \in Producers, TruncateFails(p) \/ DestroyProducer(p)
      PROVE  AllOnTime'
  BY <1>4, EndsOnTime DEF TruncateFails, DestroyProducer, Processes
<1>5. ASSUME NEW p \in Producers, Construct(p)
      PROVE  AllOnTime'
  <2> SUFFICES ASSUME NEW c \in punctual', seg'[c] \notin disturbed'
               PROVE  OnTime(c)'
    BY DEF AllOnTime
  <2>1. c \in punctual /\ UNCHANGED <<seg, id, received>> /\ seg[c] \notin disturbed
    BY <1>5 DEF Construct
  <2>2. c \in Claimants /\ seg[c] \in Producers
    BY <2>1, PunctualOwner
  <2>3. seg[c] # seg[p]
    BY <1>5, <2>1, <2>2 DEF Construct
  <2>4. queue'[seg[c]] = queue[seg[c]]
    BY <1>0, <1>5, <2>2, <2>3 DEF Construct
  <2> QED
    BY <2>1, <2>4, OthersOnTime DEF AllOnTime
<1>6. ASSUME NEW p \in Producers, Publish(p) \/ PublishRefused(p)
      PROVE  AllOnTime'
  <2>1. UNCHANGED <<seg, disturbed, punctual>>
    BY <1>6 DEF Publish, PublishRefused, procVars, history
  <2> QED
    BY <1>6, <2>1, PublishOnTime DEF AllOnTime
<1>7. ASSUME NEW d \in Consumers, BusError(d) \/ RegisterFails(d)
      PROVE  AllOnTime'
  BY <1>7, EndsOnTime DEF BusError, RegisterFails, shmVars, Processes
<1>8. ASSUME NEW d \in Consumers, CasLoses(d)
      PROVE  AllOnTime'
  <2> SUFFICES ASSUME NEW c \in punctual', seg'[c] \notin disturbed'
               PROVE  OnTime(c)'
    BY DEF AllOnTime
  <2>1. c \in punctual /\ UNCHANGED <<queue, seg, received, disturbed>>
    BY <1>8 DEF CasLoses, shmVars, history
  <2>2. id'[c] = id[c]
    BY <1>8, <2>1 DEF CasLoses, Base, TypeOK, Books
  <2> QED
    BY <2>1, <2>2, OthersOnTime DEF AllOnTime
<1>9. ASSUME NEW d \in Consumers, CasWins(d)
      PROVE  AllOnTime'
  <2>1. \A s \in Producers : /\ queue'[s].position = queue[s].position
                             /\ queue'[s].next_ = queue[s].next_
                             /\ queue'[s].min_consumer_seq_ = queue[s].min_consumer_seq_
    BY <1>0, <1>9 DEF CasWins, QueueType
  <2>2. UNCHANGED <<seg, id, received, disturbed, punctual>>
    BY <1>9 DEF CasWins, history
  <2>3. \A c \in punctual : seg[c] \notin disturbed => seg[c] \in Producers
    BY PunctualOwner
  <2> QED
    BY <2>1, <2>2, <2>3, OthersOnTime DEF AllOnTime
<1>10. ASSUME NEW d \in Consumers, SetPosition(d)
       PROVE  AllOnTime'
  <2> SUFFICES ASSUME NEW c \in punctual', seg'[c] \notin disturbed'
               PROVE  OnTime(c)'
    BY DEF AllOnTime
  <2>1. /\ UNCHANGED <<seg, id, received, disturbed>> /\ pc[d] = "claimed"
        /\ queue' = [queue EXCEPT ![seg[d]].position[id[d]] = 1]
    BY <1>10 DEF SetPosition, Goto
  <2>2. d \in Claimants /\ seg[d] \in Producers /\ id[d] \in ConsumerIds
    BY <2>1 DEF Claimants, Registered, Base, Orderly, Working, Processes
  <2>3. CASE c = d
    <3>1. d \notin punctual /\ received[d] = <<>>
      BY <2>1 DEF Base, Books
    <3>2. Mine(d).next_ = 0 /\ Mine(d) \in QueueType /\ Sane(Mine(d))
      BY <1>0, <1>10, <2>2, <2>3, <3>1 DEF SetPosition, Base, Mine
    <3>3. /\ queue'[seg[d]].position[id[d]] = 1
          /\ queue'[seg[d]].next_ = Mine(d).next_
          /\ queue'[seg[d]].min_consumer_seq_ = Mine(d).min_consumer_seq_
      BY <1>0, <2>1, <2>2 DEF Mine, QueueType
    <3>4. Mine(d).min_consumer_seq_ <= 1 \/ Full(0 + 1, Mine(d).min_consumer_seq_)
      BY <3>2 DEF Sane
    <3>5. Len(received[d]) = 0
      BY <3>1
    <3> QED
      BY <2>1, <2>3, <3>2, <3>3, <3>4, <3>5 DEF OnTime, Mine
  <2>4. CASE c # d
    <3>1. c \in punctual
      BY <1>10, <2>4 DEF SetPosition
    <3>2. /\ seg[c] \in Producers /\ id[c] \in ConsumerIds
          /\ ~(seg[d] = seg[c] /\ id[d] = id[c])
      BY <2>1, <2>2, <2>4, <3>1, PunctualOwner
    <3>3. /\ queue'[seg[c]].position[id[c]] = queue[seg[c]].position[id[c]]
          /\ queue'[seg[c]].next_ = queue[seg[c]].next_
          /\ queue'[seg[c]].min_consumer_seq_ = queue[seg[c]].min_consumer_seq_
      BY <1>0, <2>1, <2>2, <3>2 DEF QueueType
    <3> QED
      BY <2>1, <3>1, <3>3, OthersOnTime DEF AllOnTime
  <2> QED
    BY <2>3, <2>4
<1>11. ASSUME NEW d \in Consumers, Consume(d)
       PROVE  AllOnTime'
  <2> SUFFICES ASSUME NEW c \in punctual', seg'[c] \notin disturbed'
               PROVE  OnTime(c)'
    BY DEF AllOnTime
  <2>1. /\ UNCHANGED <<seg, id, disturbed, punctual>> /\ pc[d] = "running"
        /\ queue' = [queue EXCEPT ![seg[d]].position[id[d]] = @ + 1]
    BY <1>11 DEF Consume, history
  <2>2. d \in Claimants /\ seg[d] \in Producers /\ id[d] \in ConsumerIds
    BY <2>1 DEF Claimants, Registered, Base, Orderly, Working, Processes
  <2>3. OnTime(c)
    BY <2>1 DEF AllOnTime
  <2>4. CASE c = d
    BY <1>11, <2>1, <2>3, <2>4, ConsumeOnTime
  <2>5. CASE c # d
    <3>1. /\ seg[c] \in Producers /\ id[c] \in ConsumerIds /\ c \in Consumers
          /\ ~(seg[d] = seg[c] /\ id[d] = id[c])
      BY <2>1, <2>2, <2>5, PunctualOwner
    <3>2. /\ queue'[seg[c]].position[id[c]] = queue[seg[c]].position[id[c]]
          /\ queue'[seg[c]].next_ = queue[seg[c]].next_
          /\ queue'[seg[c]].min_consumer_seq_ = queue[seg[c]].min_consumer_seq_
      BY <1>0, <2>1, <2>2, <3>1 DEF QueueType
    <3>3. received'[c] = received[c]
      BY <1>11, <2>5, <3>1 DEF Consume, Base, TypeOK
    <3> QED
      BY <2>1, <2>3, <3>2, <3>3, OthersOnTime
  <2> QED
    BY <2>4, <2>5
<1>12. ASSUME NEW d \in Consumers, DestroyConsumer(d)
       PROVE  AllOnTime'
  <2> SUFFICES ASSUME NEW c \in punctual', seg'[c] \notin disturbed'
               PROVE  OnTime(c)'
    BY DEF AllOnTime
  <2>1. c \in punctual /\ c # d /\ c \in Consumers /\ c \in Processes /\ d \in Processes
    BY <1>12 DEF DestroyConsumer, Ends, Base, Books, Processes
  <2>2. /\ seg'[c] = seg[c] /\ id'[c] = id[c] /\ received'[c] = received[c]
        /\ disturbed' = disturbed
    BY <1>12, <2>1 DEF DestroyConsumer, Ends, Base, TypeOK
  <2>3. seg[c] \in Producers
    BY <2>1, <2>2, PunctualOwner
  <2>4. /\ queue'[seg[c]].position = queue[seg[c]].position
        /\ queue'[seg[c]].next_ = queue[seg[c]].next_
        /\ queue'[seg[c]].min_consumer_seq_ = queue[seg[c]].min_consumer_seq_
    BY <1>0, <1>12, <2>3 DEF DestroyConsumer, QueueType
  <2> QED
    BY <2>1, <2>2, <2>4, OthersOnTime DEF AllOnTime
<1>13. ASSUME NEW q \in Processes, Kill(q)
       PROVE  AllOnTime'
  BY <1>13, EndsOnTime DEF Kill, shmVars
<1>14. ASSUME Cleanup \/ UNCHANGED vars
       PROVE  AllOnTime'
  BY <1>1, <1>14 DEF Cleanup, vars, shmVars, procVars, history
<1> QED
  BY <1>2, <1>3, <1>4, <1>5, <1>6, <1>7, <1>8, <1>9, <1>10, <1>11, <1>12, <1>13, <1>14
     DEF Next, Producer, Consumer, AllEnded, Processes, ConsumeEmpty

-----------------------------------------------------------------------------

\* The fields of the queue in every segment, the loop counters, slot numbers and
\* results of the processes, and the kernel's state keep their types.
THEOREM SegmentTypeCorrect == Spec => []TypeOK
<1>1. Base => TypeOK
  BY DEF Base
<1> QED
  BY <1>1, BaseInvariance, PTL

\* consume() gives a consumer that registered before the first publish(), in a
\* segment whose construction met no registration, every message once and in
\* order, whatever other processes fail, die, restart or unlink.
THEOREM PunctualDelivery == Spec => []PunctualInOrder
<1>1. Init => AllOnTime
  BY DEF Init, AllOnTime
<1>2. Base /\ AllOnTime /\ [Next]_vars => AllOnTime'
  BY OnTimeStep
<1>3. Base /\ AllOnTime => PunctualInOrder
  <2> SUFFICES ASSUME Base, AllOnTime, NEW c \in punctual, seg[c] \notin disturbed,
                      NEW k \in DOMAIN received[c]
               PROVE  received[c][k] = k
    BY DEF PunctualInOrder
  <2>1. received[c] \in Seq(1 .. N)
    BY PunctualOwner DEF Base, TypeOK
  <2>2. k \in 1 .. Len(received[c])
    BY <2>1
  <2> QED
    BY <2>2 DEF AllOnTime, OnTime
<1> QED
  BY <1>1, <1>2, <1>3, BaseInvariance, PTL DEF Spec

=============================================================================
