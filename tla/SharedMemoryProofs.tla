------------------------- MODULE SharedMemoryProofs -------------------------
(***************************************************************************)
(* Safety of the life of the segment, for any number of producers,         *)
(* consumers and slots, and any processes that fail or are killed.         *)
(***************************************************************************)
EXTENDS SharedMemory, TLAPS

Working == {"opened", "sized", "mapped", "zeroed", "built", "ready"} \cup Registered

\* What a process holds when it is at label l.
Holds(l) ==
  IF l \in {"opened", "sized"} THEN {"fd"}
  ELSE IF l \in {"mapped", "zeroed", "built"} THEN {"map"}
  ELSE IF l \in {"ready"} \cup Registered THEN {"map", "efd"}
  ELSE {}

\* As much of TypeOK as the argument needs.
Shape ==
  /\ name \in Producers \cup {None} /\ sized \subseteq Producers
  /\ DOMAIN queue = Producers
  /\ \A s \in Producers : /\ {"active", "position"} \subseteq DOMAIN queue[s]
                           /\ queue[s].active \in [ConsumerIds -> BOOLEAN]
  /\ pc \in [Processes -> Ended \cup Working \cup {"start"}]
  /\ seg \in [Processes -> Producers \cup {None}]
  /\ held \in [Processes -> SUBSET {"fd", "map", "efd"}]
  /\ id \in [Consumers -> Nat]

\* A process at work has a segment, is the only producer if it is one, and has
\* a slot number if it is registered.
Orderly ==
  /\ \A q \in Processes : pc[q] \in Working => seg[q] \in Producers
  /\ \A p, r \in Producers : pc[p] \in Working /\ pc[r] \in Working => p = r
  /\ \A c \in Claimants : id[c] \in ConsumerIds

\* A process holds what its label says.
HoldsItsOwn == \A q \in Processes : held[q] = Holds(pc[q])

\* Every step keeps the shape of the variables.
LEMMA ShapeStep ==
  ASSUME Shape, Orderly, [Next]_vars
  PROVE  Shape'
<1> USE SharedMemoryAssumption DEF shmVars, procVars, history, Goto, Processes,
         Ended, Registered, Working, Shape, Orderly
<1>1. ASSUME NEW q \in Processes, Open(q) \/ OpenFails(q) \/ Map(q) \/
            MapFails(q) \/ EventFd(q) \/ EventFdFails(q)
     PROVE  Shape'
  <2>1. CASE Open(q)
    BY <2>1 DEF Open, Keeps
  <2>2. CASE OpenFails(q)
    BY <2>2 DEF OpenFails, Ends
  <2>3. CASE Map(q)
    BY <2>3 DEF Map, MapsFrom, Keeps
  <2>4. CASE MapFails(q)
    BY <2>4 DEF MapFails, MapsFrom, Ends, Keeps, UnlinkIfOwner
  <2>5. CASE EventFd(q)
    BY <2>5 DEF EventFd, MakesEventFrom, Keeps
  <2>6. CASE EventFdFails(q)
    BY <2>6 DEF EventFdFails, MakesEventFrom, Ends, Keeps, UnlinkIfOwner
  <2> QED
    BY <1>1, <2>1, <2>2, <2>3, <2>4, <2>5, <2>6
<1>2. ASSUME NEW p \in Producers, Truncate(p) \/ TruncateFails(p) \/
            Construct(p) \/ Publish(p) \/ PublishRefused(p) \/
            DestroyProducer(p)
     PROVE  Shape'
  <2>1. CASE Truncate(p)
    BY <2>1 DEF Truncate
  <2>2. CASE TruncateFails(p)
    BY <2>2 DEF TruncateFails, Ends, Keeps, UnlinkIfOwner
  <2>3. CASE Construct(p)
    BY <2>3 DEF Construct, Blank
  <2>4. CASE Publish(p)
    BY <2>4 DEF Publish
  <2>5. CASE PublishRefused(p)
    BY <2>5 DEF PublishRefused
  <2>6. CASE DestroyProducer(p)
    BY <2>6 DEF DestroyProducer, Ends, Keeps, UnlinkIfOwner
  <2> QED
    BY <1>2, <2>1, <2>2, <2>3, <2>4, <2>5, <2>6
<1>3. ASSUME NEW c \in Consumers, BusError(c) \/ CasWins(c) \/ CasLoses(c) \/
            RegisterFails(c) \/ SetPosition(c) \/ Consume(c) \/ ConsumeEmpty(c)
            \/ DestroyConsumer(c)
     PROVE  Shape'
  <2>1. CASE BusError(c)
    BY <2>1 DEF BusError, Ends, Keeps
  <2>2. CASE CasWins(c)
    BY <2>2 DEF CasWins, Mine
  <2>3. CASE CasLoses(c)
    BY <2>3 DEF CasLoses
  <2>4. CASE RegisterFails(c)
    BY <2>4 DEF RegisterFails, Ends, Keeps
  <2>5. CASE SetPosition(c)
    BY <2>5 DEF SetPosition
  <2>6. CASE Consume(c)
    BY <2>6 DEF Consume
  <2>7. CASE ConsumeEmpty(c)
    BY <2>7 DEF ConsumeEmpty, vars
  <2>8. CASE DestroyConsumer(c)
    BY <2>8 DEF DestroyConsumer, Ends, Keeps, UnlinkIfOwner
  <2> QED
    BY <1>3, <2>1, <2>2, <2>3, <2>4, <2>5, <2>6, <2>7, <2>8
<1>4. ASSUME NEW q \in Processes, Kill(q)
     PROVE  Shape'
  BY <1>4 DEF Kill, Ends, Keeps
<1>5. CASE Cleanup
  BY <1>5 DEF Cleanup
<1>6. CASE UNCHANGED vars
  BY <1>6 DEF vars
<1> QED
  BY <1>1, <1>2, <1>3, <1>4, <1>5, <1>6
     DEF Next, Producer, Consumer, Manager, AllEnded, Processes

\* Every step keeps the processes in order: a producer starts only when no
\* other is at work.
LEMMA OrderlyStep ==
  ASSUME Shape, Orderly, [Next]_vars
  PROVE  Orderly'
<1> USE SharedMemoryAssumption DEF shmVars, procVars, history, Goto, Processes,
         Ended, Registered, Working, Shape, Orderly, Claimants, ConsumerIds,
         Alone
<1>1. ASSUME NEW q \in Processes, Open(q) \/ OpenFails(q) \/ Map(q) \/
            MapFails(q) \/ EventFd(q) \/ EventFdFails(q)
     PROVE  Orderly'
  <2>1. CASE Open(q)
    <3>1. /\ seg'[q] \in Producers
          /\ pc' = [pc EXCEPT ![q] = "opened"]
          /\ \A r \in Processes \ {q} : seg'[r] = seg[r]
          /\ UNCHANGED id
      BY <2>1 DEF Open
    <3>2. q \in Producers => \A r \in Producers \ {q} : pc[r] \notin Working
      BY <2>1 DEF Open
    <3>3. \A r \in Processes : pc'[r] \in Working => seg'[r] \in Producers
      BY <3>1
    <3>4. \A p, r \in Producers : pc'[p] \in Working /\ pc'[r] \in Working => p = r
      BY <3>1, <3>2
    <3>5. Claimants' \subseteq Claimants
      BY <3>1
    <3> QED
      BY <3>1, <3>3, <3>4, <3>5
  <2>2. CASE OpenFails(q)
    BY <2>2 DEF OpenFails, Ends
  <2>3. CASE Map(q)
    BY <2>3 DEF Map, MapsFrom, Keeps
  <2>4. CASE MapFails(q)
    BY <2>4 DEF MapFails, MapsFrom, Ends, Keeps, UnlinkIfOwner
  <2>5. CASE EventFd(q)
    BY <2>5 DEF EventFd, MakesEventFrom, Keeps
  <2>6. CASE EventFdFails(q)
    BY <2>6 DEF EventFdFails, MakesEventFrom, Ends, Keeps, UnlinkIfOwner
  <2> QED
    BY <1>1, <2>1, <2>2, <2>3, <2>4, <2>5, <2>6
<1>2. ASSUME NEW p \in Producers, Truncate(p) \/ TruncateFails(p) \/
            Construct(p) \/ Publish(p) \/ PublishRefused(p) \/
            DestroyProducer(p)
     PROVE  Orderly'
  <2>1. CASE Truncate(p)
    BY <2>1 DEF Truncate
  <2>2. CASE TruncateFails(p)
    BY <2>2 DEF TruncateFails, Ends, Keeps, UnlinkIfOwner
  <2>3. CASE Construct(p)
    BY <2>3 DEF Construct, Blank
  <2>4. CASE Publish(p)
    BY <2>4 DEF Publish
  <2>5. CASE PublishRefused(p)
    BY <2>5 DEF PublishRefused
  <2>6. CASE DestroyProducer(p)
    BY <2>6 DEF DestroyProducer, Ends, Keeps, UnlinkIfOwner
  <2> QED
    BY <1>2, <2>1, <2>2, <2>3, <2>4, <2>5, <2>6
<1>3. ASSUME NEW c \in Consumers, BusError(c) \/ CasWins(c) \/ CasLoses(c) \/
            RegisterFails(c) \/ SetPosition(c) \/ Consume(c) \/ ConsumeEmpty(c)
            \/ DestroyConsumer(c)
     PROVE  Orderly'
  <2>1. CASE BusError(c)
    BY <2>1 DEF BusError, Ends, Keeps
  <2>2. CASE CasWins(c)
    BY <2>2 DEF CasWins, Mine
  <2>3. CASE CasLoses(c)
    BY <2>3 DEF CasLoses
  <2>4. CASE RegisterFails(c)
    BY <2>4 DEF RegisterFails, Ends, Keeps
  <2>5. CASE SetPosition(c)
    BY <2>5 DEF SetPosition
  <2>6. CASE Consume(c)
    BY <2>6 DEF Consume
  <2>7. CASE ConsumeEmpty(c)
    BY <2>7 DEF ConsumeEmpty, vars
  <2>8. CASE DestroyConsumer(c)
    BY <2>8 DEF DestroyConsumer, Ends, Keeps, UnlinkIfOwner
  <2> QED
    BY <1>3, <2>1, <2>2, <2>3, <2>4, <2>5, <2>6, <2>7, <2>8
<1>4. ASSUME NEW q \in Processes, Kill(q)
     PROVE  Orderly'
  BY <1>4 DEF Kill, Ends, Keeps
<1>5. CASE Cleanup
  BY <1>5 DEF Cleanup
<1>6. CASE UNCHANGED vars
  BY <1>6 DEF vars
<1> QED
  BY <1>1, <1>2, <1>3, <1>4, <1>5, <1>6
     DEF Next, Producer, Consumer, Manager, AllEnded, Processes

\* Every step keeps what the processes hold in line with where they are.
LEMMA HoldsStep ==
  ASSUME Shape, HoldsItsOwn, [Next]_vars
  PROVE  HoldsItsOwn'
<1> USE SharedMemoryAssumption DEF shmVars, procVars, history, Goto, Processes,
         Ended, Registered, Shape, HoldsItsOwn, Holds
<1>1. ASSUME NEW q \in Processes, Open(q) \/ OpenFails(q) \/ Map(q) \/
            MapFails(q) \/ EventFd(q) \/ EventFdFails(q)
     PROVE  HoldsItsOwn'
  <2>1. CASE Open(q)
    BY <2>1 DEF Open, Keeps
  <2>2. CASE OpenFails(q)
    BY <2>2 DEF OpenFails, Ends
  <2>3. CASE Map(q)
    BY <2>3 DEF Map, MapsFrom, Keeps
  <2>4. CASE MapFails(q)
    BY <2>4 DEF MapFails, MapsFrom, Ends, Keeps, UnlinkIfOwner
  <2>5. CASE EventFd(q)
    BY <2>5 DEF EventFd, MakesEventFrom, Keeps
  <2>6. CASE EventFdFails(q)
    BY <2>6 DEF EventFdFails, MakesEventFrom, Ends, Keeps, UnlinkIfOwner
  <2> QED
    BY <1>1, <2>1, <2>2, <2>3, <2>4, <2>5, <2>6
<1>2. ASSUME NEW p \in Producers, Truncate(p) \/ TruncateFails(p) \/
            Construct(p) \/ Publish(p) \/ PublishRefused(p) \/
            DestroyProducer(p)
     PROVE  HoldsItsOwn'
  <2>1. CASE Truncate(p)
    BY <2>1 DEF Truncate
  <2>2. CASE TruncateFails(p)
    BY <2>2 DEF TruncateFails, Ends, Keeps, UnlinkIfOwner
  <2>3. CASE Construct(p)
    BY <2>3 DEF Construct, Blank
  <2>4. CASE Publish(p)
    BY <2>4 DEF Publish
  <2>5. CASE PublishRefused(p)
    BY <2>5 DEF PublishRefused
  <2>6. CASE DestroyProducer(p)
    BY <2>6 DEF DestroyProducer, Ends, Keeps, UnlinkIfOwner
  <2> QED
    BY <1>2, <2>1, <2>2, <2>3, <2>4, <2>5, <2>6
<1>3. ASSUME NEW c \in Consumers, BusError(c) \/ CasWins(c) \/ CasLoses(c) \/
            RegisterFails(c) \/ SetPosition(c) \/ Consume(c) \/ ConsumeEmpty(c)
            \/ DestroyConsumer(c)
     PROVE  HoldsItsOwn'
  <2>1. CASE BusError(c)
    BY <2>1 DEF BusError, Ends, Keeps
  <2>2. CASE CasWins(c)
    BY <2>2 DEF CasWins, Mine
  <2>3. CASE CasLoses(c)
    BY <2>3 DEF CasLoses
  <2>4. CASE RegisterFails(c)
    BY <2>4 DEF RegisterFails, Ends, Keeps
  <2>5. CASE SetPosition(c)
    BY <2>5 DEF SetPosition
  <2>6. CASE Consume(c)
    BY <2>6 DEF Consume
  <2>7. CASE ConsumeEmpty(c)
    BY <2>7 DEF ConsumeEmpty, vars
  <2>8. CASE DestroyConsumer(c)
    BY <2>8 DEF DestroyConsumer, Ends, Keeps, UnlinkIfOwner
  <2> QED
    BY <1>3, <2>1, <2>2, <2>3, <2>4, <2>5, <2>6, <2>7, <2>8
<1>4. ASSUME NEW q \in Processes, Kill(q)
     PROVE  HoldsItsOwn'
  BY <1>4 DEF Kill, Ends, Keeps
<1>5. CASE Cleanup
  BY <1>5 DEF Cleanup
<1>6. CASE UNCHANGED vars
  BY <1>6 DEF vars
<1> QED
  BY <1>1, <1>2, <1>3, <1>4, <1>5, <1>6
     DEF Next, Producer, Consumer, Manager, AllEnded, Processes

\* SlotsOwned, slot by slot.
SlotOwners ==
  \A s \in Producers \ disturbed :
    /\ \A k \in ConsumerIds :
         queue[s].active[k] <=> \/ \E c \in Claimants : seg[c] = s /\ id[c] = k
                                \/ <<s, k>> \in orphans
    /\ \A c \in Claimants : seg[c] = s => <<s, id[c]>> \notin orphans
    /\ \A c, d \in Claimants : seg[c] = s /\ seg[d] = s /\ id[c] = id[d] => c = d

\* A step that touches neither the consumer table nor who is registered where.
Quiet ==
  /\ \A s \in Producers : queue'[s].active = queue[s].active
  /\ UNCHANGED <<disturbed, orphans>>
  /\ \A c \in Consumers : pc'[c] \in Registered <=> pc[c] \in Registered
  /\ \A c \in Claimants : seg'[c] = seg[c] /\ id'[c] = id[c]

\* A quiet step leaves the slots with their owners.
LEMMA QuietStep ==
  ASSUME Shape, SlotOwners, Quiet
  PROVE  SlotOwners'
<1>1. Claimants' = Claimants
  BY DEF Quiet, Claimants
<1> QED
  BY <1>1 DEF Quiet, SlotOwners, Claimants

\* Only winning a slot, leaving it, constructing the queue and dying change who
\* owns what, and they keep the books.
LEMMA SlotsStep ==
  ASSUME Shape, Orderly, SlotOwners, [Next]_vars
  PROVE  SlotOwners'
<1> USE SharedMemoryAssumption DEF shmVars, procVars, history, Goto, Processes,
         Ended, Registered, Working, Shape, Claimants
<1>1. ASSUME NEW q \in Processes, Open(q) \/ OpenFails(q) \/ Map(q) \/
            MapFails(q) \/ EventFd(q) \/ EventFdFails(q)
     PROVE  Quiet
  <2>1. CASE Open(q)
    BY <2>1 DEF Quiet, Open, Keeps
  <2>2. CASE OpenFails(q)
    BY <2>2 DEF Quiet, OpenFails, Ends
  <2>3. CASE Map(q)
    BY <2>3 DEF Quiet, Map, MapsFrom, Keeps
  <2>4. CASE MapFails(q)
    BY <2>4 DEF Quiet, MapFails, MapsFrom, Ends, Keeps, UnlinkIfOwner
  <2>5. CASE EventFd(q)
    BY <2>5 DEF Quiet, EventFd, MakesEventFrom, Keeps
  <2>6. CASE EventFdFails(q)
    BY <2>6 DEF Quiet, EventFdFails, MakesEventFrom, Ends, Keeps, UnlinkIfOwner
  <2> QED
    BY <1>1, <2>1, <2>2, <2>3, <2>4, <2>5, <2>6
<1>2. ASSUME NEW p \in Producers, Truncate(p) \/ TruncateFails(p) \/ Publish(p)
            \/ PublishRefused(p) \/ DestroyProducer(p)
     PROVE  Quiet
  <2>1. CASE Truncate(p)
    BY <2>1 DEF Quiet, Truncate
  <2>2. CASE TruncateFails(p)
    BY <2>2 DEF Quiet, TruncateFails, Ends, Keeps, UnlinkIfOwner
  <2>3. CASE Publish(p)
    BY <2>3 DEF Quiet, Publish, Orderly
  <2>4. CASE PublishRefused(p)
    BY <2>4 DEF Quiet, PublishRefused, Orderly
  <2>5. CASE DestroyProducer(p)
    BY <2>5 DEF Quiet, DestroyProducer, Ends, Keeps, UnlinkIfOwner
  <2> QED
    BY <1>2, <2>1, <2>2, <2>3, <2>4, <2>5
<1>3. ASSUME NEW c \in Consumers, BusError(c) \/ CasLoses(c) \/
            RegisterFails(c) \/ SetPosition(c) \/ Consume(c) \/ ConsumeEmpty(c)
     PROVE  Quiet
  <2>1. CASE BusError(c)
    BY <2>1 DEF Quiet, BusError, Ends, Keeps
  <2>2. CASE CasLoses(c)
    BY <2>2 DEF Quiet, CasLoses
  <2>3. CASE RegisterFails(c)
    BY <2>3 DEF Quiet, RegisterFails, Ends, Keeps
  <2>4. CASE SetPosition(c)
    BY <2>4 DEF Quiet, SetPosition, Orderly
  <2>5. CASE Consume(c)
    BY <2>5 DEF Quiet, Consume, Orderly
  <2>6. CASE ConsumeEmpty(c)
    BY <2>6 DEF Quiet, ConsumeEmpty, vars
  <2> QED
    BY <1>3, <2>1, <2>2, <2>3, <2>4, <2>5, <2>6
<1>4. CASE Cleanup \/ UNCHANGED vars
  BY <1>4, QuietStep DEF Cleanup, vars, Quiet
<1>5. ASSUME NEW p \in Producers, Construct(p)
     PROVE  SlotOwners'
  <2>1. seg[p] \in Producers /\ Claimants' = Claimants /\ UNCHANGED <<seg, id>>
    BY <1>5 DEF Construct, Orderly
  <2>2. ASSUME NEW s \in Producers, s # seg[p]
        PROVE  queue'[s] = queue[s]
    BY <1>5, <2>2 DEF Construct
  <2>3. \A k \in ConsumerIds : ~queue'[seg[p]].active[k]
    BY <1>5, <2>1 DEF Construct, Blank
  <2> QED
    BY <1>5, <2>1, <2>2, <2>3 DEF Construct, SlotOwners
<1>6. ASSUME NEW c \in Consumers, CasWins(c)
     PROVE  SlotOwners'
  <2>1. /\ seg[c] \in Producers /\ id[c] \in ConsumerIds /\ ~queue[seg[c]].active[id[c]]
        /\ c \notin Claimants /\ Claimants' = Claimants \cup {c}
        /\ UNCHANGED <<seg, id, disturbed, orphans>>
    BY <1>6 DEF CasWins, Mine, ConsumerIds
  <2>2. \A s \in Producers, k \in ConsumerIds :
          queue'[s].active[k] <=> queue[s].active[k] \/ (s = seg[c] /\ k = id[c])
    BY <1>6, <2>1 DEF CasWins
  <2> HIDE DEF Claimants, Shape
  <2>3. seg[c] \notin disturbed =>
          /\ <<seg[c], id[c]>> \notin orphans
          /\ \A d \in Claimants : seg[d] = seg[c] => id[d] # id[c]
    BY <2>1 DEF SlotOwners
  <2>4. ASSUME NEW s \in Producers \ disturbed, NEW k \in ConsumerIds
        PROVE  queue'[s].active[k] <=> \/ \E d \in Claimants' : seg[d] = s /\ id[d] = k
                                       \/ <<s, k>> \in orphans
    BY <2>1, <2>2 DEF SlotOwners
  <2> QED
    BY <2>1, <2>3, <2>4 DEF SlotOwners
<1>7. ASSUME NEW c \in Consumers, DestroyConsumer(c)
     PROVE  SlotOwners'
  <2>1. /\ c \in Claimants /\ Claimants' = Claimants \ {c}
        /\ seg[c] \in Producers /\ id[c] \in ConsumerIds
        /\ \A d \in Claimants \ {c} : seg'[d] = seg[d] /\ id'[d] = id[d]
        /\ UNCHANGED <<disturbed, orphans>>
    BY <1>7 DEF DestroyConsumer, Ends, Orderly
  <2>2. \A s \in Producers, k \in ConsumerIds :
          queue'[s].active[k] <=> queue[s].active[k] /\ ~(s = seg[c] /\ k = id[c])
    BY <1>7, <2>1 DEF DestroyConsumer
  <2> HIDE DEF Claimants, Shape
  <2> QED
    BY <2>1, <2>2 DEF SlotOwners
<1>8. ASSUME NEW q \in Processes, Kill(q)
     PROVE  SlotOwners'
  <2>1. /\ Claimants' = Claimants \ {q}
        /\ \A d \in Claimants \ {q} : seg'[d] = seg[d] /\ id'[d] = id[d]
        /\ UNCHANGED <<queue, disturbed>>
    BY <1>8 DEF Kill, Ends
  <2>2. CASE q \in Claimants
    <3>1. /\ orphans' = orphans \cup {<<seg[q], id[q]>>}
          /\ id[q] \in ConsumerIds
      BY <1>8, <2>2 DEF Kill, Orderly
    <3> HIDE DEF Claimants, Shape
    <3> QED
      BY <2>1, <2>2, <3>1 DEF SlotOwners
  <2>3. CASE q \notin Claimants
    <3>1. orphans' = orphans
      BY <1>8, <2>3 DEF Kill
    <3> QED
      BY <2>1, <2>3, <3>1 DEF SlotOwners
  <2> QED
    BY <2>2, <2>3
<1> QED
  BY <1>1, <1>2, <1>3, <1>4, <1>5, <1>6, <1>7, <1>8, QuietStep
     DEF Next, Producer, Consumer, Manager, AllEnded

\* The inductive invariant holds throughout.
LEMMA Invariance == Spec => [](Shape /\ Orderly /\ HoldsItsOwn /\ SlotOwners)
<1>1. ASSUME Init
      PROVE  Shape /\ Orderly /\ HoldsItsOwn /\ SlotOwners
  <2>1. Shape
    BY <1>1, SharedMemoryAssumption DEF Init, Shape, Blank, Processes
  <2>2. Claimants = {} /\ \A q \in Processes : pc[q] = "start" /\ held[q] = {}
    BY <1>1 DEF Init, Claimants, Registered, Processes
  <2>3. Orderly
    BY <2>2 DEF Orderly, Working, Registered, Processes
  <2>4. HoldsItsOwn
    BY <2>2 DEF HoldsItsOwn, Holds, Registered
  <2>5. \A s \in Producers, k \in ConsumerIds : ~queue[s].active[k]
    BY <1>1 DEF Init, Blank
  <2>6. SlotOwners
    BY <1>1, <2>2, <2>5 DEF Init, SlotOwners
  <2> QED
    BY <2>1, <2>3, <2>4, <2>6
<1>2. Shape /\ Orderly /\ HoldsItsOwn /\ SlotOwners /\ [Next]_vars
        => (Shape /\ Orderly /\ HoldsItsOwn /\ SlotOwners)'
  BY ShapeStep, OrderlyStep, HoldsStep, SlotsStep
<1> QED
  BY <1>1, <1>2, PTL DEF Spec

-----------------------------------------------------------------------------

\* Every way out of the constructor of SharedMemoryManager and of the
\* destructors gives back what was acquired.
THEOREM ResourcesReturned == Spec => []NothingLeaked
<1>1. Shape /\ HoldsItsOwn => NothingLeaked
  BY DEF Shape, HoldsItsOwn, NothingLeaked, Holds, Registered
<1> QED
  BY <1>1, Invariance, PTL

\* In a segment where no construction met a registration, register_consumer()
\* and unregister_consumer() keep one owner per slot, dead owners included.
THEOREM SlotsKeepOwners == Spec => []SlotsOwned
<1>1. ASSUME Orderly, SlotOwners
      PROVE  SlotsOwned
  BY <1>1 DEF Orderly, SlotOwners, SlotsOwned
<1> QED
  BY <1>1, Invariance, PTL

\* Only the producer at work in a segment, or the cleanup command, takes its name
\* away: shm_unlink() of a failing or ending manager never hits another's.
THEOREM OwnerUnlinks == Spec => NameKept
<1> DEFINE Kept == \A p \in Producers :
             pc[p] \notin Ended \cup {"start"} /\ name = seg[p] /\ name' # name =>
               pc'[p] \in {"failed", "done"} \/ Cleanup
<1>1. ASSUME Shape, Orderly, [Next]_vars
      PROVE  Kept \/ UNCHANGED vars
  <2> SUFFICES ASSUME NEW p \in Producers, pc[p] \notin Ended \cup {"start"},
                      name = seg[p], name' # name
               PROVE  pc'[p] \in {"failed", "done"} \/ Cleanup
    OBVIOUS
  <2>1. pc[p] \in Working /\ seg[p] \in Producers /\ name # None
    BY <1>1, SharedMemoryAssumption DEF Shape, Orderly, Processes, Ended
  <2>2. ASSUME NEW q \in Producers, pc[q] \in Working, pc'[q] \in {"failed", "done"}
        PROVE  pc'[p] \in {"failed", "done"}
    BY <1>1, <2>1, <2>2 DEF Orderly
  <2>3. ASSUME NEW q \in Processes, Manager(q)
        PROVE  q \in Producers /\ pc[q] \in Working /\ pc'[q] \in {"failed", "done"}
    BY <1>1, <2>1, <2>3 DEF Manager, Open, OpenFails, Map, MapFails, EventFd,
       EventFdFails, UnlinkIfOwner, Ends, Goto, MapsFrom, MakesEventFrom, Working,
       Shape, shmVars
  <2>4. ASSUME NEW q \in Producers, Producer(q)
        PROVE  pc[q] \in Working /\ pc'[q] \in {"failed", "done"}
    BY <1>1, <2>3, <2>4 DEF Producer, Truncate, TruncateFails, Construct, Publish,
       PublishRefused, DestroyProducer, Ends, Goto, Working, Shape, Processes
  <2>5. ASSUME NEW c \in Consumers, Consumer(c)
        PROVE  FALSE
    BY <2>3, <2>5, SharedMemoryAssumption DEF Consumer, BusError, CasWins, CasLoses,
       RegisterFails, SetPosition, Consume, ConsumeEmpty, DestroyConsumer,
       UnlinkIfOwner, Processes, shmVars, vars
  <2>6. ~(\E q \in Processes : Kill(q)) /\ ~AllEnded /\ ~UNCHANGED vars
    BY DEF Kill, AllEnded, vars, shmVars
  <2> QED
    BY <1>1, <2>2, <2>4, <2>5, <2>6 DEF Next
<1> QED
  BY <1>1, Invariance, PTL DEF Spec, NameKept

=============================================================================
