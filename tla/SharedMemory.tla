---------------------------- MODULE SharedMemory ----------------------------
(***************************************************************************)
(* The life of the shared memory segment in the multi-process program      *)
(* (SharedMemoryManager.h, the constructors and destructors of Producer    *)
(* and Consumer, main.cpp): producers and consumers open, size, map,       *)
(* construct, attach to, leave and unlink it, system calls fail, processes *)
(* are killed, a producer is started again, and the cleanup command runs.  *)
(*                                                                         *)
(* A segment is named after the producer that created it; unlinked, it     *)
(* lives on in the processes that have mapped it.  publish() and consume() *)
(* are single steps here (SpmcQueue takes them apart), registration is     *)
(* step by step.  The ring itself is left out: which message a slot holds  *)
(* follows from next_.                                                     *)
(***************************************************************************)
EXTENDS Integers, Sequences, FiniteSetsExt

CONSTANTS
  Producers,     \* runs of the producer program, one after the other
  Consumers,     \* consumer processes
  MaxConsumers,  \* consumer slots
  RingSize,      \* kRingSize
  Word,          \* 2^64 in the code
  N,             \* kTotalMessages
  Faulty,        \* processes whose system calls may fail
  Mortal,        \* processes that may be killed
  None           \* no segment

ASSUME SharedMemoryAssumption ==
  /\ Producers \cap Consumers = {} /\ None \notin Producers
  /\ MaxConsumers \in Nat \ {0} /\ RingSize \in Nat \ {0} /\ N \in Nat
  /\ Word \in Nat /\ N + RingSize + 1 < Word

VARIABLES
  name,       \* the segment kShmName refers to
  sized,      \* segments that have their size
  queue,      \* the queue in each segment
  pc,         \* where each process is
  seg,        \* the segment each process has opened
  held,       \* what the manager of each process holds
  i,          \* message each producer's loop is at
  id,         \* register_consumer(): loop index, then the result
  received,   \* what each consumer has consumed
  disturbed,  \* history: segments in which construction met a registration
  punctual,   \* history: consumers that registered before the first message
  orphans     \* history: slots of killed consumers

shmVars  == <<name, sized, queue>>
procVars == <<pc, seg, held, i, id, received>>
history  == <<disturbed, punctual, orphans>>
vars     == <<shmVars, procVars, history>>

Processes   == Producers \cup Consumers
ConsumerIds == 0 .. MaxConsumers - 1
Ended       == {"failed", "done", "crashed"}
Registered  == {"claimed", "running"}
Claimants   == {c \in Consumers : pc[c] \in Registered}

\* Zeroed memory is an empty queue.
Blank ==
  [active   |-> [k \in ConsumerIds |-> FALSE],
   position |-> [k \in ConsumerIds |-> 0],
   next_    |-> 0,
   min_consumer_seq_ |-> 0]

Init ==
  /\ name = None
  /\ sized = {}
  /\ queue = [s \in Producers |-> Blank]
  /\ pc = [q \in Processes |-> "start"]
  /\ seg = [q \in Processes |-> None]
  /\ held = [q \in Processes |-> {}]
  /\ i = [p \in Producers |-> 1]
  /\ id = [c \in Consumers |-> 0]
  /\ received = [c \in Consumers |-> <<>>]
  /\ disturbed = {} /\ punctual = {} /\ orphans = {}

-----------------------------------------------------------------------------
(* SharedMemoryManager(name, create), with create for the producers. *)

Goto(q, from, to) == pc[q] = from /\ pc' = [pc EXCEPT ![q] = to]

\* The process ends and forgets what it had in memory of its own.
Ends(q, from, how) ==
  /\ Goto(q, from, how)
  /\ seg' = [seg EXCEPT ![q] = None]
  /\ i' = [p \in Producers |-> IF p = q THEN 1 ELSE i[p]]
  /\ id' = [c \in Consumers |-> IF c = q THEN 0 ELSE id[c]]
  /\ received' = [c \in Consumers |-> IF c = q THEN <<>> ELSE received[c]]
  /\ punctual' = punctual \ {q}

Keeps(q, resources) == held' = [held EXCEPT ![q] = resources]

\* The owner's failures and its destructor unlink the name, whatever segment
\* it refers to by then.
UnlinkIfOwner(q) == name' = IF q \in Producers THEN None ELSE name

Alone(p) == \A r \in Producers \ {p} : pc[r] \in Ended \cup {"start"}

\* shm_open(): with O_CREAT, without O_EXCL, for a producer.
Open(q) ==
  /\ Goto(q, "start", "opened")
  /\ q \in Producers => Alone(q)
  /\ q \in Consumers => name # None
  /\ name' = IF name = None THEN q ELSE name
  /\ seg' = [seg EXCEPT ![q] = name']
  /\ Keeps(q, {"fd"})
  /\ UNCHANGED <<sized, queue, i, id, received, history>>

OpenFails(q) ==
  /\ q \in Faulty \/ (q \in Consumers /\ name = None)
  /\ q \in Producers => Alone(q)
  /\ Ends(q, "start", "failed")
  /\ UNCHANGED <<shmVars, held, disturbed, orphans>>

Truncate(p) ==
  /\ Goto(p, "opened", "sized")
  /\ sized' = sized \cup {seg[p]}
  /\ UNCHANGED <<name, queue, seg, held, i, id, received, history>>

TruncateFails_KeepsFd(p) ==
  /\ p \in Faulty
  /\ Ends(p, "opened", "failed")
  /\ UnlinkIfOwner(p)
  /\ UNCHANGED <<sized, queue, held, disturbed, orphans>>

TruncateFails(p) ==
  /\ p \in Faulty
  /\ Ends(p, "opened", "failed")
  /\ Keeps(p, held[p] \ {"fd"})
  /\ UnlinkIfOwner(p)
  /\ UNCHANGED <<sized, queue, disturbed, orphans>>

MapsFrom(q) == IF q \in Producers THEN "sized" ELSE "opened"

\* mmap() and close().
Map(q) ==
  /\ Goto(q, MapsFrom(q), "mapped")
  /\ Keeps(q, (held[q] \ {"fd"}) \cup {"map"})
  /\ UNCHANGED <<shmVars, seg, i, id, received, history>>

MapFails(q) ==
  /\ q \in Faulty
  /\ Ends(q, MapsFrom(q), "failed")
  /\ Keeps(q, held[q] \ {"fd"})
  /\ UnlinkIfOwner(q)
  /\ UNCHANGED <<sized, queue, disturbed, orphans>>

\* new (mapped_ptr_) LockFreePubSubQueue<T>(): value initialization zeroes the
\* whole object and then runs the initializers of its members, two passes of
\* plain writes that nothing orders with consumers at work in the segment.
\* Whoever is registered there is wiped out.
Construct(p) ==
  /\ Goto(p, "mapped", "zeroed") \/ Goto(p, "zeroed", "built")
  /\ queue' = [queue EXCEPT ![seg[p]] = Blank]
  /\ disturbed' = disturbed \cup
       {s \in {seg[p]} : \E c \in Claimants : seg[c] = s}
  /\ orphans' = {o \in orphans : o[1] # seg[p]}
  /\ UNCHANGED <<name, sized, seg, held, i, id, received, punctual>>

MakesEventFrom(q) == IF q \in Producers THEN "built" ELSE "mapped"

EventFd(q) ==
  /\ Goto(q, MakesEventFrom(q), "ready")
  /\ Keeps(q, held[q] \cup {"efd"})
  /\ UNCHANGED <<shmVars, seg, i, id, received, history>>

EventFdFails(q) ==
  /\ q \in Faulty
  /\ Ends(q, MakesEventFrom(q), "failed")
  /\ Keeps(q, held[q] \ {"map"})
  /\ UnlinkIfOwner(q)
  /\ UNCHANGED <<sized, queue, disturbed, orphans>>

-----------------------------------------------------------------------------
(* A consumer: register_consumer(1), run(kTotalMessages), ~Consumer(). *)

Mine(c) == queue[seg[c]]

\* The first access to a segment that has no size yet: SIGBUS.
BusError(c) ==
  /\ seg[c] \notin sized
  /\ Ends(c, "ready", "crashed")
  /\ Keeps(c, {})
  /\ UNCHANGED <<shmVars, disturbed, orphans>>

CasWins(c) ==
  /\ seg[c] \in sized
  /\ id[c] < MaxConsumers /\ ~Mine(c).active[id[c]]
  /\ Goto(c, "ready", "claimed")
  /\ queue' = [queue EXCEPT ![seg[c]].active[id[c]] = TRUE]
  /\ UNCHANGED <<name, sized, seg, held, i, id, received, history>>

CasLoses(c) ==
  /\ seg[c] \in sized
  /\ pc[c] = "ready"
  /\ id[c] < MaxConsumers /\ Mine(c).active[id[c]]
  /\ id' = [id EXCEPT ![c] = @ + 1]
  /\ UNCHANGED <<shmVars, pc, seg, held, i, received, history>>

\* All slots full: an exception that nothing catches ends the process, and what
\* the manager held with it.
RegisterFails(c) ==
  /\ id[c] = MaxConsumers
  /\ Ends(c, "ready", "failed")
  /\ Keeps(c, held[c] \ {"efd", "map"})
  /\ UNCHANGED <<shmVars, disturbed, orphans>>

SetPosition(c) ==
  /\ Goto(c, "claimed", "running")
  /\ queue' = [queue EXCEPT ![seg[c]].position[id[c]] = 1]
  /\ punctual' = punctual \cup {d \in {c} : Mine(c).next_ = 0}
  /\ UNCHANGED <<name, sized, seg, held, i, id, received, disturbed, orphans>>

\* The messages of the slot that c looks at: the last one is in it, and it is
\* ready if its stamp is beyond c's position.
InSlot(c) ==
  {m \in 1 .. Mine(c).next_ :
     (m - Mine(c).position[id[c]]) % RingSize = 0 /\ m >= Mine(c).position[id[c]]}

Consume(c) ==
  /\ pc[c] = "running" /\ Len(received[c]) < N
  /\ Mine(c).active[id[c]] /\ InSlot(c) # {}
  /\ received' = [received EXCEPT ![c] = Append(@, Max(InSlot(c)))]
  /\ queue' = [queue EXCEPT ![seg[c]].position[id[c]] = @ + 1]
  /\ UNCHANGED <<name, sized, pc, seg, held, i, id, history>>

\* consume() returns false: not registered any more, or nothing to read.
ConsumeEmpty(c) ==
  /\ pc[c] = "running" /\ Len(received[c]) < N
  /\ ~Mine(c).active[id[c]] \/ InSlot(c) = {}
  /\ UNCHANGED vars

DestroyConsumer_Unlinks(c) ==
  /\ Len(received[c]) = N
  /\ Ends(c, "running", "done")
  /\ queue' = [queue EXCEPT ![seg[c]].active[id[c]] = FALSE]
  /\ Keeps(c, held[c] \ {"efd", "map"})
  /\ name' = None
  /\ UNCHANGED <<sized, disturbed, orphans>>

DestroyConsumer_StaysRegistered(c) ==
  /\ Len(received[c]) = N
  /\ Ends(c, "running", "done")
  /\ Keeps(c, held[c] \ {"efd", "map"})
  /\ UNCHANGED <<shmVars, disturbed, orphans>>

\* unregister_consumer(), then ~SharedMemoryManager().
DestroyConsumer(c) ==
  /\ Len(received[c]) = N
  /\ Ends(c, "running", "done")
  /\ queue' = [queue EXCEPT ![seg[c]].active[id[c]] = FALSE]
  /\ Keeps(c, held[c] \ {"efd", "map"})
  /\ UnlinkIfOwner(c)
  /\ UNCHANGED <<sized, disturbed, orphans>>

-----------------------------------------------------------------------------
(* A producer: the loop of run_producer_mode() and ~Producer(). *)

Full_OffByOne(s, m) == (s - m) % Word > RingSize

\* (next_seq - min) >= kRingSize
Full(s, m) == (s - m) % Word >= RingSize

Minimum_NoRescan(b) == b.min_consumer_seq_

\* The minimum publish() goes by: the cached one unless the ring looks full,
\* the maximal uint64_t if nobody is registered.
Minimum(b) ==
  IF Full(b.next_ + 1, b.min_consumer_seq_)
  THEN Min({b.position[k] : k \in {j \in ConsumerIds : b.active[j]}} \cup {Word - 1})
  ELSE b.min_consumer_seq_

Publish_OneMore(p) ==
  LET b == queue[seg[p]] IN
  /\ pc[p] = "ready" /\ i[p] <= N + 1
  /\ ~Full(b.next_ + 1, Minimum(b))
  /\ queue' = [queue EXCEPT ![seg[p]] = [b EXCEPT !.next_ = @ + 1,
                                                  !.min_consumer_seq_ = Minimum(b)]]
  /\ i' = [i EXCEPT ![p] = @ + 1]
  /\ UNCHANGED <<name, sized, pc, seg, held, id, received, history>>

Publish(p) ==
  LET b == queue[seg[p]] IN
  /\ pc[p] = "ready" /\ i[p] <= N
  /\ ~Full(b.next_ + 1, Minimum(b))
  /\ queue' = [queue EXCEPT ![seg[p]] = [b EXCEPT !.next_ = @ + 1,
                                                  !.min_consumer_seq_ = Minimum(b)]]
  /\ i' = [i EXCEPT ![p] = @ + 1]
  /\ UNCHANGED <<name, sized, pc, seg, held, id, received, history>>

PublishRefused(p) ==
  LET b == queue[seg[p]] IN
  /\ pc[p] = "ready" /\ i[p] <= N
  /\ Full(b.next_ + 1, Minimum(b))
  /\ queue' = [queue EXCEPT ![seg[p]].min_consumer_seq_ = Minimum(b)]
  /\ UNCHANGED <<name, sized, procVars, history>>

\* shutdown() sets a flag of this process only; then the destructors.
DestroyProducer(p) ==
  /\ i[p] > N
  /\ Ends(p, "ready", "done")
  /\ Keeps(p, held[p] \ {"efd", "map"})
  /\ UnlinkIfOwner(p)
  /\ UNCHANGED <<sized, queue, disturbed, orphans>>

-----------------------------------------------------------------------------
(* The environment. *)

\* The kernel takes back what the process held; the segment, its name and the
\* registration in it stay.
Kill(q) ==
  /\ q \in Mortal /\ pc[q] \notin Ended \cup {"start"}
  /\ Ends(q, pc[q], "crashed")
  /\ Keeps(q, {})
  /\ orphans' = orphans \cup {<<seg[c], id[c]>> : c \in {q} \cap Claimants}
  /\ UNCHANGED <<shmVars, disturbed>>

\* The x command.
Cleanup ==
  /\ name # None
  /\ name' = None
  /\ UNCHANGED <<sized, queue, procVars, history>>

AllEnded ==
  /\ \A q \in Processes : pc[q] \in Ended
  /\ UNCHANGED vars

-----------------------------------------------------------------------------

Manager(q) ==
  \/ Open(q) \/ OpenFails(q) \/ Map(q) \/ MapFails(q)
  \/ EventFd(q) \/ EventFdFails(q)

Producer(p) ==
  \/ Manager(p) \/ Truncate(p) \/ TruncateFails(p) \/ Construct(p)
  \/ Publish(p) \/ PublishRefused(p) \/ DestroyProducer(p)

Consumer(c) ==
  \/ Manager(c)
  \/ BusError(c) \/ CasWins(c) \/ CasLoses(c) \/ RegisterFails(c) \/ SetPosition(c)
  \/ Consume(c) \/ ConsumeEmpty(c) \/ DestroyConsumer(c)

Next ==
  \/ \E p \in Producers : Producer(p)
  \/ \E c \in Consumers : Consumer(c)
  \/ \E q \in Processes : Kill(q)
  \/ Cleanup \/ AllEnded

Spec == Init /\ [][Next]_vars

\* Live processes are scheduled; nobody is obliged to kill or to clean up.
FairSpec ==
  /\ Spec
  /\ \A p \in Producers : WF_vars(Producer(p))
  /\ \A c \in Consumers : WF_vars(Consumer(c))

-----------------------------------------------------------------------------
(* Properties. *)

\* The variables keep the shape of the code's fields and of the kernel's state.
TypeOK ==
  /\ name \in Producers \cup {None}
  /\ sized \subseteq Producers
  /\ queue \in [Producers -> [active   : [ConsumerIds -> BOOLEAN],
                              position : [ConsumerIds -> 0 .. N + 1],
                              next_    : 0 .. N,
                              min_consumer_seq_ : 0 .. Word - 1]]
  /\ pc \in [Processes -> Ended \cup Registered \cup
                          {"start", "opened", "sized", "mapped", "zeroed",
                           "built", "ready"}]
  /\ seg \in [Processes -> Producers \cup {None}]
  /\ held \in [Processes -> SUBSET {"fd", "map", "efd"}]
  /\ i \in [Producers -> 1 .. N + 1]
  /\ id \in [Consumers -> 0 .. MaxConsumers]
  /\ received \in [Consumers -> Seq(1 .. N)]
  /\ disturbed \subseteq Producers
  /\ punctual \subseteq Consumers
  /\ orphans \subseteq Producers \X ConsumerIds

\* Every way out of the manager's constructor and of the destructors gives back
\* exactly what was acquired on the way in, and a process at work holds its
\* mapping and its eventfd but no descriptor of the segment.
NothingLeaked ==
  \A q \in Processes :
    /\ pc[q] \in {"failed", "done"} => held[q] = {}
    /\ pc[q] \in {"ready"} \cup Registered => held[q] = {"map", "efd"}

\* Only the producer at work in it, or the cleanup command, takes the name away
\* from a segment: no consumer that leaves, fails or dies ever does, so later
\* consumers still find the producer's queue.
NameKept ==
  [][\A p \in Producers :
       pc[p] \notin Ended \cup {"start"} /\ name = seg[p] /\ name' # name =>
         pc'[p] \in {"failed", "done"} \/ Cleanup]_vars

\* As long as no construction of the queue met a registration, the slots in use
\* are those of the registered consumers, one each, and those of dead ones: the
\* producer sees everybody, nobody inherits a slot while its owner lives, and
\* only a restarted producer takes back the slots of the dead.
SlotsOwned ==
  \A s \in Producers \ disturbed :
    LET live == {c \in Claimants : seg[c] = s}
        dead == {k \in ConsumerIds : <<s, k>> \in orphans}
    IN  /\ {k \in ConsumerIds : queue[s].active[k]} = {id[c] : c \in live} \cup dead
        /\ \A c \in live : id[c] \notin dead
        /\ \A c, d \in live : id[c] = id[d] => c = d

\* A consumer that registered before the first message, in a segment where no
\* construction met a registration, receives every message once and in order,
\* through kills, restarts, failures and unlinking by others.
PunctualInOrder ==
  \A c \in punctual : seg[c] \notin disturbed =>
    \A k \in DOMAIN received[c] : received[c][k] = k

\* A dead consumer still occupies its slot.
Orphaned(s) == \E o \in orphans : o[1] = s

\* No producer is at work in s, and those that were have not published it all.
Abandoned(s) == queue[s].next_ < N /\ \A p \in Producers : seg[p] # s

\* Such a consumer finishes, also after the producer has unlinked the segment
\* and ended, also after an earlier producer or consumer died there; only a
\* dead consumer's slot, or a producer dead for good, keeps it waiting.
PunctualFinishes ==
  \A c \in Consumers :
    (pc[c] = "running" /\ c \in punctual) ~>
      \/ pc[c] \in {"done", "crashed"}
      \/ seg[c] \in disturbed \cup {s \in Producers : Orphaned(s) \/ Abandoned(s)}

-----------------------------------------------------------------------------
(* What the documentation says, where the code does something else. *)

\* SharedMemoryManager.h:100: "Consumers reinterpret the already-constructed
\* memory."
RegisteredInConstructedQueue ==
  \A c \in Consumers, p \in Producers :
    pc[c] = "running" /\ seg[c] = seg[p] =>
      pc[p] \notin {"opened", "sized", "mapped", "zeroed"}

=============================================================================
