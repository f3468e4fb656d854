# TLA+ models of the lock-free SPMC queue

The repository is a C++ publish-subscribe ring buffer for one producer and up
to 64 consumers in POSIX shared memory, with three wait strategies, a producer
and a consumer class, a multi-process program and a single-process demo. This
directory models it in TLA+, checks the models with TLC and proves their safety with
TLAPS: the ring and that it implements its abstract specification, the run loops, the
life of the segment, the counts and the samples.

## The system

| Part | State | Operations | Where |
|---|---|---|---|
| Queue | ring of slots (stamp, data), consumer table (active, position), `next_`, cached minimum | `publish`, `consume`, `register_consumer`, `unregister_consumer`, `current_sequence` | `include/Queue.h` |
| Producer | shutdown flag, strategy | `publish` then notify, `shutdown` | `include/Producer.h`, loops in `src/main.cpp`, `src/demo_single_process.cpp` |
| Consumer | id, count | constructor (register at 1), `run`, destructor (unregister) | `include/Consumer.h`, `consumer_thread` in the demo |
| Wait strategies | spin count, eventfd counter | `wait_for_data`, `notify_all`, `reset` | `include/WaitStrategy.h` |
| Shared memory | segment name, mapping, eventfd | create and construct, attach, unlink | `include/SharedMemoryManager.h` |
| Latency tracker | samples | `record`, `report` | `include/LatencyTracker.h` |
| Message, clock | | trivially copyable structs, `rdtsc` | `include/Message.h`, `include/Utils.h` |

The producer and the consumers interact through four things only: the stamps
and data of the slots, the consumer table, an eventfd counter and a shutdown
flag. In the demo all threads share one eventfd and one flag; in `main.cpp` each
process makes its own eventfd and its own flag, and only the queue is shared.

What is hard here: every access to the queue can interleave with every other;
the producer trusts a cached minimum; registration is two stores; a consumer
can be killed while registered; unsigned subtraction wraps; a blocking consumer
takes notifications off a counter that others share; shutdown races with the
last messages; a consumer can attach to a segment at any point of its creation;
a producer that starts again constructs its queue over whoever is there; time
stamps are taken on one core and subtracted on another. `PROJECT.json` lists these hazards, each with its line.

What makes each part correct:

* Queue: a registered consumer gets every message from its start once, in order
  and whole; no unread message is overwritten; consumer slots have one owner;
  producer and consumers do not wait for each other.
* Producer, consumer and wait strategies: no wakeup is lost, a consumer that
  exits has received what it should have, everybody exits.
* Shared memory: what is acquired is given back, only the owner takes the name
  away, and a consumer stays attached to the queue the producer publishes to.
* Reporting: the counts of both sides agree, at most the reserved number of
  samples, each the age of its message, and percentiles that are percentiles.

## Modules

| Module | Contents |
|---|---|
| `SpmcQueue` | the queue, one action per access to shared memory |
| `PubSub` | what the queue promises: a log and a cursor per reader, one action per call |
| `SpmcQueueRefinement` | the refinement mapping from `SpmcQueue` to `PubSub` |
| `SpmcQueueProofs`, `SpmcQueueRefinementProofs` | the proofs about `SpmcQueue`, and that it implements `PubSub` |
| `RunLoopProofs` | the proofs about `RunLoop` |
| `SharedMemoryProofs`, `SharedMemoryDeliveryProofs` | the proofs about `SharedMemory`: resources and slots, then types and delivery |
| `LatencyTrackerProofs`, `ReportingProofs` | the proofs about `LatencyTracker` and `Reporting` |
| `RunLoop` | the programs around the queue; its queue calls are the actions of `PubSub` |
| `SharedMemory` | the life of the segment: creation, attachment, failures, kills, restarts, unlinking |
| `LatencyTracker` | `record` and `report` as operators, with a reference definition of a percentile |
| `Reporting` | message types, counts, time stamps and samples, over `PubSub` and `LatencyTracker` |
| `MCSpmcQueue`, `MCRunLoop`, `MCSharedMemory`, `MCReporting` | instances for TLC |

Operators with a suffix, such as `Full_OffByOne`, are faulty variants of the
definition they precede. They show that the properties notice such a fault; no
specification uses them.

### SpmcQueue

The variables are the fields of `LockFreePubSubQueue` (`slotSeq`, `slotData`,
`active`, `position`, `next_`, `min_consumer_seq_`), the locals of the calls under
way (`si`, `min_seq`, `id`, `seq`, `out`) and a program counter per thread. Message
`i` is the number `i`.

* `publish()` is `PublishFastPath` or `PublishSlowPath`, the scan (`ScanInactive`,
  `ScanActive`, `ScanLoad`, `ScanEnd`: the load of `active` and the load of the position are
  separate steps), `ClaimAndWrite`, `WriteDone`, `Release`. A refused publish goes back
  to `idle`, where the caller's retry loop offers the same message again.
* `consume()` is `ConsumeLoad`, `ConsumeEmpty` or `ConsumeReady`, `CopyFirst`, `CopySecond`,
  `Advance`. The slot's data is not atomic. Writing it takes two steps with `Torn` in
  between, and reading it takes two steps that must agree, so that a read overlapping a
  write yields any mixture.
* `register_consumer()` is `RegisterCall`, one `CasWins` or `CasLoses` per slot tried,
  `RegisterSet`, or `RegisterFails`. A reader in `FromNow` passes `current_sequence()`, every
  other passes 1, as `Consumer` and the demo do.
* `Unregister` happens between two calls of `consume()`. `Crash` kills a reader in
  `Mortal` anywhere and leaves its slot active.
* `StartPublishing` waits for the readers in `Early`: the demo and the tests register
  before they publish, the producer process waits for a delay or for Enter. Other
  readers register whenever they like.

`uint64_t` arithmetic is modulo `Word`; the assumption `N + RingSize + 1 < Word` says that the
run does not exhaust 64 bits, but the wrap-around of the full check with no active
consumer does happen.

The steps interleave sequentially consistently. That is adequate for the data path:
the stamp is a release store read with acquire, so are the positions, and each is
written by one thread. Delayed visibility of a stamp or a position is
indistinguishable from a slower writer. It is not modelled that the producer's load of
`active` can miss a registration that has just happened; for the early readers
registration happens before publishing starts.

**Readers in time.** A reader that registers late, at a sequence number the producer has
already lapped or is about to lap, is promised nothing by the code (see the findings). The
history variable `safe` holds the readers for which, at the moment their position was
stored, the position was inside the window of the ring and neither the cached minimum nor a
scan under way had passed it (`Guarded`). The guarantees are about these readers. `JoinInTime`
shows that every reader registered before publishing is one of them.

### PubSub and the refinement

`PubSub` has a log, a set of joined readers, a cursor and the delivered messages of each
reader. `ImplementsPubSub` maps the log to the messages whose stamp is stored, joined
readers to the readers in time that are registered, cursors to positions. `publish()` takes
effect at the stamp, `consume()` at the store of the position.

### RunLoop

One producer loop (`PublishOk`, `PublishFull`, `NotifyAll`, `ShutdownStore`, `ShutdownNotify`), and for
each consumer the loop of `Consumer::run` and `consumer_thread`: quota, consume and reset,
wait, flag, drain, destructor. `wait_for_data()` is `WaitSpin`, `WaitYield`, or `PollCall` followed by
`PollReturns` and `PollRead` or by `PollTimesOut`. The eventfd is in semaphore mode: a read takes one
off the counter. `Owner` says whose eventfd and flag a party uses: one for all with
`Threads`, its own otherwise. `publish()` refuses when a reader is a ring behind, or, as
`SpmcQueue` shows, can refuse when nobody is registered. A finite poll timeout can expire at any
moment at which the counter is zero. Message types, counts and samples are in `Reporting`.

### SharedMemory

A process walks through the constructor of `SharedMemoryManager` (`Open`, `Truncate`, `Map`,
`Construct`, `EventFd`, each but `Construct` with an action for its failure), then through
the constructor of `Consumer` (`CasWins`, `CasLoses`, `SetPosition`, `RegisterFails`), its
loop and its destructor. The variables are the kernel's (`name`: the segment `kShmName`
refers to; `sized`; `held`: descriptor, mapping and eventfd of each process) and the queue in
each segment. A segment is called after the producer that created it; an unlinked one lives on
in whoever has mapped it.

* `shm_open` of a producer has no `O_EXCL`: it gets the segment that is there.
* `Construct` is the value initialization in the placement new: the object is zeroed, then
  its members are initialized. Both passes clear every registration, so both are steps.
* A consumer that touches a segment before `ftruncate` dies of `BusError`.
* The eventfds that `main.cpp` makes itself, before the manager's, are never closed, and are
  not part of `held`; if one cannot be made the process ends as in `OpenFails`.
* `publish()` and `consume()` are one step each and the slots are left out: `InSlot` gives the
  stamp that the slot would show, that of a later lap included. `SpmcQueue` takes the calls apart.
* Producers run one after another (`Alone`): two at once break the contract of `publish()`.
* `Kill` ends a process in `Mortal` anywhere; the segment, its name and its registration stay.
  The history variable `orphans` remembers the slots so left. `Cleanup` is the `x` command, at any time.

**Disturbed segments and punctual consumers.** Nothing makes a consumer wait until the queue is
constructed, and nothing makes a restarted producer look for live consumers (see `shm_attach`). A
consumer whose registration a construction clears polls for ever. The history variable
`disturbed` holds the segments where that has happened, and `punctual` the consumers that
registered before the first message, which is what the producer's start delay is for. The
guarantees are about undisturbed segments; that they cover restarts is no accident of the bounds:
a second producer takes over the segment of a killed one, clears the slot of a killed
consumer, and a new consumer gets everything.

### LatencyTracker and Reporting

`Record`, `Sorted`, `Rank`, `Average` and `Report` are the methods of `LatencyTracker`. `std::sort` is what
it promises: the samples in some order (`SortingOrder`) in which none is above a later one. `report` prints
truncated averages, hence the integer division; the sum of doubles is exact in the model.
`Reporting` composes them with `PubSub`: every attempt of the producer builds a message of the
type at `type_idx`, stamped `rdtsc()`, and moves `type_idx` on, also if it is refused; a
consumer subtracts the stamp from its own counter modulo `Word`, records, and counts by type. The
threads in `DemoThreads` run `consumer_thread`, whose drain does not count types; the others
run `Consumer::run`. Wait strategies do not matter here: `LoopEmpty` goes to `waited`, where the
flag is looked at. `Tick` advances time; `Skew` is a constant offset of a consumer's counter.

## Runs

| Run | Instance | Shows |
|---|---|---|
| `queue_early` | ring 4, 6 messages, an early reader and one that comes, goes or dies | all safety properties, the inductive invariant, the refinement |
| `queue_reuse` | ring 2, 3 messages, 2 consumer slots, 2 early readers and one at `current_sequence()`, fair | slot reuse during scans, registration that finds no slot; early readers get everything and the producer's loop ends |
| `loop_threads` | ring 2, 3 messages, spin + yield + block threads, one with a small quota, infinite poll | no missed wakeup, clean exit, quotas, everybody leaves |
| `loop_processes` | ring 2, 4 messages, yield + block processes with a quota of 3, a producer that may be killed | everybody leaves through the quota or the producer is killed, and then survivors receive all that was published |
| `shm_restart` | ring 2, 3 messages, 2 producers in turn, 2 consumers for 1 slot; any system call may fail, the first producer and the consumers may be killed, cleanup at any time, fair | nothing leaks, the name is kept, slots have owners, punctual consumers get everything in order and finish |
| `reporting` | ring 2, 4 messages, a demo thread one tick behind, a process with room for 3 samples, a counter that wraps at 16 | counts agree, samples are true ages, the report is sound |

Runs expected to end in a violation, each of one sentence of the documentation:

| Run | Sentence | What happens |
|---|---|---|
| `late_consumer` | README: "every consumer sees every message" | a consumer that attaches after a lap reads later or torn messages |
| `nobody_registered` | Queue.h: unregistering "Does not block ... the producer" | with no reader the minimum wraps and publish fails for ever |
| `start_from_now` | Queue.h: starting at `next_` means from "now" | registered before the first publish, a reader waits for sequence 0 for ever |
| `two_blockers` | Producer.h: the final notification wakes "any sleeping consumers" | one of two takes it, the other sleeps on (infinite poll timeout) |
| `producer_stops_early` | README: a flag "in the shared memory region" lets consumers exit | each process has its own flag; consumers poll for ever |
| `shm_attach` | SharedMemoryManager.h: consumers use "already-constructed memory" | a consumer registers between `ftruncate` and the placement new |

The liveness of `queue_reuse` allows for the reader of `start_from_now` (`AwaitsZero`): whoever waits for
sequence 0 is never served and stops the producer a ring later. That is the only excuse.

Smaller disagreements, seen while modelling and not given a run: the ring takes `kRingSize` unread
messages (a comment in the tests says one less), a killed consumer stops the producer a ring
later, the drain can exceed `max_messages` (`QuotaKept` says that nothing else does), the demo's
drain does not count types (`TalliesAgree` says that nothing else miscounts), and a consumer whose
counter lags behind the producer's records ages close to 2^64 (`SamplesFaithful` says exactly which).

**Bounds.** A ring of 2 or 4 with one or two more messages than slots makes the producer
wrap, refuse, rescan and reuse slots. Two consumer slots are the fewest for which the order
of a scan matters, three readers the fewest that contend for two slots. `Word = 16` leaves
room for all sequence numbers and lets the empty minimum wrap. `SpinLimit = 1` has both phases
of the strategies. The counters (`i`, `next_`, eventfd) are bounded by `N`.
In `shm_restart` two producers are a crash and a restart, and two consumers of one slot are a dead
one and its successor, or two that contend while the table is full; several consumers registered
at once are the subject of the queue's own runs and proofs. In `reporting` the messages are one more than the types
and twice the ring, so that a refusal changes the type of a retry; `MaxTime = 2` lets ages exceed, equal
and fall short of the skew, and `Start = 15` makes the counter wrap in the first tick.
`MCSpmcQueue` also checks that the mask of the code is the remainder used by `Index`.

**Fairness.** Weak fairness of the producer and of each reader or consumer as a whole: the
operating system keeps scheduling runnable threads, and a finite poll timeout expires. Nobody
is obliged to unregister, to die or to clean up. No fairness chooses between the actions of one thread.

`CHECK_DEADLOCK FALSE` appears only in `two_blockers` and `producer_stops_early`, where the programs do
come to rest.

## Proofs

`SpmcQueueProofs` proves, for all ring sizes, numbers of slots, messages and readers that satisfy
`QueueAssumption`:

| Theorem | Statement |
|---|---|
| `Invariance` | `Spec => []IInv` |
| `TypeCorrect` | `Spec => []TypeOK` |
| `ConsumerSlotsExclusive` | `Spec => []SlotExclusive` |
| `EarlyRegistrationInTime` | `Spec => []JoinInTime` |
| `Delivery` | `Spec => []ExactlyOnceInOrder` |
| `RaceFreedom` | `Spec => []NoDataRace` |
| `NothingOverwritten` | `Spec => []UnreadIntact` |
| `CacheConservative` | `Spec => []FastPathSound` |

The argument. `ExactlyOnceInOrder` is not inductive: it needs what a reader is copying to be its
message, which needs the producer to stay out of the slot, which needs the reader to have
counted in every decision of the producer. `IInv` adds exactly that:

* `ProducerInv`: message `i` gets sequence number `i`;
* `RingInv`: the slots of the last lap hold their own message and stamp, except the one being
  written, and no stamp is ahead of the producer or in a wrong slot;
* `JoinInv`: registration that ends before publishing starts is in time;
* `ReaderInv`: a reader in time is `Guarded`, its position counts what it received, and what it
  copies carries its stamp.

The heart is `GuardedByProducer`: a scan that has passed a reader's slot holds a minimum at or below
its position, the cached minimum is at or below it or refuses, and a claim is less than a lap
ahead. `FullExact` shows that the unsigned test is the exact one while the minimum is not ahead of
the producer, and `IndexInjective` that sequence numbers less than a lap apart use different slots.

`SpmcQueueRefinementProofs` proves `RingImplementsLog`: `Spec => ImplementsPubSub`, under the same
assumptions and from `IInv`. The mapping is in three named parts, `ReleasedLog` (the messages
whose stamp is stored), `CursorInTime` and `ReceivedInTime` (positions and received messages of the
readers in time). There is one lemma per kind of step:

* `ReleasePublishes`: the store of the stamp is `Publish`. That there is room in the log for it is
  `Guarded`, part of `ReaderInv`: a claim is less than a lap ahead of every reader in time.
* `RegisterSetJoins`: the store of the start position is `Join` if the reader is in time, and does not
  show otherwise.
* `AdvanceDelivers`: the store of the advanced position is `Deliver`; that what was copied is the
  message of the log is `ReaderInv`.
* `ExitLeaves`: clearing the slot, or dying, is `Leave`.
* `ProducerStutters`, `OtherStepsStutter`: the scan, the claim, the writes, loads, checks and copies
  do not show. `OthersKept` says that a step of one reader shows nothing of another.

`RunLoopProofs` proves, for all numbers of consumers, wait strategies, quotas, ring sizes and messages
that satisfy `RunLoopAssumption`, with threads or with processes:

| Theorem | Statement |
|---|---|
| `TypeCorrect` | `Spec => []TypeOK` |
| `ExitsAreClean` | `Spec => []CleanExit` |
| `QuotasHold` | `Spec => []QuotaKept` |
| `WakeupsArrive` | `SoleSleeper` implies `Spec => []NoMissedWakeup` |

`CleanExit` needs to know that the flag is set only behind the last message and that a drain starts
only behind the flag: `ProducerInv` ties the place of the producer to the length of the log, the
counters and the flags, `ConsumerInv` ties the cursor of a consumer to what it has received.
`SoleSleeper` says that all share one eventfd and one flag, that the producer is not killed and that at
most one of the threads blocks. The last condition is necessary: run `two_blockers` shows how one of
two takes the other's notification. `WakeInv` is the invariant behind it: between an empty `consume()`
and `poll()`, the unread messages of the sleeper are covered by the counter, or by the counter and the
notification the producer is about to send; and after the flag is set the counter is positive or the
last notification is still to come.

`SharedMemoryProofs` proves, for all sets of processes, faults and kills and all numbers of slots
that satisfy `SharedMemoryAssumption`:

| Theorem | Statement |
|---|---|
| `ResourcesReturned` | `Spec => []NothingLeaked` |
| `SlotsKeepOwners` | `Spec => []SlotsOwned` |
| `OwnerUnlinks` | `Spec => NameKept` |

The inductive invariant is `Shape /\ Orderly /\ HoldsItsOwn /\ SlotOwners`. `HoldsItsOwn` gives the
resources of a process at every label, of which `NothingLeaked` names the last ones. `Orderly` says
that a process at work has a segment and that at most one producer is at work, from `Alone`; that is
what makes `shm_unlink` of a failing producer hit its own segment's name. `SlotOwners` is
`SlotsOwned` read slot by slot, which the provers handle better than equality of sets. Most steps
are `Quiet` for the slots; the others are `CasWins`, `DestroyConsumer`, `Construct` and `Kill`.

`SharedMemoryDeliveryProofs` proves under the same assumptions

| Theorem | Statement |
|---|---|
| `SegmentTypeCorrect` | `Spec => []TypeOK` |
| `PunctualDelivery` | `Spec => []PunctualInOrder` |

`TypeOK` is not inductive here. That `next_` stays within `N` needs `Books`: a producer that is past the
construction has published what its loop has counted, and it counts from 1, because every process that
ends forgets its counter and a new one constructs the queue first. That positions stay within `N + 1` needs
`Sane`: no position is beyond the next sequence number. `Base` joins these to `Orderly` and `SlotOwners`.
`PunctualInOrder` needs `OnTime`: the position of a punctual consumer is one more than what it has
received, `next_` is less than a lap ahead of it, and the cached minimum is at or below it or makes the
next `publish()` scan. `SlotOwners` is what makes the scan see the consumer (its slot is active) and
what keeps others off its position (they have other slots); `FullExact` and `MinimumBound` are about the
unsigned test and the scan. A construction over a registered consumer makes the segment `disturbed`,
which is why the theorem excludes those.

`ReportingProofs` proves, for all numbers of messages and consumers, capacities and skews that satisfy
`ReportingAssumption` and `SkewAssumption`:

| Theorem | Statement |
|---|---|
| `ReportingTypeCorrect` | `Spec => []TypeOK` |
| `CountsAgree` | `Spec => []TalliesAgree` |
| `SamplesAreAges` | `Spec => []SamplesFaithful` |
| `ReportsAreSound` | `Spec => []ReportSound` |

`SkewAssumption` says that the counters of two cores differ by no more than a word and that age and
skew together fit into one; beyond that, a difference of two `uint64_t` determines nothing. The
invariant: the log has one message per count of the producer's loop, each stamped with the time it was
built (`LogInv`); a consumer has received a prefix of it, and all of it once it is done (`ReadInv`); the
producer's counts are those of the log and a consumer's those of its prefix, or lower if the demo's drain
has skipped some (`CountInv`); samples are ages (`SampleInv`). `CountAppend` counts one more message, and
`WrappedDifference` shows that the difference of two counters that may each have wrapped is their
distance, as a word.

`ReportSound` rests on `LatencyTrackerProofs`, which is about `report` alone. `RankIsPercentile`: in
every sorted sequence the element at `n * p / 100`, for `p` below 100, is a `p`-th percentile.
`ReportIsSound`: for every non-empty sequence of samples the report is sound. The steps between:

* `PlaceOrders`: the number of samples before a sample, ties in the order of recording, is a bijection
  onto the indices, so a sorting order exists, and `SortedSorts` and `SortedCounts` hold for whichever
  one `SortingOrder` chooses: the copy is sorted and has as many samples of each value, hence the same
  percentiles (`SortedPercentile`);
* `SumsExist`, `SumBound` and `AverageBound`: the recursive function in `Average` exists and is at most
  the number of samples times any bound on them. Both are arguments by a least counterexample, since
  the induction theorems of the library cannot be instantiated.

Only model-checked: liveness under fairness (`queue_reuse`, `loop_threads`, `loop_processes`,
`shm_restart`), which is beyond the prover. Every invariant that a passing run checks is also proved.

## Not modelled

* The payload of messages: no code looks at it.
* The calibration of the clock and the conversion to microseconds: floating point that only scales
  what is printed.
* Parsing of arguments, the start delay as a time, printing, scripts and containers.
* The move constructor of `SharedMemoryManager`, which nothing uses. (It leaves `is_owner_` set in
  the object moved from, but takes the name away from it.)
* More than one producer at a time, which the contract of `publish()` excludes.
* Reordering of memory accesses by the hardware, see above.

## Plan

1. Done: `SpmcQueue`, `PubSub`, the refinement in TLC, `RunLoop`, the invariance proof of the queue.
2. Done: `SharedMemory` with its first proofs, `LatencyTracker`, `Reporting`, liveness with slot reuse.
3. Done: the refinement proof, the proofs about `RunLoop`, `SharedMemory`, `Reporting` and `LatencyTracker`.
4. Left: simpler proofs where lemmas of different components overlap.
