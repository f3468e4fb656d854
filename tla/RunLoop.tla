------------------------------- MODULE RunLoop -------------------------------
(***************************************************************************)
(* The programs around the queue: the producer's publish-and-notify loop   *)
(* and shutdown (Producer.h, main.cpp, demo_single_process.cpp), and the   *)
(* consumers' loop (Consumer::run, consumer_thread) with its three wait    *)
(* strategies (WaitStrategy.h).  The calls of the queue are the atomic     *)
(* actions of PubSub; everything between them interleaves: the eventfd     *)
(* write, poll and read, the shutdown flag, the final drain.               *)
(*                                                                         *)
(* All consumers are registered at sequence 1 before publishing starts.    *)
(***************************************************************************)
EXTENDS Integers, Sequences, FiniteSets

CONSTANTS
  RingSize,        \* kRingSize
  N,               \* kTotalMessages
  Consumers,       \* consumer threads or processes
  ProducerId,      \* the producer's thread or process
  Strategy,        \* wait strategy of each consumer: "spin", "yield", "block"
  SpinLimit,       \* spin_limit_
  MaxMessages,     \* max_messages of each consumer, 0 for unlimited
  Timeouts,        \* whether poll_timeout_ms_ is finite (100) or -1
  Threads,         \* one process (the demo), or one process per party (main)
  ProducerMayStop  \* whether the producer can be killed

ASSUME RunLoopAssumption ==
  /\ RingSize \in Nat \ {0} /\ N \in Nat /\ SpinLimit \in Nat
  /\ ProducerId \notin Consumers
  /\ Strategy \in [Consumers -> {"spin", "yield", "block"}]
  /\ MaxMessages \in [Consumers -> Nat]
  /\ {Timeouts, Threads, ProducerMayStop} \subseteq BOOLEAN

VARIABLES
  log, joined, cursor, delivered,  \* the queue, see PubSub
  efd,            \* eventfd counters
  shutdown_flag,  \* shutdown flags
  ppc,            \* where the producer is
  i,              \* messages its loop has begun
  pc,             \* where each consumer is
  spin_count      \* of each consumer's wait strategy

queueVars == <<log, joined, cursor, delivered>>
prodVars  == <<ppc, i>>
consVars  == <<pc, spin_count>>
vars      == <<queueVars, efd, shutdown_flag, prodVars, consVars>>

Parties == Consumers \cup {ProducerId}

Queue == INSTANCE PubSub WITH Readers <- Consumers, Messages <- 1 .. N

\* Whose eventfd and shutdown flag party p uses: the demo's threads share one
\* of each, in main.cpp every process makes its own.
Owner(p) == IF Threads THEN ProducerId ELSE p

Init ==
  /\ log = <<>>
  /\ joined = Consumers
  /\ cursor = [c \in Consumers |-> 1]
  /\ delivered = [c \in Consumers |-> <<>>]
  /\ efd = [p \in Parties |-> 0]
  /\ shutdown_flag = [p \in Parties |-> FALSE]
  /\ ppc = "offer"
  /\ i = 1
  /\ pc = [c \in Consumers |-> "loop"]
  /\ spin_count = [c \in Consumers |-> 0]

-----------------------------------------------------------------------------
(* The producer. *)

\* publish() returns true.
PublishOk ==
  /\ ppc = "offer" /\ i <= N
  /\ Queue!Publish(i)
  /\ ppc' = "notify"
  /\ UNCHANGED <<efd, shutdown_flag, i, consVars>>

\* publish() returns false: some consumer is a ring behind, or none is
\* registered and the minimum over no consumer, the largest uint64_t, wraps
\* around in the subtraction.  The loop pauses and tries again.
PublishFull ==
  /\ ppc = "offer" /\ i <= N
  /\ ~Queue!HasRoom \/ (joined = {} /\ Len(log) + 2 >= RingSize)
  /\ UNCHANGED vars

NotifyAll_Silent ==
  /\ ppc = "notify"
  /\ i' = i + 1
  /\ ppc' = "offer"
  /\ UNCHANGED <<queueVars, efd, shutdown_flag, consVars>>

\* write(efd, 1) after each publish.
NotifyAll ==
  /\ ppc = "notify"
  /\ efd' = [efd EXCEPT ![Owner(ProducerId)] = @ + 1]
  /\ i' = i + 1
  /\ ppc' = "offer"
  /\ UNCHANGED <<queueVars, shutdown_flag, consVars>>

ShutdownStore_NoFlag ==
  /\ ppc = "offer" /\ i > N
  /\ ppc' = "final"
  /\ UNCHANGED <<queueVars, efd, shutdown_flag, i, consVars>>

\* shutdown(): the flag ...
ShutdownStore ==
  /\ ppc = "offer" /\ i > N
  /\ shutdown_flag' = [shutdown_flag EXCEPT ![Owner(ProducerId)] = TRUE]
  /\ ppc' = "final"
  /\ UNCHANGED <<queueVars, efd, i, consVars>>

ShutdownNotify_Silent ==
  /\ ppc = "final"
  /\ ppc' = "ended"
  /\ UNCHANGED <<queueVars, efd, shutdown_flag, i, consVars>>

\* ... and the final notification.
ShutdownNotify ==
  /\ ppc = "final"
  /\ efd' = [efd EXCEPT ![Owner(ProducerId)] = @ + 1]
  /\ ppc' = "ended"
  /\ UNCHANGED <<queueVars, shutdown_flag, i, consVars>>

\* The producer process is killed.
ProducerStops ==
  /\ ProducerMayStop
  /\ ppc \in {"offer", "notify", "final"}
  /\ ppc' = "stopped"
  /\ UNCHANGED <<queueVars, efd, shutdown_flag, i, consVars>>

Producer ==
  PublishOk \/ PublishFull \/ NotifyAll \/ ShutdownStore \/ ShutdownNotify

-----------------------------------------------------------------------------
(* A consumer's loop. *)

Reached_OffByOne(c) == MaxMessages[c] > 0 /\ Len(delivered[c]) > MaxMessages[c]

Reached_Inverted(c) == MaxMessages[c] = 0 /\ Len(delivered[c]) >= MaxMessages[c]

\* count >= max_messages
Reached(c) == MaxMessages[c] > 0 /\ Len(delivered[c]) >= MaxMessages[c]

Goto(c, from, to) == pc[c] = from /\ pc' = [pc EXCEPT ![c] = to]

LoopEnd(c) ==
  /\ Reached(c)
  /\ Goto(c, "loop", "exit")
  /\ UNCHANGED <<queueVars, efd, shutdown_flag, prodVars, spin_count>>

\* consume() returns true, then reset().
LoopConsume(c) ==
  /\ ~Reached(c)
  /\ Goto(c, "loop", "loop")
  /\ Queue!Deliver(c)
  /\ spin_count' = [spin_count EXCEPT ![c] = 0]
  /\ UNCHANGED <<efd, shutdown_flag, prodVars>>

\* consume() returns false.
LoopEmpty(c) ==
  /\ ~Reached(c)
  /\ ~Queue!HasMessage(c)
  /\ Goto(c, "loop", "wait")
  /\ UNCHANGED <<queueVars, efd, shutdown_flag, prodVars, spin_count>>

WaitSpin_NoLimit(c) ==
  /\ Goto(c, "wait", "flag")
  /\ spin_count' = [spin_count EXCEPT ![c] =
                      IF Strategy[c] = "spin" THEN @ ELSE @ + 1]
  /\ UNCHANGED <<queueVars, efd, shutdown_flag, prodVars>>

\* wait_for_data(), spinning or yielding.
WaitSpin(c) ==
  /\ Strategy[c] = "spin" \/ spin_count[c] < SpinLimit
  /\ Goto(c, "wait", "flag")
  /\ spin_count' = [spin_count EXCEPT ![c] =
                      IF Strategy[c] = "spin" THEN @ ELSE @ + 1]
  /\ UNCHANGED <<queueVars, efd, shutdown_flag, prodVars>>

WaitYield(c) ==
  /\ Strategy[c] = "yield" /\ spin_count[c] >= SpinLimit
  /\ Goto(c, "wait", "flag")
  /\ UNCHANGED <<queueVars, efd, shutdown_flag, prodVars, spin_count>>

\* wait_for_data(), asleep in poll() until the eventfd is readable.
PollCall(c) ==
  /\ Strategy[c] = "block" /\ spin_count[c] >= SpinLimit
  /\ Goto(c, "wait", "poll")
  /\ UNCHANGED <<queueVars, efd, shutdown_flag, prodVars, spin_count>>

PollReturns(c) ==
  /\ efd[Owner(c)] > 0
  /\ Goto(c, "poll", "read")
  /\ UNCHANGED <<queueVars, efd, shutdown_flag, prodVars, spin_count>>

PollTimesOut(c) ==
  /\ Timeouts /\ efd[Owner(c)] = 0
  /\ Goto(c, "poll", "flag")
  /\ UNCHANGED <<queueVars, efd, shutdown_flag, prodVars, spin_count>>

\* read() of a semaphore eventfd takes one off the counter; EAGAIN at zero.
PollRead(c) ==
  /\ Goto(c, "read", "flag")
  /\ efd' = [efd EXCEPT ![Owner(c)] = IF @ > 0 THEN @ - 1 ELSE 0]
  /\ UNCHANGED <<queueVars, shutdown_flag, prodVars, spin_count>>

FlagClear_WaitsOn(c) ==
  /\ ~shutdown_flag[Owner(c)]
  /\ Goto(c, "flag", "wait")
  /\ UNCHANGED <<queueVars, efd, shutdown_flag, prodVars, spin_count>>

FlagClear(c) ==
  /\ ~shutdown_flag[Owner(c)]
  /\ Goto(c, "flag", "loop")
  /\ UNCHANGED <<queueVars, efd, shutdown_flag, prodVars, spin_count>>

FlagSet_NoDrain(c) ==
  /\ shutdown_flag[Owner(c)]
  /\ Goto(c, "flag", "exit")
  /\ UNCHANGED <<queueVars, efd, shutdown_flag, prodVars, spin_count>>

FlagSet(c) ==
  /\ shutdown_flag[Owner(c)]
  /\ Goto(c, "flag", "drain")
  /\ UNCHANGED <<queueVars, efd, shutdown_flag, prodVars, spin_count>>

\* The drain loop has no bound but the queue.
Drain(c) ==
  /\ Goto(c, "drain", "drain")
  /\ Queue!Deliver(c)
  /\ UNCHANGED <<efd, shutdown_flag, prodVars, spin_count>>

DrainEnd(c) ==
  /\ ~Queue!HasMessage(c)
  /\ Goto(c, "drain", "exit")
  /\ UNCHANGED <<queueVars, efd, shutdown_flag, prodVars, spin_count>>

\* ~Consumer(): unregister_consumer().
Destroy(c) ==
  /\ Goto(c, "exit", "gone")
  /\ Queue!Leave(c)
  /\ UNCHANGED <<efd, shutdown_flag, prodVars, spin_count>>

Consumer(c) ==
  \/ LoopEnd(c) \/ LoopConsume(c) \/ LoopEmpty(c)
  \/ WaitSpin(c) \/ WaitYield(c)
  \/ PollCall(c) \/ PollReturns(c) \/ PollTimesOut(c) \/ PollRead(c)
  \/ FlagClear(c) \/ FlagSet(c) \/ Drain(c) \/ DrainEnd(c) \/ Destroy(c)

Gone == \A c \in Consumers : pc[c] = "gone"

Terminated ==
  /\ ppc \in {"ended", "stopped"} /\ Gone
  /\ UNCHANGED vars

Next ==
  \/ Producer \/ ProducerStops
  \/ \E c \in Consumers : Consumer(c)
  \/ Terminated

Spec == Init /\ [][Next]_vars

\* Threads are scheduled and a finite poll timeout expires; nothing obliges
\* the producer to be killed.
FairSpec ==
  /\ Spec
  /\ WF_vars(Producer)
  /\ \A c \in Consumers : WF_vars(Consumer(c))

-----------------------------------------------------------------------------
(* Properties. *)

\* The variables keep the shape of the code's fields and locals; the eventfd
\* counts at most one write per message and one for the shutdown.
TypeOK ==
  /\ log \in Seq(1 .. N) /\ Len(log) <= N
  /\ joined \subseteq Consumers
  /\ cursor \in [Consumers -> 0 .. N + 1]
  /\ delivered \in [Consumers -> Seq(1 .. N)]
  /\ efd \in [Parties -> 0 .. N + 1]
  /\ shutdown_flag \in [Parties -> BOOLEAN]
  /\ ppc \in {"offer", "notify", "final", "ended", "stopped"}
  /\ i \in 1 .. N + 1
  /\ pc \in [Consumers -> {"loop", "wait", "poll", "read", "flag", "drain",
                           "exit", "gone"}]
  /\ spin_count \in [Consumers -> 0 .. SpinLimit]

\* A consumer leaves its loop only with its quota reached, or on shutdown with
\* every message of the run received, in order: the drain loses nothing,
\* although the flag is read after the consume() that found the queue empty.
CleanExit ==
  \A c \in Consumers : pc[c] \in {"exit", "gone"} =>
    Reached(c) \/ delivered[c] = [k \in 1 .. N |-> k]

Blockers == {c \in Consumers : Strategy[c] = "block"}

\* The only blocking consumer of an eventfd never sleeps on a zero counter
\* while it has something to do, unless the producer is between the publish or
\* the flag and the write that wakes it: however its reads of the counter and
\* its consume() calls interleave with the producer, no wakeup is lost.
NoMissedWakeup ==
  \A c \in Blockers : pc[c] = "poll" /\ efd[Owner(c)] = 0 =>
    /\ Queue!HasMessage(c) => ppc = "notify"
    /\ shutdown_flag[Owner(c)] => ppc = "final"

\* A consumer goes beyond its quota only in the drain after a shutdown.
QuotaKept ==
  \A c \in Consumers : MaxMessages[c] > 0 /\ ~shutdown_flag[Owner(c)] =>
    Len(delivered[c]) <= MaxMessages[c]

\* Every consumer leaves, unless the producer is killed: no combination of
\* sleeping, backpressure and shutdown leaves a party waiting for another for
\* ever.
EveryoneLeaves == <>(Gone \/ ppc = "stopped")

\* If the producer process is killed, between a publish and its notification
\* too, every consumer that has not left still receives all that was
\* published: nobody's progress depends on the dead process.
SurvivorsCatchUp ==
  \A c \in Consumers :
    (ppc = "stopped") ~> (Len(delivered[c]) = Len(log) \/ pc[c] = "gone")

-----------------------------------------------------------------------------
(* What the documentation says, where the code does something else. *)

\* Producer.h:79, shutdown() "sends a final notification to wake any sleeping
\* consumers so they can observe the flag and exit".
ShutdownWakesEveryone == (ppc = "ended") ~> Gone

\* README.md:35: if the producer stops early or crashes, "an atomic flag in the
\* shared memory region" lets "consumers exit cleanly instead of hanging".
ExitIfProducerStops == (ppc = "stopped") ~> Gone

=============================================================================
