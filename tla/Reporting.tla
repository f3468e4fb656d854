------------------------------ MODULE Reporting ------------------------------
(***************************************************************************)
(* What the programs count and measure: the producer's cycle through the   *)
(* message types and its counts, the time stamp each message is built      *)
(* with, the consumers' counts by type, latency samples and report         *)
(* (main.cpp, demo_single_process.cpp, Consumer.h, LatencyTracker.h,       *)
(* Message.h, Utils.h).  The queue is PubSub; how consumers wait, and the  *)
(* order of wakeups, is the subject of RunLoop.                            *)
(*                                                                         *)
(* rdtsc() reads the counter of the core it runs on.  The producer's       *)
(* counter is the reference; that of a consumer is off by its Skew.        *)
(***************************************************************************)
EXTENDS LatencyTracker

CONSTANTS
  RingSize,     \* kRingSize
  N,            \* kTotalMessages
  Consumers,    \* consumer threads or processes
  DemoThreads,  \* those that run the demo's consumer_thread, not Consumer::run
  Capacity,     \* samples each consumer's tracker has room for
  Skew,         \* ticks each consumer's counter is ahead of the producer's
  Word,         \* 2^64 in the code
  Start,        \* the producer's counter at the start
  MaxTime       \* bound on the ticks

ASSUME ReportingAssumption ==
  /\ RingSize \in Nat \ {0} /\ N \in Nat /\ MaxTime \in Nat
  /\ DemoThreads \subseteq Consumers
  /\ Capacity \in [Consumers -> Nat] /\ Skew \in [Consumers -> Int]
  /\ Word \in Nat \ {0} /\ Start \in 0 .. Word - 1

\* Counters are read as words, so they differ by no more than one; an age and
\* the skew together fit into a word.
ASSUME SkewAssumption ==
  \A c \in Consumers : -Word <= Skew[c] /\ Skew[c] + MaxTime < Word

VARIABLES
  log, joined, cursor, delivered,  \* the queue, see PubSub
  type_idx,       \* of the next message the producer builds
  i,              \* message the producer's loop is at
  published,      \* add_count, trade_count, delete_count of the producer
  shutdown_flag,
  now,            \* ticks since the start
  pc,             \* where each consumer is
  tally,          \* its counts by type
  samples,        \* samples_ of its tracker
  elapsed         \* history: the true age of each message it handled

queueVars == <<log, joined, cursor, delivered>>
prodVars  == <<type_idx, i, published, shutdown_flag>>
consVars  == <<pc, tally, samples, elapsed>>
vars      == <<queueVars, prodVars, now, consVars>>

Types == {"Add", "Trade", "Delete"}

Messages == [type : Types, timestamp_ns : 0 .. Word - 1, built : 0 .. MaxTime]

Queue == INSTANCE PubSub WITH Readers <- Consumers

Init ==
  /\ log = <<>>
  /\ joined = Consumers
  /\ cursor = [c \in Consumers |-> 1]
  /\ delivered = [c \in Consumers |-> <<>>]
  /\ type_idx = 0
  /\ i = 1
  /\ published = [t \in Types |-> 0]
  /\ shutdown_flag = FALSE
  /\ now = 0
  /\ pc = [c \in Consumers |-> "run"]
  /\ tally = [c \in Consumers |-> [t \in Types |-> 0]]
  /\ samples = [c \in Consumers |-> <<>>]
  /\ elapsed = [c \in Consumers |-> <<>>]

Tick ==
  /\ now < MaxTime
  /\ now' = now + 1
  /\ UNCHANGED <<queueVars, prodVars, consVars>>

rdtsc(skew) == (Start + now + skew) % Word

-----------------------------------------------------------------------------
(* The producer. *)

TypeAt(idx) == <<"Add", "Trade", "Delete">>[idx + 1]

\* Message(...): every attempt builds a message, stamped now.
NewMessage ==
  [type |-> TypeAt(type_idx), timestamp_ns |-> rdtsc(0), built |-> now]

PublishOk ==
  /\ i <= N
  /\ Queue!Publish(NewMessage)
  /\ published' = [published EXCEPT ![TypeAt(type_idx)] = @ + 1]
  /\ type_idx' = (type_idx + 1) % 3
  /\ i' = i + 1
  /\ UNCHANGED <<shutdown_flag, now, consVars>>

PublishFull_Counted ==
  /\ i <= N
  /\ ~Queue!HasRoom
  /\ published' = [published EXCEPT ![TypeAt(type_idx)] = @ + 1]
  /\ type_idx' = (type_idx + 1) % 3
  /\ UNCHANGED <<queueVars, i, shutdown_flag, now, consVars>>

\* The message is refused and not counted, but the type moves on.
PublishFull ==
  /\ i <= N
  /\ ~Queue!HasRoom
  /\ type_idx' = (type_idx + 1) % 3
  /\ UNCHANGED <<queueVars, i, published, shutdown_flag, now, consVars>>

Shutdown ==
  /\ i > N /\ ~shutdown_flag
  /\ shutdown_flag' = TRUE
  /\ UNCHANGED <<queueVars, type_idx, i, published, now, consVars>>

-----------------------------------------------------------------------------
(* A consumer. *)

Elapsed_Signed(t, stamp) == t - stamp

\* uint64_t subtraction of the stamp
Elapsed(t, stamp) == (t - stamp) % Word

\* The counts after m, also those of the demo's switch.
onMessage(c, m) == [tally EXCEPT ![c][m.type] = @ + 1]

\* consume() returns m: rdtsc(), record() and, if counted, onMessage().
Handle(c, m, counted) ==
  /\ Queue!Deliver(c)
  /\ samples' = [samples EXCEPT ![c] =
       Record(@, Capacity[c], Elapsed(rdtsc(Skew[c]), m.timestamp_ns))]
  /\ tally' = IF counted THEN onMessage(c, m) ELSE tally
  /\ elapsed' = [elapsed EXCEPT ![c] = Append(@, now - m.built)]
  /\ UNCHANGED <<prodVars, now>>

Goto(c, from, to) == pc[c] = from /\ pc' = [pc EXCEPT ![c] = to]

LoopEnd(c) ==
  /\ Len(delivered[c]) >= N
  /\ Goto(c, "run", "done")
  /\ UNCHANGED <<queueVars, prodVars, now, tally, samples, elapsed>>

LoopConsume(c) ==
  /\ Len(delivered[c]) < N
  /\ Goto(c, "run", "run")
  /\ Handle(c, log[cursor[c]], TRUE)

\* consume() returns false; the consumer waits.
LoopEmpty(c) ==
  /\ Len(delivered[c]) < N /\ ~Queue!HasMessage(c)
  /\ Goto(c, "run", "waited")
  /\ UNCHANGED <<queueVars, prodVars, now, tally, samples, elapsed>>

CheckFlag(c) ==
  /\ Goto(c, "waited", IF shutdown_flag THEN "drain" ELSE "run")
  /\ UNCHANGED <<queueVars, prodVars, now, tally, samples, elapsed>>

\* The demo's drain loop counts the message but not its type.
Drain(c) ==
  /\ Goto(c, "drain", "drain")
  /\ Handle(c, log[cursor[c]], c \notin DemoThreads)

DrainEnd(c) ==
  /\ ~Queue!HasMessage(c)
  /\ Goto(c, "drain", "done")
  /\ UNCHANGED <<queueVars, prodVars, now, tally, samples, elapsed>>

AllDone ==
  /\ shutdown_flag /\ \A c \in Consumers : pc[c] = "done"
  /\ UNCHANGED vars

Next ==
  \/ Tick \/ PublishOk \/ PublishFull \/ Shutdown
  \/ \E c \in Consumers :
       \/ LoopEnd(c) \/ LoopConsume(c) \/ LoopEmpty(c)
       \/ CheckFlag(c) \/ Drain(c) \/ DrainEnd(c)
  \/ AllDone

Spec == Init /\ [][Next]_vars

-----------------------------------------------------------------------------
(* Properties. *)

\* The variables keep the shape of the code's fields; a sample is an unsigned
\* number, and a tracker never outgrows what it reserved.
TypeOK ==
  /\ log \in Seq(Messages) /\ joined = Consumers
  /\ cursor \in [Consumers -> 1 .. N + 1]
  /\ delivered \in [Consumers -> Seq(Messages)]
  /\ type_idx \in 0 .. 2
  /\ i \in 1 .. N + 1
  /\ published \in [Types -> 0 .. N]
  /\ shutdown_flag \in BOOLEAN /\ now \in 0 .. MaxTime
  /\ pc \in [Consumers -> {"run", "waited", "drain", "done"}]
  /\ tally \in [Consumers -> [Types -> 0 .. N]]
  /\ samples \in [Consumers -> Seq(0 .. Word - 1)]
  /\ \A c \in Consumers : Len(samples[c]) <= Capacity[c]
  /\ elapsed \in [Consumers -> Seq(0 .. MaxTime)]

\* The messages of each type among those delivered to c.
Census(c) ==
  [t \in Types |-> Cardinality({k \in DOMAIN delivered[c] : delivered[c][k].type = t})]

\* A consumer's counts are a census of what it has received, and when it is done
\* they agree with the producer's type by type, although refused messages change
\* type on their retry; only in the drain of the demo do they fall behind.
TalliesAgree ==
  \A c \in Consumers : (c \in DemoThreads => pc[c] \in {"run", "waited"}) =>
    /\ tally[c] = Census(c)
    /\ pc[c] = "done" => tally[c] = published

Min2(a, b) == IF b < a THEN b ELSE a

\* The samples are the ages of the first messages handled, each from the
\* attempt that published it (time spent being refused does not count) to its
\* handling, as far as there was room: exact if the counters agree, also when
\* they wrap around, and off by the skew otherwise, so that a consumer whose
\* counter is behind by more than the age records a number close to 2^64.
SamplesFaithful ==
  \A c \in Consumers :
    /\ Len(samples[c]) = Min2(Capacity[c], Len(delivered[c]))
    /\ \A k \in DOMAIN samples[c] :
         IF elapsed[c][k] + Skew[c] >= 0
         THEN samples[c][k] = elapsed[c][k] + Skew[c]
         ELSE samples[c][k] = Word + elapsed[c][k] + Skew[c]

\* The figures of report() are percentiles of the samples, in order, and the
\* average lies below the maximum.
ReportSound ==
  \A c \in Consumers : pc[c] = "done" /\ samples[c] # <<>> =>
    LET r == Report(samples[c]) IN
    /\ IsPercentile(r.p50, samples[c], 50)
    /\ IsPercentile(r.p95, samples[c], 95)
    /\ IsPercentile(r.p99, samples[c], 99)
    /\ r.p50 <= r.p95 /\ r.p95 <= r.p99 /\ r.p99 <= r.max /\ r.avg <= r.max

=============================================================================
