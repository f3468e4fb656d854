---------------------------- MODULE RunLoopProofs ----------------------------
(***************************************************************************)
(* Safety of the run loops, for any number of consumers with any wait      *)
(* strategies and quotas, any ring size and any number of messages.        *)
(***************************************************************************)
EXTENDS RunLoop, TLAPS

\* Where the producer is, how much it has published, how often it has notified
\* and whether it has set the flag go together.
ProducerInv ==
  /\ ppc = "notify" => i <= N /\ Len(log) = i
  /\ ppc \in {"offer", "final", "ended"} => Len(log) = i - 1
  /\ ppc \in {"final", "ended"} => i = N + 1
  /\ \A k \in 1 .. Len(log) : log[k] = k
  /\ \A p \in Parties : /\ efd[p] <= IF ppc = "ended" THEN i ELSE i - 1
                        /\ shutdown_flag[p] => /\ ppc \in {"final", "ended", "stopped"}
                                               /\ Len(log) = N

\* A consumer that has not left is registered, right after what it has received;
\* it drains only after the shutdown.
ConsumerInv ==
  \A c \in Consumers :
    /\ pc[c] # "gone" => c \in joined /\ cursor[c] = Len(delivered[c]) + 1
    /\ Len(delivered[c]) <= Len(log)
    /\ \A k \in 1 .. Len(delivered[c]) : delivered[c][k] = k
    /\ pc[c] = "drain" => shutdown_flag[Owner(c)]

Inv == TypeOK /\ ProducerInv /\ ConsumerInv /\ CleanExit /\ QuotaKept

\* The steps that only move one consumer and count its spins.
LocalStep(c) ==
  \/ LoopEnd(c) \/ LoopEmpty(c) \/ WaitSpin(c) \/ WaitYield(c) \/ PollCall(c)
  \/ PollReturns(c) \/ PollTimesOut(c) \/ FlagClear(c) \/ FlagSet(c) \/ DrainEnd(c)

USE DEF queueVars, prodVars, consVars, vars, Parties

\* A local step leaves the queue, the eventfds, the flags and the producer alone.
LEMMA LocalStepKeeps ==
  ASSUME NEW c \in Consumers, LocalStep(c)
  PROVE  UNCHANGED <<queueVars, efd, shutdown_flag, prodVars>>
  BY DEF LocalStep, LoopEnd, LoopEmpty, WaitSpin, WaitYield, PollCall, PollReturns,
     PollTimesOut, FlagClear, FlagSet, DrainEnd

\* Every party's eventfd and flag is that of a party.
LEMMA OwnerIsParty == \A p \in Parties : Owner(p) \in Parties
  BY DEF Owner

\* consume() returns the message at the cursor.
LEMMA DeliverStep ==
  ASSUME Inv, NEW c \in Consumers, pc[c] # "gone", Queue!Deliver(c)
  PROVE  /\ UNCHANGED <<log, joined>>
         /\ cursor' \in [Consumers -> 0 .. N + 1]
         /\ cursor'[c] = cursor[c] + 1
         /\ \A d \in Consumers \ {c} : cursor'[d] = cursor[d] /\ delivered'[d] = delivered[d]
         /\ delivered' \in [Consumers -> Seq(1 .. N)]
         /\ Len(delivered'[c]) = Len(delivered[c]) + 1
         /\ Len(delivered'[c]) <= Len(log)
         /\ \A k \in 1 .. Len(delivered'[c]) : delivered'[c][k] = k
<1>1. /\ log \in Seq(1 .. N) /\ Len(log) <= N /\ N \in Nat
      /\ cursor \in [Consumers -> 0 .. N + 1]
      /\ delivered \in [Consumers -> Seq(1 .. N)]
      /\ cursor[c] = Len(delivered[c]) + 1
  BY RunLoopAssumption DEF Inv, TypeOK, ConsumerInv
<1>2. cursor[c] \in 1 .. Len(log) /\ log[cursor[c]] \in 1 .. N
  BY <1>1 DEF Queue!Deliver, Queue!HasMessage
<1>3. /\ Append(delivered[c], log[cursor[c]]) \in Seq(1 .. N)
      /\ Len(Append(delivered[c], log[cursor[c]])) = Len(delivered[c]) + 1
  BY <1>1, <1>2
<1>4. cursor[c] + 1 \in 0 .. N + 1
  BY <1>1, <1>2
<1>5. /\ \A k \in 1 .. Len(delivered[c]) : delivered[c][k] = k
      /\ log[cursor[c]] = Len(delivered[c]) + 1
  BY <1>1, <1>2 DEF Inv, ProducerInv, ConsumerInv
<1>6. \A k \in 1 .. Len(delivered[c]) + 1 : Append(delivered[c], log[cursor[c]])[k] = k
  BY <1>1, <1>2, <1>5
<1> QED
  BY <1>1, <1>2, <1>3, <1>4, <1>6 DEF Queue!Deliver

\* consume() returns false only when everything published was received.
LEMMA EmptyMeansAll ==
  ASSUME Inv, NEW c \in Consumers, pc[c] # "gone", ~Queue!HasMessage(c)
  PROVE  Len(delivered[c]) = Len(log)
<1>1. Len(delivered[c]) \in Nat /\ Len(log) \in Nat
  BY DEF Inv, TypeOK
<1>2. cursor[c] = Len(delivered[c]) + 1 /\ Len(delivered[c]) <= Len(log)
  BY DEF Inv, ConsumerInv
<1>3. cursor[c] \notin 1 .. Len(log)
  BY DEF Queue!HasMessage
<1> QED
  BY ONLY <1>1, <1>2, <1>3

\* Every step keeps the types.
LEMMA TypeStep ==
  ASSUME Inv, [Next]_vars
  PROVE  TypeOK'
<1> USE RunLoopAssumption DEF Inv, TypeOK
<1>1. CASE PublishOk
  <2>1. i \in 1 .. N /\ Len(log) = i - 1
    BY <1>1 DEF PublishOk, ProducerInv
  <2>2. Append(log, i) \in Seq(1 .. N) /\ Len(Append(log, i)) = i
    BY <2>1
  <2> QED
    BY <1>1, <2>1, <2>2 DEF PublishOk, Queue!Publish
<1>2. CASE PublishFull
  BY <1>2 DEF PublishFull
<1>3. CASE NotifyAll
  <2>1. i \in 1 .. N /\ efd[Owner(ProducerId)] \in 0 .. i - 1
    BY <1>3, OwnerIsParty DEF NotifyAll, ProducerInv
  <2>2. i + 1 \in 1 .. N + 1 /\ efd[Owner(ProducerId)] + 1 \in 0 .. N + 1
    BY <2>1
  <2> QED
    BY <1>3, <2>2 DEF NotifyAll
<1>4. CASE ShutdownStore
  BY <1>4 DEF ShutdownStore
<1>5. CASE ShutdownNotify
  <2>1. efd[Owner(ProducerId)] + 1 \in 0 .. N + 1
    BY <1>5, OwnerIsParty DEF ShutdownNotify, ProducerInv
  <2> QED
    BY <1>5, <2>1 DEF ShutdownNotify
<1>6. CASE ProducerStops
  BY <1>6 DEF ProducerStops
<1>7. ASSUME NEW c \in Consumers, LocalStep(c)
      PROVE  TypeOK'
  <2>1. UNCHANGED <<queueVars, efd, shutdown_flag, prodVars>>
    BY <1>7, LocalStepKeeps
  <2>2. pc' \in [Consumers -> {"loop", "wait", "poll", "read", "flag", "drain",
                               "exit", "gone"}]
    BY <1>7 DEF LocalStep, LoopEnd, LoopEmpty, WaitSpin, WaitYield, PollCall,
       PollReturns, PollTimesOut, FlagClear, FlagSet, DrainEnd, Goto
  <2>3. spin_count' \in [Consumers -> 0 .. SpinLimit]
    <3>1. CASE WaitSpin(c)
      <4>1. (IF Strategy[c] = "spin" THEN spin_count[c] ELSE spin_count[c] + 1)
              \in 0 .. SpinLimit
        BY <3>1 DEF WaitSpin
      <4> QED
        BY <3>1, <4>1 DEF WaitSpin
    <3>2. CASE ~WaitSpin(c)
      BY <1>7, <3>2 DEF LocalStep, LoopEnd, LoopEmpty, WaitYield, PollCall,
         PollReturns, PollTimesOut, FlagClear, FlagSet, DrainEnd
    <3> QED
      BY <3>1, <3>2
  <2> QED
    BY <2>1, <2>2, <2>3
<1>8. ASSUME NEW c \in Consumers, LoopConsume(c) \/ Drain(c)
      PROVE  TypeOK'
  <2>1. pc[c] # "gone" /\ Queue!Deliver(c)
    BY <1>8 DEF LoopConsume, Drain, Goto
  <2>2. /\ UNCHANGED <<log, joined>>
        /\ cursor' \in [Consumers -> 0 .. N + 1]
        /\ delivered' \in [Consumers -> Seq(1 .. N)]
    BY <2>1, DeliverStep
  <2>3. UNCHANGED <<efd, shutdown_flag, prodVars>> /\ pc' = [pc EXCEPT ![c] = pc[c]]
    BY <1>8 DEF LoopConsume, Drain, Goto
  <2>4. spin_count' \in [Consumers -> 0 .. SpinLimit]
    <3>1. spin_count' = spin_count \/ spin_count' = [spin_count EXCEPT ![c] = 0]
      BY <1>8 DEF LoopConsume, Drain
    <3>2. 0 \in 0 .. SpinLimit /\ spin_count \in [Consumers -> 0 .. SpinLimit]
      OBVIOUS
    <3> QED
      BY ONLY <3>1, <3>2
  <2> QED
    BY <2>2, <2>3, <2>4
<1>9. ASSUME NEW c \in Consumers, PollRead(c)
      PROVE  TypeOK'
  BY <1>9, OwnerIsParty DEF PollRead, Goto
<1>10. ASSUME NEW c \in Consumers, Destroy(c)
       PROVE  TypeOK'
  BY <1>10 DEF Destroy, Goto, Queue!Leave
<1>11. CASE UNCHANGED vars
  BY <1>11
<1> QED
  BY <1>1, <1>2, <1>3, <1>4, <1>5, <1>6, <1>7, <1>8, <1>9, <1>10, <1>11
  DEF Next, Producer, Consumer, LocalStep, Terminated

\* Every step keeps the producer's books.
LEMMA ProducerInvStep ==
  ASSUME Inv, [Next]_vars
  PROVE  ProducerInv'
<1> USE RunLoopAssumption DEF Inv, TypeOK, ProducerInv
<1>1. CASE PublishOk
  <2>1. i \in 1 .. N /\ Len(log) = i - 1 /\ ppc' = "notify" /\ ppc = "offer"
    BY <1>1 DEF PublishOk
  <2>2. Len(log') = i /\ \A k \in 1 .. i : log'[k] = k
    BY <1>1, <2>1 DEF PublishOk, Queue!Publish
  <2> QED
    BY <1>1, <2>1, <2>2 DEF PublishOk
<1>2. CASE NotifyAll
  <2>1. /\ ppc = "notify" /\ ppc' = "offer" /\ i' = i + 1 /\ i \in 1 .. N
        /\ UNCHANGED <<log, shutdown_flag>>
        /\ efd' = [efd EXCEPT ![Owner(ProducerId)] = @ + 1]
    BY <1>2 DEF NotifyAll
  <2>2. \A p \in Parties : efd'[p] <= i
    BY <2>1
  <2> QED
    BY <2>1, <2>2
<1>3. CASE ShutdownStore
  BY <1>3 DEF ShutdownStore
<1>4. CASE ShutdownNotify
  BY <1>4, OwnerIsParty DEF ShutdownNotify
<1>5. CASE ProducerStops
  BY <1>5 DEF ProducerStops
<1>6. ASSUME NEW c \in Consumers, PollRead(c)
      PROVE  ProducerInv'
  <2>1. /\ UNCHANGED <<queueVars, shutdown_flag, prodVars>>
        /\ efd' = [efd EXCEPT ![Owner(c)] = IF @ > 0 THEN @ - 1 ELSE 0]
    BY <1>6 DEF PollRead
  <2>2. ASSUME NEW p \in Parties
        PROVE  efd'[p] <= IF ppc = "ended" THEN i ELSE i - 1
    <3>1. efd[p] \in Nat /\ efd[p] <= IF ppc = "ended" THEN i ELSE i - 1
      OBVIOUS
    <3>2. efd'[p] \in {efd[p], efd[p] - 1}
      BY <2>1, <3>1
    <3> QED
      BY <3>1, <3>2
  <2> QED
    BY <2>1, <2>2
<1>7. ASSUME NEW c \in Consumers, LocalStep(c) \/ LoopConsume(c) \/ Drain(c) \/ Destroy(c)
      PROVE  ProducerInv'
  <2>1. UNCHANGED <<log, efd, shutdown_flag, prodVars>>
    BY <1>7, LocalStepKeeps DEF LoopConsume, Drain, Destroy, Queue!Deliver, Queue!Leave
  <2> QED
    BY <2>1
<1>8. CASE PublishFull \/ UNCHANGED vars
  BY <1>8 DEF PublishFull
<1> QED
  BY <1>1, <1>2, <1>3, <1>4, <1>5, <1>6, <1>7, <1>8
  DEF Next, Producer, Consumer, LocalStep, Terminated

\* Every step keeps a consumer's cursor right after what it has received.
LEMMA ConsumerInvStep ==
  ASSUME Inv, [Next]_vars
  PROVE  ConsumerInv'
<1> USE RunLoopAssumption DEF Inv, TypeOK, ConsumerInv
<1>1. CASE PublishOk
  <2>1. /\ Len(log') = Len(log) + 1
        /\ UNCHANGED <<joined, cursor, delivered, shutdown_flag, pc>>
    BY <1>1 DEF PublishOk, Queue!Publish
  <2> QED
    BY <2>1
<1>2. CASE NotifyAll \/ ShutdownNotify \/ ProducerStops
  <2>1. UNCHANGED <<queueVars, shutdown_flag, pc>>
    BY <1>2 DEF NotifyAll, ShutdownNotify, ProducerStops
  <2> QED
    BY <2>1
<1>3. CASE ShutdownStore
  <2>1. /\ UNCHANGED <<queueVars, pc>>
        /\ \A p \in Parties : shutdown_flag[p] => shutdown_flag'[p]
    BY <1>3 DEF ShutdownStore
  <2> QED
    BY <2>1, OwnerIsParty
<1>4. ASSUME NEW c \in Consumers, LocalStep(c)
      PROVE  ConsumerInv'
  <2>1. UNCHANGED <<queueVars, efd, shutdown_flag, prodVars>>
    BY <1>4, LocalStepKeeps
  <2>2. /\ pc[c] # "gone"
        /\ \A d \in Consumers \ {c} : pc'[d] = pc[d]
        /\ pc'[c] = "drain" => shutdown_flag[Owner(c)]
    BY <1>4 DEF LocalStep, LoopEnd, LoopEmpty, WaitSpin, WaitYield, PollCall,
       PollReturns, PollTimesOut, FlagClear, FlagSet, DrainEnd, Goto
  <2> QED
    BY <2>1, <2>2
<1>5. ASSUME NEW c \in Consumers, LoopConsume(c) \/ Drain(c)
      PROVE  ConsumerInv'
  <2>1. pc[c] # "gone" /\ Queue!Deliver(c)
    BY <1>5 DEF LoopConsume, Drain, Goto
  <2>2. UNCHANGED shutdown_flag /\ \A d \in Consumers : pc'[d] = pc[d]
    BY <1>5 DEF LoopConsume, Drain, Goto
  <2>3. /\ UNCHANGED <<log, joined>>
        /\ cursor'[c] = cursor[c] + 1
        /\ \A d \in Consumers \ {c} : cursor'[d] = cursor[d] /\ delivered'[d] = delivered[d]
        /\ Len(delivered'[c]) = Len(delivered[c]) + 1
        /\ Len(delivered'[c]) <= Len(log)
        /\ \A k \in 1 .. Len(delivered'[c]) : delivered'[c][k] = k
    BY <2>1, DeliverStep
  <2> QED
    BY <2>2, <2>3
<1>6. ASSUME NEW c \in Consumers, PollRead(c)
      PROVE  ConsumerInv'
  <2>1. /\ UNCHANGED <<queueVars, shutdown_flag>> /\ pc[c] = "read" /\ pc'[c] = "flag"
        /\ \A d \in Consumers \ {c} : pc'[d] = pc[d]
    BY <1>6 DEF PollRead, Goto
  <2> QED
    BY <2>1
<1>7. ASSUME NEW c \in Consumers, Destroy(c)
      PROVE  ConsumerInv'
  <2>1. /\ UNCHANGED <<log, delivered, shutdown_flag>> /\ pc'[c] = "gone"
        /\ \A d \in Consumers \ {c} : /\ pc'[d] = pc[d] /\ cursor'[d] = cursor[d]
                                      /\ d \in joined => d \in joined'
    BY <1>7 DEF Destroy, Goto, Queue!Leave
  <2> QED
    BY <2>1
<1>8. CASE PublishFull \/ UNCHANGED vars
  BY <1>8 DEF PublishFull
<1> QED
  BY <1>1, <1>2, <1>3, <1>4, <1>5, <1>6, <1>7, <1>8
  DEF Next, Producer, Consumer, LocalStep, Terminated

\* No step before the shutdown lets a consumer exceed its quota.
LEMMA QuotaStep ==
  ASSUME Inv, [Next]_vars
  PROVE  QuotaKept'
<1> USE RunLoopAssumption DEF Inv, TypeOK, QuotaKept
<1>1. CASE UNCHANGED <<delivered, shutdown_flag>>
  BY <1>1
<1>2. CASE ShutdownStore
  <2>1. /\ UNCHANGED delivered
        /\ \A p \in Parties : shutdown_flag[p] => shutdown_flag'[p]
    BY <1>2 DEF ShutdownStore
  <2> QED
    BY <2>1, OwnerIsParty
<1>3. ASSUME NEW c \in Consumers, LoopConsume(c) \/ Drain(c)
      PROVE  QuotaKept'
  <2>1. pc[c] # "gone" /\ Queue!Deliver(c) /\ UNCHANGED shutdown_flag
    BY <1>3 DEF LoopConsume, Drain, Goto
  <2>2. /\ \A d \in Consumers \ {c} : delivered'[d] = delivered[d]
        /\ Len(delivered'[c]) = Len(delivered[c]) + 1
    BY <2>1, DeliverStep
  <2>3. shutdown_flag[Owner(c)] \/ ~Reached(c)
    BY <1>3 DEF LoopConsume, Drain, Goto, ConsumerInv
  <2>4. MaxMessages[c] > 0 /\ ~shutdown_flag[Owner(c)] =>
          Len(delivered'[c]) <= MaxMessages[c]
    BY <2>2, <2>3 DEF Reached
  <2> QED
    BY <2>1, <2>2, <2>4
<1>4. CASE PublishOk \/ PublishFull \/ NotifyAll \/ ShutdownNotify \/ ProducerStops
  BY <1>1, <1>4 DEF PublishOk, Queue!Publish, PublishFull, NotifyAll, ShutdownNotify,
     ProducerStops
<1>5. ASSUME NEW c \in Consumers, LocalStep(c) \/ PollRead(c) \/ Destroy(c)
      PROVE  QuotaKept'
  BY <1>1, <1>5, LocalStepKeeps DEF PollRead, Destroy, Queue!Leave
<1>6. CASE UNCHANGED vars
  BY <1>1, <1>6
<1> QED
  BY <1>2, <1>3, <1>4, <1>5, <1>6 DEF Next, Producer, Consumer, LocalStep, Terminated

\* A consumer takes the exit with its quota or the whole run, and receives
\* nothing after it.
LEMMA ExitStep ==
  ASSUME Inv, [Next]_vars
  PROVE  CleanExit'
<1> USE RunLoopAssumption DEF Inv, TypeOK, CleanExit, Reached
<1>1. CASE UNCHANGED <<delivered, pc>>
  BY <1>1
<1>2. ASSUME NEW c \in Consumers, LoopConsume(c) \/ Drain(c)
      PROVE  CleanExit'
  <2>1. pc[c] \in {"loop", "drain"} /\ Queue!Deliver(c)
    BY <1>2 DEF LoopConsume, Drain, Goto
  <2>2. \A d \in Consumers \ {c} : delivered'[d] = delivered[d]
    BY <2>1, DeliverStep
  <2>3. \A d \in Consumers : pc'[d] = pc[d]
    BY <1>2 DEF LoopConsume, Drain, Goto
  <2> QED
    BY <2>1, <2>2, <2>3
<1>3. ASSUME NEW c \in Consumers, LoopEnd(c)
      PROVE  CleanExit'
  BY <1>3 DEF LoopEnd, Goto
<1>4. ASSUME NEW c \in Consumers, DrainEnd(c)
      PROVE  CleanExit'
  <2>1. /\ UNCHANGED delivered /\ pc[c] = "drain" /\ ~Queue!HasMessage(c)
        /\ \A d \in Consumers \ {c} : pc'[d] = pc[d]
    BY <1>4 DEF DrainEnd, Goto
  <2>2. Len(log) = N
    BY <2>1, OwnerIsParty DEF ProducerInv, ConsumerInv
  <2>3. Len(delivered[c]) = N /\ \A k \in 1 .. N : delivered[c][k] = k
    BY <2>1, <2>2, EmptyMeansAll DEF ConsumerInv
  <2>4. delivered[c] = [k \in 1 .. N |-> k]
    BY <2>3
  <2> QED
    BY <2>1, <2>4
<1>5. ASSUME NEW c \in Consumers, LocalStep(c) \/ PollRead(c) \/ Destroy(c),
             ~LoopEnd(c), ~DrainEnd(c)
      PROVE  CleanExit'
  <2>1. UNCHANGED delivered
    BY <1>5, LocalStepKeeps DEF PollRead, Destroy, Queue!Leave
  <2>2. \A d \in Consumers \ {c} : pc'[d] = pc[d]
    BY <1>5 DEF LocalStep, LoopEmpty, WaitSpin, WaitYield, PollCall, PollReturns,
       PollTimesOut, FlagClear, FlagSet, PollRead, Destroy, Goto
  <2>3. pc'[c] \in {"exit", "gone"} => pc[c] = "exit"
    BY <1>5 DEF LocalStep, LoopEmpty, WaitSpin, WaitYield, PollCall, PollReturns,
       PollTimesOut, FlagClear, FlagSet, PollRead, Destroy, Goto
  <2> QED
    BY <2>1, <2>2, <2>3
<1>6. CASE PublishOk \/ PublishFull \/ NotifyAll \/ ShutdownStore \/ ShutdownNotify
           \/ ProducerStops
  BY <1>1, <1>6 DEF PublishOk, Queue!Publish, PublishFull, NotifyAll, ShutdownStore,
     ShutdownNotify, ProducerStops
<1>7. CASE UNCHANGED vars
  BY <1>1, <1>7
<1> QED
  BY <1>2, <1>3, <1>4, <1>5, <1>6, <1>7
  DEF Next, Producer, Consumer, LocalStep, Terminated

\* The invariant holds throughout.
LEMMA Invariance == Spec => []Inv
<1>1. ASSUME Init
      PROVE  Inv
  <2> USE RunLoopAssumption DEF Init
  <2>1. TypeOK
    BY <1>1 DEF TypeOK
  <2>2. ProducerInv
    BY <1>1 DEF ProducerInv
  <2>3. ConsumerInv /\ CleanExit /\ QuotaKept
    BY <1>1 DEF ConsumerInv, CleanExit, QuotaKept
  <2> QED
    BY <2>1, <2>2, <2>3 DEF Inv
<1>2. Inv /\ [Next]_vars => Inv'
  BY TypeStep, ProducerInvStep, ConsumerInvStep, QuotaStep, ExitStep DEF Inv
<1> QED
  BY <1>1, <1>2, PTL DEF Spec

-----------------------------------------------------------------------------
(* Wakeups. *)

\* The threads of the demo: one eventfd that one thread at most sleeps on, and a
\* producer that cannot die alone.
SoleSleeper == Threads /\ ~ProducerMayStop /\ \A c, d \in Blockers : c = d

\* From the consume() that found the queue empty until poll() returns, the
\* counter of the eventfd covers the messages published since; a consumer that
\* has seen the flag clear has not read the final notification.
WakeInv ==
  /\ ppc # "stopped"
  /\ \A c \in Consumers : pc[c] \in {"poll", "read"} => c \in Blockers
  /\ \A c \in Blockers :
       /\ pc[c] \in {"wait", "poll"} =>
            Len(log) <= Len(delivered[c]) + efd[ProducerId]
                          + IF ppc = "notify" THEN 1 ELSE 0
       /\ pc[c] \in {"loop", "wait", "poll"} /\ shutdown_flag[ProducerId] =>
            ppc = "final" \/ efd[ProducerId] > 0

\* Every step of the producer keeps the sleeper covered.
LEMMA WakeByProducer ==
  ASSUME SoleSleeper, Inv, WakeInv, Producer \/ ProducerStops
  PROVE  WakeInv'
<1> USE RunLoopAssumption DEF Inv, TypeOK, WakeInv, Blockers
<1>1. Owner(ProducerId) = ProducerId
  BY DEF Owner
<1>2. efd[ProducerId] \in Nat /\ Len(log) \in Nat /\ \A c \in Consumers : Len(delivered[c]) \in Nat
  OBVIOUS
<1>3. CASE PublishOk
  <2>1. /\ ppc = "offer" /\ ppc' = "notify" /\ Len(log') = Len(log) + 1
        /\ UNCHANGED <<delivered, efd, shutdown_flag, pc>>
    BY <1>3 DEF PublishOk, Queue!Publish
  <2>2. ~shutdown_flag[ProducerId]
    BY <2>1 DEF ProducerInv
  <2> QED
    BY <1>2, <2>1, <2>2
<1>4. CASE NotifyAll
  <2>1. /\ ppc = "notify" /\ ppc' = "offer" /\ efd'[ProducerId] = efd[ProducerId] + 1
        /\ UNCHANGED <<queueVars, shutdown_flag, pc>>
    BY <1>1, <1>4 DEF NotifyAll
  <2> QED
    BY <1>2, <2>1
<1>5. CASE ShutdownStore
  <2>1. ppc = "offer" /\ ppc' = "final" /\ UNCHANGED <<queueVars, efd, pc>>
    BY <1>5 DEF ShutdownStore
  <2> QED
    BY <1>2, <2>1
<1>6. CASE ShutdownNotify
  <2>1. /\ ppc = "final" /\ ppc' = "ended" /\ efd'[ProducerId] = efd[ProducerId] + 1
        /\ UNCHANGED <<queueVars, pc>>
    BY <1>1, <1>6 DEF ShutdownNotify
  <2> QED
    BY <1>2, <2>1
<1>7. CASE PublishFull
  BY <1>7 DEF PublishFull
<1>8. ~ProducerStops
  BY DEF SoleSleeper, ProducerStops
<1> QED
  BY <1>3, <1>4, <1>5, <1>6, <1>7, <1>8 DEF Producer

\* So does every step of a consumer: only the sleeper itself takes from the
\* counter, and it looks at the flag and at the queue before it sleeps again.
LEMMA WakeByConsumer ==
  ASSUME SoleSleeper, Inv, WakeInv, NEW c \in Consumers, Consumer(c)
  PROVE  WakeInv'
<1> USE RunLoopAssumption DEF Inv, TypeOK, WakeInv, Blockers
<1>1. Owner(c) = ProducerId
  BY DEF Owner, SoleSleeper
<1>2. UNCHANGED <<log, shutdown_flag, prodVars>>
  BY LocalStepKeeps DEF Consumer, LocalStep, LoopConsume, Drain, PollRead, Destroy,
     Queue!Deliver, Queue!Leave
<1>3. \A d \in Consumers \ {c} : pc'[d] = pc[d] /\ delivered'[d] = delivered[d]
  <2>1. \A d \in Consumers \ {c} : pc'[d] = pc[d]
    BY DEF Consumer, LoopEnd, LoopConsume, LoopEmpty, WaitSpin, WaitYield, PollCall,
       PollReturns, PollTimesOut, PollRead, FlagClear, FlagSet, Drain, DrainEnd,
       Destroy, Goto
  <2>2. \A d \in Consumers \ {c} : delivered'[d] = delivered[d]
    BY LocalStepKeeps DEF Consumer, LocalStep, LoopConsume, Drain, PollRead, Destroy,
       Queue!Deliver, Queue!Leave
  <2> QED
    BY <2>1, <2>2
<1>4. CASE PollRead(c)
  <2>1. pc[c] = "read" /\ pc'[c] = "flag"
    BY <1>4 DEF PollRead, Goto
  <2>2. \A d \in Blockers : d = c
    BY <2>1 DEF SoleSleeper
  <2> QED
    BY <1>2, <1>3, <2>1, <2>2
<1>5. CASE LoopConsume(c) \/ Drain(c) \/ Destroy(c)
  <2>1. UNCHANGED efd /\ pc'[c] \in {"loop", "drain", "gone"} /\ (pc'[c] = "loop" => pc[c] = "loop")
    BY <1>5 DEF LoopConsume, Drain, Destroy, Goto
  <2> QED
    BY <1>2, <1>3, <2>1
<1>6. CASE LocalStep(c)
  <2>1. UNCHANGED <<queueVars, efd>>
    BY <1>6, LocalStepKeeps
  <2>2. pc'[c] \in {"poll", "read"} => c \in Blockers
    BY <1>6 DEF LocalStep, LoopEnd, LoopEmpty, WaitSpin, WaitYield, PollCall,
       PollReturns, PollTimesOut, FlagClear, FlagSet, DrainEnd, Goto
  <2>3. pc'[c] \in {"wait", "poll"} => pc[c] = "wait" \/ Len(log) = Len(delivered[c])
    <3>1. CASE LoopEmpty(c)
      <4>1. pc[c] = "loop" /\ ~Queue!HasMessage(c)
        BY <3>1 DEF LoopEmpty, Goto
      <4> QED
        BY <4>1, EmptyMeansAll
    <3>2. CASE ~LoopEmpty(c)
      BY <1>6, <3>2 DEF LocalStep, LoopEnd, WaitSpin, WaitYield, PollCall,
         PollReturns, PollTimesOut, FlagClear, FlagSet, DrainEnd, Goto
    <3> QED
      BY <3>1, <3>2
  <2>4. pc'[c] \in {"loop", "wait", "poll"} =>
          pc[c] \in {"loop", "wait"} \/ ~shutdown_flag[ProducerId]
    BY <1>1, <1>6 DEF LocalStep, LoopEnd, LoopEmpty, WaitSpin, WaitYield, PollCall,
       PollReturns, PollTimesOut, FlagClear, FlagSet, DrainEnd, Goto
  <2>5. efd[ProducerId] \in Nat /\ Len(delivered[c]) \in Nat
    OBVIOUS
  <2>6. ASSUME c \in Blockers, pc'[c] \in {"wait", "poll"}
        PROVE  Len(log) <= Len(delivered[c]) + efd[ProducerId]
                             + IF ppc = "notify" THEN 1 ELSE 0
    BY <2>3, <2>5, <2>6
  <2>7. ASSUME c \in Blockers, pc'[c] \in {"loop", "wait", "poll"},
               shutdown_flag[ProducerId]
        PROVE  ppc = "final" \/ efd[ProducerId] > 0
    BY <2>4, <2>7
  <2> QED
    BY <1>2, <1>3, <2>1, <2>2, <2>6, <2>7
<1> QED
  BY <1>4, <1>5, <1>6 DEF Consumer, LocalStep

-----------------------------------------------------------------------------

\* The locals of the loops and the eventfd counter keep their types and bounds.
THEOREM TypeCorrect == Spec => []TypeOK
<1>1. Inv => TypeOK
  BY DEF Inv
<1> QED
  BY <1>1, Invariance, PTL

\* Consumer::run and consumer_thread end only with the quota or with everything
\* received: the drain after the shutdown flag loses no message.
THEOREM ExitsAreClean == Spec => []CleanExit
<1>1. Inv => CleanExit
  BY DEF Inv
<1> QED
  BY <1>1, Invariance, PTL

\* Before the shutdown no consumer handles more than max_messages.
THEOREM QuotasHold == Spec => []QuotaKept
<1>1. Inv => QuotaKept
  BY DEF Inv
<1> QED
  BY <1>1, Invariance, PTL

\* If one thread at most blocks on the eventfd, BlockingWaitStrategy loses no
\* wakeup, with any number of spinning and yielding threads beside it.
THEOREM WakeupsArrive ==
  ASSUME SoleSleeper
  PROVE  Spec => []NoMissedWakeup
<1>1. ASSUME Init
      PROVE  WakeInv
  BY <1>1 DEF Init, WakeInv
<1>2. Inv /\ WakeInv /\ [Next]_vars => WakeInv'
  <2> SUFFICES ASSUME Inv, WakeInv, [Next]_vars
               PROVE  WakeInv'
    OBVIOUS
  <2>1. CASE UNCHANGED vars
    BY <2>1 DEF WakeInv
  <2> QED
    BY <2>1, WakeByProducer, WakeByConsumer DEF Next, Terminated
<1>3. ASSUME Inv, WakeInv
      PROVE  NoMissedWakeup
  <2> SUFFICES ASSUME NEW c \in Blockers, pc[c] = "poll", efd[Owner(c)] = 0
               PROVE  /\ Queue!HasMessage(c) => ppc = "notify"
                      /\ shutdown_flag[Owner(c)] => ppc = "final"
    BY DEF NoMissedWakeup
  <2>1. c \in Consumers /\ Owner(c) = ProducerId
    BY DEF Blockers, Owner, SoleSleeper
  <2>2. /\ Len(delivered[c]) \in Nat /\ Len(log) \in Nat
        /\ cursor[c] = Len(delivered[c]) + 1
    BY <1>3, <2>1 DEF Inv, TypeOK, ConsumerInv
  <2> QED
    BY <1>3, <2>1, <2>2 DEF WakeInv, Queue!HasMessage
<1> QED
  BY <1>1, <1>2, <1>3, Invariance, PTL DEF Spec

=============================================================================
