--------------------------- MODULE ReportingProofs ---------------------------
(***************************************************************************)
(* The counts and the samples, for any number of messages and consumers,   *)
(* any ring size, any capacity of the trackers and any skew of the         *)
(* counters within a word.                                                 *)
(***************************************************************************)
EXTENDS Reporting, LatencyTrackerProofs, SequenceTheorems

-----------------------------------------------------------------------------
(* Arithmetic of unsigned subtraction. *)

\* A number is its quotient's multiple and its remainder.
LEMMA DivMod ==
  ASSUME NEW w \in Nat \ {0}, NEW x \in Int
  PROVE  x \div w \in Int /\ x % w \in 0 .. w - 1 /\ x = w * (x \div w) + (x % w)
<1>1. x \div w \in Int /\ x % w \in 0 .. w - 1
  OBVIOUS
<1>2. x = w * (x \div w) + (x % w)
  OBVIOUS
<1> QED
  BY <1>1, <1>2

\* Two words that differ by a multiple of the word size are equal.
LEMMA SameWord ==
  ASSUME NEW w \in Nat \ {0}, NEW k \in Int, NEW x \in 0 .. w - 1, NEW y \in 0 .. w - 1,
         x - y = w * k
  PROVE  x = y
<1>1. k >= 1 => w * k >= w
  OBVIOUS
<1>2. k <= -1 => w * k <= -w
  OBVIOUS
<1>3. k = 0
  BY <1>1, <1>2
<1>4. w * 0 = 0
  OBVIOUS
<1> QED
  BY <1>3, <1>4

\* Subtracting two counters that may each have wrapped gives their distance, as
\* a word.
LEMMA WrappedDifference ==
  ASSUME NEW w \in Nat \ {0}, NEW a \in Int, NEW b \in Int, a - b \in -w .. w - 1
  PROVE  ((a % w) - (b % w)) % w = IF a - b >= 0 THEN a - b ELSE w + (a - b)
<1> DEFINE qa == a \div w
           ra == a % w
           qb == b \div w
           rb == b % w
           d  == ra - rb
           x  == d % w
           qd == d \div w
           y  == IF a - b >= 0 THEN a - b ELSE w + (a - b)
           q  == IF a - b >= 0 THEN 0 ELSE 1
<1>1. qa \in Int /\ ra \in 0 .. w - 1 /\ a = w * qa + ra
  BY DivMod
<1>2. qb \in Int /\ rb \in 0 .. w - 1 /\ b = w * qb + rb
  BY DivMod
<1> HIDE DEF qa, ra, qb, rb
<1>3. d \in Int
  BY <1>1, <1>2
<1>4. qd \in Int /\ x \in 0 .. w - 1 /\ d = w * qd + x
  BY <1>3, DivMod
<1> HIDE DEF qd, x
<1>5. y \in 0 .. w - 1 /\ q \in Int /\ y = a - b + w * q
  OBVIOUS
<1> HIDE DEF y, q
<1>6. x - y = w * qb - w * qa - w * qd - w * q
  BY <1>1, <1>2, <1>4, <1>5
<1>7. w * qb - w * qa - w * qd - w * q = w * (qb - qa - qd - q)
  BY <1>1, <1>2, <1>4, <1>5
<1>8. qb - qa - qd - q \in Int
  BY <1>1, <1>2, <1>4, <1>5
<1>9. x = y
  BY <1>4, <1>5, <1>6, <1>7, <1>8, SameWord
<1> QED
  BY <1>9 DEF x, y, ra, rb

-----------------------------------------------------------------------------
(* Counting messages by type. *)

\* The messages of type t in s.
Count(s, t) == Cardinality({k \in DOMAIN s : s[k].type = t})

\* A count is at most the number of messages.
LEMMA CountBound ==
  ASSUME NEW s \in Seq(Messages), NEW t
  PROVE  Count(s, t) \in 0 .. Len(s)
<1> DEFINE S == {k \in DOMAIN s : s[k].type = t}
<1>1. Len(s) \in Nat /\ S \in SUBSET (1 .. Len(s))
  OBVIOUS
<1>2. IsFiniteSet(1 .. Len(s)) /\ Cardinality(1 .. Len(s)) = Len(s)
  <2>1. /\ IsFiniteSet(1 .. Len(s))
        /\ Cardinality(1 .. Len(s)) = IF 1 > Len(s) THEN 0 ELSE Len(s) - 1 + 1
    BY <1>1, FS_Interval
  <2> QED
    BY <1>1, <2>1
<1> HIDE DEF S
<1>3. IsFiniteSet(S) /\ Cardinality(S) <= Len(s)
  BY <1>1, <1>2, FS_Subset
<1>4. Cardinality(S) \in Nat
  BY <1>3, FS_CardinalityType
<1> QED
  BY <1>1, <1>3, <1>4 DEF Count, S

\* One more message is one more of its type.
LEMMA CountAppend ==
  ASSUME NEW s \in Seq(Messages), NEW m \in Messages, NEW t
  PROVE  Count(Append(s, m), t) = IF m.type = t THEN Count(s, t) + 1 ELSE Count(s, t)
<1> DEFINE S == {k \in DOMAIN s : s[k].type = t}
           A == Append(s, m)
           T == {k \in DOMAIN A : A[k].type = t}
           n == Len(s) + 1
<1>1. /\ Len(s) \in Nat /\ DOMAIN s = 1 .. Len(s)
      /\ DOMAIN A = 1 .. n /\ A[n] = m /\ \A k \in 1 .. Len(s) : A[k] = s[k]
  OBVIOUS
<1> HIDE DEF A
<1>2. T = IF m.type = t THEN S \cup {n} ELSE S
  <2>1. \A k \in 1 .. n : k = n \/ k \in 1 .. Len(s)
    BY <1>1
  <2> QED
    BY <1>1, <2>1
<1>3. n \notin S
  BY <1>1
<1>4. IsFiniteSet(S)
  <2>1. IsFiniteSet(1 .. Len(s))
    BY <1>1, FS_Interval
  <2> QED
    BY <1>1, <2>1, FS_Subset
<1> HIDE DEF S, T, n
<1>5. Cardinality(S \cup {n}) = Cardinality(S) + 1
  BY <1>3, <1>4, FS_AddElement
<1>6. Cardinality(T) = IF m.type = t THEN Cardinality(S) + 1 ELSE Cardinality(S)
  BY <1>2, <1>5
<1> QED
  BY <1>6 DEF Count, S, T, A

-----------------------------------------------------------------------------
(* The inductive invariant. *)

\* The log has what the producer's loop has published, stamped when it was
\* built; shutdown() follows the last message.
LogInv ==
  /\ Len(log) = i - 1
  /\ shutdown_flag => i = N + 1
  /\ \A k \in 1 .. Len(log) : /\ log[k].timestamp_ns = (Start + log[k].built) % Word
                               /\ log[k].built <= now

\* A consumer has received a prefix of the log, all of it once it is done.
ReadInv ==
  \A c \in Consumers :
    /\ cursor[c] = Len(delivered[c]) + 1
    /\ Len(delivered[c]) <= Len(log)
    /\ \A k \in 1 .. Len(delivered[c]) : delivered[c][k] = log[k]
    /\ pc[c] = "drain" => shutdown_flag
    /\ pc[c] = "done" => Len(delivered[c]) = N

\* Whether the loop c is in counts types.
Counts(c) == c \in DemoThreads => pc[c] \in {"run", "waited"}

\* The producer's counts are those of the log; a consumer's are those of what it
\* received, or lower if it has been in the drain of the demo.
CountInv ==
  /\ \A t \in Types : published[t] = Count(log, t)
  /\ \A c \in Consumers, t \in Types :
       /\ tally[c][t] <= Count(delivered[c], t)
       /\ Counts(c) => tally[c][t] = Count(delivered[c], t)

\* A word that stands for the number v.
AsWord(v) == IF v >= 0 THEN v ELSE Word + v

\* Every message handled has an age, and the first ones a sample of it.
SampleInv ==
  \A c \in Consumers :
    /\ Len(elapsed[c]) = Len(delivered[c])
    /\ Len(samples[c]) = Min2(Capacity[c], Len(delivered[c]))
    /\ \A k \in 1 .. Len(samples[c]) : samples[c][k] = AsWord(elapsed[c][k] + Skew[c])

Inv == TypeOK /\ LogInv /\ ReadInv /\ CountInv /\ SampleInv

\* A consumer that only changes its place.
Moves(c) == LoopEnd(c) \/ LoopEmpty(c) \/ CheckFlag(c) \/ DrainEnd(c)

\* A consumer that handles a message.
Handles(c) == LoopConsume(c) \/ Drain(c)

USE DEF queueVars, prodVars, consVars, vars

\* What handling a message does: the message is the one at the cursor.
LEMMA HandleStep ==
  ASSUME Inv, NEW c \in Consumers, Handles(c)
  PROVE  /\ cursor[c] \in 1 .. Len(log) /\ log[cursor[c]] \in Messages
         /\ UNCHANGED <<log, joined, pc, type_idx, i, published, shutdown_flag, now>>
         /\ cursor' = [cursor EXCEPT ![c] = @ + 1]
         /\ delivered' = [delivered EXCEPT ![c] = Append(@, log[cursor[c]])]
         /\ elapsed' = [elapsed EXCEPT ![c] = Append(@, now - log[cursor[c]].built)]
         /\ samples' = [samples EXCEPT ![c] =
              Record(@, Capacity[c], Elapsed(rdtsc(Skew[c]), log[cursor[c]].timestamp_ns))]
         /\ \/ tally' = [tally EXCEPT ![c][log[cursor[c]].type] = @ + 1]
            \/ tally' = tally /\ ~Counts(c)
<1> DEFINE m == log[cursor[c]]
<1>1. PICK counted \in BOOLEAN : Handle(c, m, counted) /\ (~counted => ~Counts(c))
  <2>1. CASE LoopConsume(c)
    BY <2>1 DEF LoopConsume
  <2>2. CASE Drain(c)
    BY <2>2 DEF Drain, Counts, Goto
  <2> QED
    BY <2>1, <2>2 DEF Handles
<1>2. pc' = pc
  <2>1. pc' = [pc EXCEPT ![c] = pc[c]]
    BY DEF Handles, LoopConsume, Drain, Goto
  <2>2. pc \in [Consumers -> {"run", "waited", "drain", "done"}]
    BY DEF Inv, TypeOK
  <2> QED
    BY <2>1, <2>2
<1>3. cursor[c] \in 1 .. Len(log)
  BY <1>1 DEF Handle, Queue!Deliver, Queue!HasMessage
<1>4. m \in Messages
  BY <1>3 DEF Inv, TypeOK
<1> HIDE DEF m
<1>5. /\ UNCHANGED <<log, joined, type_idx, i, published, shutdown_flag, now>>
      /\ elapsed' = [elapsed EXCEPT ![c] = Append(@, now - m.built)]
      /\ samples' = [samples EXCEPT ![c] =
              Record(@, Capacity[c], Elapsed(rdtsc(Skew[c]), m.timestamp_ns))]
      /\ tally' = IF counted THEN onMessage(c, m) ELSE tally
  BY <1>1 DEF Handle, Queue!Deliver
<1>6. /\ cursor' = [cursor EXCEPT ![c] = @ + 1]
      /\ delivered' = [delivered EXCEPT ![c] = Append(@, m)]
  BY <1>1 DEF Handle, Queue!Deliver, m
<1> QED
  BY <1>1, <1>2, <1>3, <1>4, <1>5, <1>6, Zenon DEF m, onMessage

\* What publishing does.
LEMMA PublishStep ==
  ASSUME Inv, PublishOk
  PROVE  /\ NewMessage \in Messages /\ TypeAt(type_idx) \in Types
         /\ NewMessage.type = TypeAt(type_idx) /\ NewMessage.built = now
         /\ NewMessage.timestamp_ns = (Start + NewMessage.built) % Word
         /\ log' = Append(log, NewMessage) /\ log' \in Seq(Messages)
         /\ Len(log') = Len(log) + 1 /\ log'[Len(log) + 1] = NewMessage
         /\ \A k \in 1 .. Len(log) : log'[k] = log[k]
         /\ Len(log') = i /\ i \in 1 .. N /\ i' = i + 1
         /\ published' = [published EXCEPT ![TypeAt(type_idx)] = @ + 1]
         /\ type_idx' = (type_idx + 1) % 3
         /\ UNCHANGED <<joined, cursor, delivered, shutdown_flag, now, pc, tally, samples,
                       elapsed>>
<1> USE ReportingAssumption
<1>1. type_idx \in 0 .. 2 /\ now \in 0 .. MaxTime /\ i \in 1 .. N + 1 /\ log \in Seq(Messages)
  BY DEF Inv, TypeOK
<1>2. TypeAt(type_idx) \in Types
  BY <1>1 DEF TypeAt, Types
<1>3. rdtsc(0) = (Start + now) % Word /\ rdtsc(0) \in 0 .. Word - 1
  <2>1. Start + now \in Int /\ Start + now + 0 = Start + now
    BY <1>1
  <2> QED
    BY <2>1, DivMod DEF rdtsc
<1>4. NewMessage \in Messages
  BY <1>1, <1>2, <1>3 DEF NewMessage, Messages
<1>5. /\ NewMessage.type = TypeAt(type_idx) /\ NewMessage.built = now
      /\ NewMessage.timestamp_ns = (Start + NewMessage.built) % Word
  BY <1>3 DEF NewMessage
<1>6. /\ log' = Append(log, NewMessage) /\ i <= N /\ i' = i + 1
      /\ published' = [published EXCEPT ![TypeAt(type_idx)] = @ + 1]
      /\ type_idx' = (type_idx + 1) % 3
      /\ UNCHANGED <<joined, cursor, delivered, shutdown_flag, now, pc, tally, samples,
                    elapsed>>
  BY DEF PublishOk, Queue!Publish
<1>7. /\ log' \in Seq(Messages)
      /\ Len(log') = Len(log) + 1 /\ log'[Len(log) + 1] = NewMessage
      /\ \A k \in 1 .. Len(log) : log'[k] = log[k]
  BY <1>1, <1>4, <1>6, AppendProperties
<1>8. Len(log) = i - 1
  BY DEF Inv, LogInv
<1> QED
  BY <1>1, <1>2, <1>4, <1>5, <1>6, <1>7, <1>8

\* Every step keeps the log in line with the producer.
LEMMA LogStep ==
  ASSUME Inv, [Next]_vars
  PROVE  LogInv'
<1>1. /\ log \in Seq(Messages) /\ i \in 1 .. N + 1 /\ N \in Nat /\ now \in 0 .. MaxTime
      /\ LogInv /\ MaxTime \in Nat /\ Len(log) \in Nat
  BY ReportingAssumption DEF Inv, TypeOK
<1>2. CASE PublishOk
  <2>1. /\ Len(log') = Len(log) + 1 /\ log'[Len(log) + 1] = NewMessage
        /\ \A k \in 1 .. Len(log) : log'[k] = log[k]
    BY <1>2, PublishStep
  <2>2. /\ NewMessage.built = now /\ NewMessage.timestamp_ns = (Start + NewMessage.built) % Word
        /\ Len(log') = i /\ i' = i + 1 /\ i <= N /\ UNCHANGED <<now, shutdown_flag>>
    BY <1>2, PublishStep
  <2>3. \A k \in 1 .. Len(log') : k \in 1 .. Len(log) \/ k = Len(log) + 1
    BY <1>1, <2>1, <2>2
  <2>4. ASSUME NEW k \in 1 .. Len(log')
        PROVE  log'[k].timestamp_ns = (Start + log'[k].built) % Word /\ log'[k].built <= now'
    <3>1. CASE k \in 1 .. Len(log)
      BY <1>1, <2>1, <2>2, <3>1 DEF LogInv
    <3>2. CASE k = Len(log) + 1
      BY <1>1, <2>1, <2>2, <3>2
    <3> QED
      BY <2>3, <3>1, <3>2
  <2>5. Len(log') = i' - 1 /\ ~shutdown_flag
    BY <1>1, <2>2 DEF LogInv
  <2> QED
    BY <2>2, <2>4, <2>5 DEF LogInv
<1>3. CASE Tick
  <2>1. now' = now + 1 /\ UNCHANGED <<log, i, shutdown_flag>>
    BY <1>3 DEF Tick
  <2>2. \A k \in 1 .. Len(log) : log[k].built \in Int
    <3>1. \A k \in 1 .. Len(log) : log[k] \in Messages
      BY <1>1
    <3>2. \A m \in Messages : m.built \in Int
      BY <1>1 DEF Messages
    <3> QED
      BY <3>1, <3>2
  <2> QED
    BY <1>1, <2>1, <2>2 DEF LogInv
<1>4. CASE Shutdown
  BY <1>1, <1>4 DEF Shutdown, LogInv
<1>5. ASSUME UNCHANGED <<log, i, shutdown_flag, now>>
      PROVE  LogInv'
  BY <1>1, <1>5 DEF LogInv
<1>6. CASE PublishFull \/ AllDone \/ UNCHANGED vars
  BY <1>5, <1>6 DEF PublishFull, AllDone
<1>7. ASSUME NEW c \in Consumers, Moves(c)
      PROVE  LogInv'
  BY <1>5, <1>7 DEF Moves, LoopEnd, LoopEmpty, CheckFlag, DrainEnd
<1>8. ASSUME NEW c \in Consumers, Handles(c)
      PROVE  LogInv'
  BY <1>5, <1>8, HandleStep
<1> QED
  BY <1>2, <1>3, <1>4, <1>6, <1>7, <1>8 DEF Next, Moves, Handles

\* Every step keeps what consumers have received a prefix of the log.
LEMMA ReadStep ==
  ASSUME Inv, [Next]_vars
  PROVE  ReadInv'
<1>1. /\ log \in Seq(Messages) /\ i \in 1 .. N + 1 /\ N \in Nat /\ Len(log) \in Nat
      /\ delivered \in [Consumers -> Seq(Messages)] /\ cursor \in [Consumers -> 1 .. N + 1]
      /\ pc \in [Consumers -> {"run", "waited", "drain", "done"}]
      /\ LogInv /\ ReadInv
  BY ReportingAssumption DEF Inv, TypeOK
<1>2. CASE PublishOk
  <2>1. Len(log') = Len(log) + 1 /\ \A k \in 1 .. Len(log) : log'[k] = log[k]
    BY <1>2, PublishStep
  <2>2. UNCHANGED <<cursor, delivered, pc, shutdown_flag>>
    BY <1>2, PublishStep
  <2>3. ASSUME NEW c \in Consumers
        PROVE  /\ Len(delivered[c]) <= Len(log')
               /\ \A k \in 1 .. Len(delivered[c]) : delivered[c][k] = log'[k]
    <3>1. Len(delivered[c]) \in Nat /\ Len(delivered[c]) <= Len(log)
      BY <1>1 DEF ReadInv
    <3> QED
      BY <1>1, <2>1, <3>1 DEF ReadInv
  <2> QED
    BY <1>1, <2>2, <2>3 DEF ReadInv
<1>3. CASE Shutdown
  BY <1>1, <1>3 DEF Shutdown, ReadInv
<1>4. CASE Tick \/ PublishFull \/ AllDone \/ UNCHANGED vars
  BY <1>1, <1>4 DEF Tick, PublishFull, AllDone, ReadInv
<1>5. ASSUME NEW c \in Consumers, Moves(c)
      PROVE  ReadInv'
  <2>1. UNCHANGED <<log, cursor, delivered, shutdown_flag>>
    BY <1>5 DEF Moves, LoopEnd, LoopEmpty, CheckFlag, DrainEnd
  <2>2. \A d \in Consumers \ {c} : pc'[d] = pc[d]
    BY <1>1, <1>5 DEF Moves, LoopEnd, LoopEmpty, CheckFlag, DrainEnd, Goto
  <2>3. pc'[c] = "drain" => shutdown_flag
    BY <1>1, <1>5 DEF Moves, LoopEnd, LoopEmpty, CheckFlag, DrainEnd, Goto
  <2>4. pc'[c] = "done" => Len(delivered[c]) = N
    <3>1. Len(delivered[c]) \in Nat /\ Len(delivered[c]) <= Len(log) /\ Len(log) <= N
      BY <1>1 DEF ReadInv, LogInv
    <3>2. CASE LoopEnd(c)
      BY <1>1, <3>1, <3>2 DEF LoopEnd
    <3>3. CASE DrainEnd(c)
      <4>1. pc[c] = "drain" /\ ~(cursor[c] \in 1 .. Len(log))
        BY <3>3 DEF DrainEnd, Goto, Queue!HasMessage
      <4>2. shutdown_flag /\ cursor[c] = Len(delivered[c]) + 1
        BY <1>1, <4>1 DEF ReadInv
      <4>3. Len(log) = N
        BY <1>1, <4>2 DEF LogInv
      <4> QED
        BY <1>1, <3>1, <4>1, <4>2, <4>3
    <3>4. CASE LoopEmpty(c) \/ CheckFlag(c)
      BY <1>1, <3>4 DEF LoopEmpty, CheckFlag, Goto
    <3> QED
      BY <1>5, <3>2, <3>3, <3>4 DEF Moves
  <2> QED
    BY <1>1, <2>1, <2>2, <2>3, <2>4 DEF ReadInv
<1>6. ASSUME NEW c \in Consumers, Handles(c)
      PROVE  ReadInv'
  <2>1. /\ cursor[c] \in 1 .. Len(log) /\ log[cursor[c]] \in Messages
        /\ UNCHANGED <<log, pc, shutdown_flag>>
        /\ cursor' = [cursor EXCEPT ![c] = @ + 1]
        /\ delivered' = [delivered EXCEPT ![c] = Append(@, log[cursor[c]])]
    BY <1>6, HandleStep
  <2>2. ASSUME NEW d \in Consumers, d # c
        PROVE  cursor'[d] = cursor[d] /\ delivered'[d] = delivered[d]
    BY <1>1, <2>1, <2>2
  <2>3. cursor'[c] = cursor[c] + 1 /\ delivered'[c] = Append(delivered[c], log[cursor[c]])
    BY <1>1, <2>1
  <2>4. /\ delivered[c] \in Seq(Messages) /\ cursor[c] = Len(delivered[c]) + 1
        /\ Len(delivered[c]) \in Nat
        /\ \A k \in 1 .. Len(delivered[c]) : delivered[c][k] = log[k]
    BY <1>1 DEF ReadInv
  <2>5. /\ Len(delivered'[c]) = cursor[c]
        /\ \A k \in 1 .. Len(delivered'[c]) : delivered'[c][k] = log[k]
    BY <2>1, <2>3, <2>4
  <2>6. pc[c] # "done"
    BY <1>6 DEF Handles, LoopConsume, Drain, Goto
  <2>7. Len(delivered'[c]) <= Len(log)
    BY <1>1, <2>1, <2>5
  <2> QED
    BY <1>1, <2>1, <2>2, <2>3, <2>5, <2>6, <2>7 DEF ReadInv
<1> QED
  BY <1>2, <1>3, <1>4, <1>5, <1>6 DEF Next, Moves, Handles

\* Every step keeps the counts: a refused message is not counted, whatever type
\* its retry will have.
LEMMA CountStep ==
  ASSUME Inv, [Next]_vars
  PROVE  CountInv'
<1>1. /\ log \in Seq(Messages) /\ CountInv
      /\ published \in [Types -> 0 .. N] /\ tally \in [Consumers -> [Types -> 0 .. N]]
      /\ delivered \in [Consumers -> Seq(Messages)]
      /\ pc \in [Consumers -> {"run", "waited", "drain", "done"}]
  BY DEF Inv, TypeOK
<1>2. CASE PublishOk
  <2>1. /\ NewMessage \in Messages /\ NewMessage.type \in Types
        /\ log' = Append(log, NewMessage)
        /\ published' = [published EXCEPT ![NewMessage.type] = @ + 1]
        /\ UNCHANGED <<delivered, pc, tally>>
    BY <1>2, PublishStep
  <2>2. ASSUME NEW t \in Types
        PROVE  published'[t] = Count(log', t)
    <3>1. published[t] = Count(log, t)
      BY <1>1 DEF CountInv
    <3>2. Count(log', t) = IF NewMessage.type = t THEN Count(log, t) + 1 ELSE Count(log, t)
      BY <1>1, <2>1, CountAppend
    <3> QED
      BY <1>1, <2>1, <3>1, <3>2
  <2> QED
    BY <1>1, <2>1, <2>2 DEF CountInv, Counts
<1>3. CASE Tick \/ PublishFull \/ Shutdown \/ AllDone \/ UNCHANGED vars
  BY <1>1, <1>3 DEF Tick, PublishFull, Shutdown, AllDone, CountInv, Counts
<1>4. ASSUME NEW c \in Consumers, Moves(c)
      PROVE  CountInv'
  <2>1. UNCHANGED <<log, delivered, published, tally>>
    BY <1>4 DEF Moves, LoopEnd, LoopEmpty, CheckFlag, DrainEnd
  <2>2. \A d \in Consumers : Counts(d)' => Counts(d)
    BY <1>1, <1>4 DEF Moves, LoopEnd, LoopEmpty, CheckFlag, DrainEnd, Goto, Counts
  <2> QED
    BY <1>1, <2>1, <2>2 DEF CountInv
<1>5. ASSUME NEW c \in Consumers, Handles(c)
      PROVE  CountInv'
  <2> DEFINE m == log[cursor[c]]
  <2>1. /\ m \in Messages /\ UNCHANGED <<log, pc, published>>
        /\ delivered' = [delivered EXCEPT ![c] = Append(@, m)]
        /\ \/ tally' = [tally EXCEPT ![c][m.type] = @ + 1]
           \/ tally' = tally /\ ~Counts(c)
    BY <1>5, HandleStep
  <2> HIDE DEF m
  <2>2. m.type \in Types
    BY <2>1 DEF Messages
  <2>3. ASSUME NEW d \in Consumers, NEW t \in Types
        PROVE  /\ tally'[d][t] <= Count(delivered'[d], t)
               /\ Counts(d)' => tally'[d][t] = Count(delivered'[d], t)
    <3>1. /\ tally[d][t] \in Nat /\ Count(delivered[d], t) \in Nat
          /\ tally[d][t] <= Count(delivered[d], t)
          /\ Counts(d) => tally[d][t] = Count(delivered[d], t)
      BY <1>1, CountBound DEF CountInv
    <3>2. Counts(d)' <=> Counts(d)
      BY <2>1 DEF Counts
    <3>3. CASE d # c
      <4>1. delivered'[d] = delivered[d] /\ tally'[d] = tally[d]
        BY <1>1, <2>1, <3>3
      <4> QED
        BY <3>1, <3>2, <4>1
    <3>4. CASE d = c
      <4>1. delivered'[c] = Append(delivered[c], m) /\ delivered[c] \in Seq(Messages)
        BY <1>1, <2>1
      <4>2. Count(delivered'[c], t) =
              IF m.type = t THEN Count(delivered[c], t) + 1 ELSE Count(delivered[c], t)
        BY <2>1, <4>1, CountAppend
      <4>3. \/ tally'[c][t] = IF m.type = t THEN tally[c][t] + 1 ELSE tally[c][t]
            \/ tally'[c][t] = tally[c][t] /\ ~Counts(c)
        BY <1>1, <2>1, <2>2
      <4> QED
        BY <3>1, <3>2, <3>4, <4>2, <4>3
    <3> QED
      BY <3>3, <3>4
  <2> QED
    BY <1>1, <2>1, <2>3 DEF CountInv
<1> QED
  BY <1>2, <1>3, <1>4, <1>5 DEF Next, Moves, Handles

\* The sample of a message is its age and the skew, as a word.
LEMMA SampleOfMessage ==
  ASSUME Inv, NEW c \in Consumers, NEW m \in Messages, m.built <= now,
         m.timestamp_ns = (Start + m.built) % Word
  PROVE  /\ now - m.built \in 0 .. MaxTime
         /\ Elapsed(rdtsc(Skew[c]), m.timestamp_ns) = AsWord((now - m.built) + Skew[c])
         /\ Elapsed(rdtsc(Skew[c]), m.timestamp_ns) \in 0 .. Word - 1
<1>1. /\ Start \in Int /\ now \in 0 .. MaxTime /\ Skew[c] \in Int /\ m.built \in 0 .. MaxTime
      /\ MaxTime \in Nat /\ Word \in Nat \ {0} /\ -Word <= Skew[c] /\ Skew[c] + MaxTime < Word
  BY ReportingAssumption, SkewAssumption DEF Inv, TypeOK, Messages
<1> DEFINE a == Start + now + Skew[c]
           b == Start + m.built
<1>2. now - m.built \in 0 .. MaxTime
  BY <1>1
<1>3. a \in Int /\ b \in Int /\ a - b = (now - m.built) + Skew[c] /\ a - b \in -Word .. Word - 1
  <2>1. a \in Int /\ b \in Int
    BY <1>1
  <2>2. a - b = (now - m.built) + Skew[c]
    BY <1>1
  <2>3. (now - m.built) + Skew[c] \in -Word .. Word - 1
    BY <1>1, <1>2
  <2> QED
    BY <2>1, <2>2, <2>3
<1>4. rdtsc(Skew[c]) = a % Word
  BY DEF rdtsc
<1> HIDE DEF a, b
<1>5. ((a % Word) - (b % Word)) % Word = IF a - b >= 0 THEN a - b ELSE Word + (a - b)
  BY <1>1, <1>3, WrappedDifference
<1>6. Elapsed(rdtsc(Skew[c]), m.timestamp_ns) = AsWord(a - b)
  BY <1>4, <1>5 DEF Elapsed, AsWord, b
<1>7. AsWord(a - b) \in 0 .. Word - 1
  BY <1>1, <1>3 DEF AsWord
<1> QED
  BY <1>2, <1>3, <1>6, <1>7

\* What a consumer handles was built no later than now and stamped then.
LEMMA HandledMessage ==
  ASSUME Inv, NEW c \in Consumers, Handles(c)
  PROVE  /\ log[cursor[c]] \in Messages /\ log[cursor[c]].built <= now
         /\ log[cursor[c]].timestamp_ns = (Start + log[cursor[c]].built) % Word
  BY HandleStep DEF Inv, LogInv

\* Every step keeps the samples: record() appends while there is room.
LEMMA SampleStep ==
  ASSUME Inv, [Next]_vars
  PROVE  SampleInv'
<1>1. /\ delivered \in [Consumers -> Seq(Messages)] /\ elapsed \in [Consumers -> Seq(0 .. MaxTime)]
      /\ samples \in [Consumers -> Seq(0 .. Word - 1)] /\ SampleInv
  BY DEF Inv, TypeOK
<1>2. CASE PublishOk
  BY <1>1, <1>2, PublishStep DEF SampleInv
<1>3. CASE Tick \/ PublishFull \/ Shutdown \/ AllDone \/ UNCHANGED vars
  BY <1>1, <1>3 DEF Tick, PublishFull, Shutdown, AllDone, SampleInv
<1>4. ASSUME NEW c \in Consumers, Moves(c)
      PROVE  SampleInv'
  BY <1>1, <1>4 DEF Moves, LoopEnd, LoopEmpty, CheckFlag, DrainEnd, SampleInv
<1>5. ASSUME NEW c \in Consumers, Handles(c)
      PROVE  SampleInv'
  <2> DEFINE m == log[cursor[c]]
             e == now - m.built
             x == Elapsed(rdtsc(Skew[c]), m.timestamp_ns)
  <2>1. /\ m \in Messages
        /\ delivered' = [delivered EXCEPT ![c] = Append(@, m)]
        /\ elapsed' = [elapsed EXCEPT ![c] = Append(@, e)]
        /\ samples' = [samples EXCEPT ![c] = Record(@, Capacity[c], x)]
    BY <1>5, HandleStep
  <2>2. e \in 0 .. MaxTime /\ x = AsWord(e + Skew[c]) /\ x \in 0 .. Word - 1
    BY <1>5, HandledMessage, SampleOfMessage
  <2> HIDE DEF m, e, x
  <2>3. ASSUME NEW d \in Consumers, d # c
        PROVE  /\ delivered'[d] = delivered[d] /\ elapsed'[d] = elapsed[d]
               /\ samples'[d] = samples[d]
    BY <1>1, <2>1, <2>3
  <2>4. /\ delivered'[c] = Append(delivered[c], m) /\ elapsed'[c] = Append(elapsed[c], e)
        /\ samples'[c] = Record(samples[c], Capacity[c], x)
    BY <1>1, <2>1
  <2>5. /\ delivered[c] \in Seq(Messages) /\ elapsed[c] \in Seq(0 .. MaxTime)
        /\ samples[c] \in Seq(0 .. Word - 1) /\ Capacity[c] \in Nat
        /\ Len(delivered[c]) \in Nat /\ Len(samples[c]) \in Nat
    BY <1>1, ReportingAssumption
  <2>6. /\ Len(elapsed[c]) = Len(delivered[c])
        /\ Len(samples[c]) = Min2(Capacity[c], Len(delivered[c]))
        /\ \A k \in 1 .. Len(samples[c]) : samples[c][k] = AsWord(elapsed[c][k] + Skew[c])
    BY <1>1 DEF SampleInv
  <2>7. Len(samples[c]) <= Len(elapsed[c])
    BY <2>5, <2>6 DEF Min2
  <2>8. /\ Len(delivered'[c]) = Len(delivered[c]) + 1 /\ Len(elapsed'[c]) = Len(delivered[c]) + 1
        /\ elapsed'[c][Len(delivered[c]) + 1] = e
        /\ \A k \in 1 .. Len(delivered[c]) : elapsed'[c][k] = elapsed[c][k]
    BY <2>1, <2>2, <2>4, <2>5, <2>6, AppendProperties
  <2>9. CASE Len(samples[c]) < Capacity[c]
    <3>1. Len(samples[c]) = Len(delivered[c])
      BY <2>5, <2>6, <2>9 DEF Min2
    <3>2. /\ Len(samples'[c]) = Len(samples[c]) + 1
          /\ samples'[c][Len(samples[c]) + 1] = x
          /\ \A k \in 1 .. Len(samples[c]) : samples'[c][k] = samples[c][k]
      BY <2>2, <2>4, <2>5, <2>9, AppendProperties DEF Record
    <3>3. ASSUME NEW k \in 1 .. Len(samples'[c])
          PROVE  samples'[c][k] = AsWord(elapsed'[c][k] + Skew[c])
      <4>1. CASE k \in 1 .. Len(samples[c])
        <5>1. samples'[c][k] = samples[c][k] /\ elapsed'[c][k] = elapsed[c][k]
          BY <2>8, <3>1, <3>2, <4>1
        <5> QED
          BY <2>6, <4>1, <5>1
      <4>2. CASE k = Len(samples[c]) + 1
        BY <2>2, <2>8, <3>1, <3>2, <4>2
      <4> QED
        BY <2>5, <3>2, <4>1, <4>2
    <3>4. Len(samples'[c]) = Min2(Capacity[c], Len(delivered'[c]))
      BY <2>5, <2>8, <2>9, <3>1, <3>2 DEF Min2
    <3> QED
      BY <1>1, <2>3, <2>8, <3>3, <3>4 DEF SampleInv
  <2>10. CASE ~(Len(samples[c]) < Capacity[c])
    <3>1. samples'[c] = samples[c] /\ Len(samples[c]) = Capacity[c]
      BY <2>4, <2>5, <2>6, <2>10 DEF Record, Min2
    <3>2. ASSUME NEW k \in 1 .. Len(samples[c])
          PROVE  samples[c][k] = AsWord(elapsed'[c][k] + Skew[c])
      <4>1. k \in 1 .. Len(delivered[c])
        BY <2>5, <2>6, <2>7
      <4> QED
        BY <2>6, <2>8, <4>1
    <3>3. Len(samples[c]) = Min2(Capacity[c], Len(delivered'[c]))
      BY <2>5, <2>6, <2>7, <2>8, <3>1 DEF Min2
    <3> QED
      BY <1>1, <2>3, <2>8, <3>1, <3>2, <3>3 DEF SampleInv
  <2> QED
    BY <2>9, <2>10
<1> QED
  BY <1>2, <1>3, <1>4, <1>5 DEF Next, Moves, Handles

\* Every step keeps the type.
LEMMA TypeStep ==
  ASSUME Inv, [Next]_vars
  PROVE  TypeOK'
<1> USE ReportingAssumption
<1>1. /\ log \in Seq(Messages) /\ joined = Consumers
      /\ cursor \in [Consumers -> 1 .. N + 1] /\ delivered \in [Consumers -> Seq(Messages)]
      /\ type_idx \in 0 .. 2 /\ i \in 1 .. N + 1 /\ published \in [Types -> 0 .. N]
      /\ shutdown_flag \in BOOLEAN /\ now \in 0 .. MaxTime
      /\ pc \in [Consumers -> {"run", "waited", "drain", "done"}]
      /\ tally \in [Consumers -> [Types -> 0 .. N]]
      /\ samples \in [Consumers -> Seq(0 .. Word - 1)]
      /\ elapsed \in [Consumers -> Seq(0 .. MaxTime)]
      /\ \A c \in Consumers : Len(samples[c]) <= Capacity[c]
  BY DEF Inv, TypeOK
<1>2. CASE PublishOk
  <2>1. /\ log' \in Seq(Messages) /\ i' \in 1 .. N + 1 /\ type_idx' \in 0 .. 2
        /\ UNCHANGED <<joined, cursor, delivered, shutdown_flag, now, pc, tally, samples,
                      elapsed>>
    <3>1. (type_idx + 1) % 3 \in 0 .. 2
      BY <1>1
    <3> QED
      BY <1>2, <3>1, PublishStep
  <2>2. published' \in [Types -> 0 .. N]
    <3>1. /\ TypeAt(type_idx) \in Types /\ Len(log') \in 0 .. N
          /\ published' = [published EXCEPT ![TypeAt(type_idx)] = @ + 1]
      BY <1>2, PublishStep
    <3>2. \A t \in Types : published'[t] \in 0 .. Len(log')
      BY <2>1, CountStep, CountBound DEF CountInv
    <3>3. \A t \in Types : published'[t] \in 0 .. N
      BY <3>1, <3>2
    <3> QED
      BY <1>1, <3>1, <3>3
  <2> QED
    BY <1>1, <2>1, <2>2 DEF TypeOK
<1>3. CASE Tick
  <2>1. now' \in 0 .. MaxTime
    BY <1>1, <1>3 DEF Tick
  <2>2. UNCHANGED <<queueVars, prodVars, consVars>>
    BY <1>3 DEF Tick
  <2> QED
    BY <1>1, <2>1, <2>2 DEF TypeOK
<1>4. CASE PublishFull
  <2>1. type_idx' \in 0 .. 2
    <3>1. (type_idx + 1) % 3 \in 0 .. 2
      BY <1>1
    <3> QED
      BY <1>4, <3>1 DEF PublishFull
  <2>2. UNCHANGED <<queueVars, i, published, shutdown_flag, now, consVars>>
    BY <1>4 DEF PublishFull
  <2> QED
    BY <1>1, <2>1, <2>2 DEF TypeOK
<1>5. CASE Shutdown
  BY <1>1, <1>5 DEF Shutdown, TypeOK
<1>6. CASE AllDone \/ UNCHANGED vars
  BY <1>1, <1>6 DEF AllDone, TypeOK
<1>7. ASSUME NEW c \in Consumers, Moves(c)
      PROVE  TypeOK'
  <2>1. UNCHANGED <<queueVars, prodVars, now, tally, samples, elapsed>>
    BY <1>7 DEF Moves, LoopEnd, LoopEmpty, CheckFlag, DrainEnd
  <2>2. pc' \in [Consumers -> {"run", "waited", "drain", "done"}]
    BY <1>1, <1>7 DEF Moves, LoopEnd, LoopEmpty, CheckFlag, DrainEnd, Goto
  <2> QED
    BY <1>1, <2>1, <2>2 DEF TypeOK
<1>8. ASSUME NEW c \in Consumers, Handles(c)
      PROVE  TypeOK'
  <2> DEFINE m == log[cursor[c]]
             e == now - m.built
             x == Elapsed(rdtsc(Skew[c]), m.timestamp_ns)
  <2>1. /\ cursor[c] \in 1 .. Len(log) /\ m \in Messages
        /\ UNCHANGED <<log, joined, pc, type_idx, i, published, shutdown_flag, now>>
        /\ cursor' = [cursor EXCEPT ![c] = @ + 1]
        /\ delivered' = [delivered EXCEPT ![c] = Append(@, m)]
        /\ elapsed' = [elapsed EXCEPT ![c] = Append(@, e)]
        /\ samples' = [samples EXCEPT ![c] = Record(@, Capacity[c], x)]
        /\ \/ tally' = [tally EXCEPT ![c][m.type] = @ + 1]
           \/ tally' = tally
    BY <1>8, HandleStep
  <2>2. e \in 0 .. MaxTime /\ x \in 0 .. Word - 1
    BY <1>8, HandledMessage, SampleOfMessage
  <2>3. m.type \in Types
    BY <2>1 DEF Messages
  <2> HIDE DEF m, e, x
  <2>4. cursor' \in [Consumers -> 1 .. N + 1]
    <3>1. Len(log) \in 0 .. N
      BY <1>1 DEF Inv, LogInv
    <3>2. cursor[c] + 1 \in 1 .. N + 1
      BY <2>1, <3>1
    <3> QED
      BY <1>1, <2>1, <3>2
  <2>5. delivered' \in [Consumers -> Seq(Messages)]
    <3>1. Append(delivered[c], m) \in Seq(Messages)
      BY <1>1, <2>1, AppendProperties
    <3> QED
      BY <1>1, <2>1, <3>1
  <2>6. elapsed' \in [Consumers -> Seq(0 .. MaxTime)]
    <3>1. Append(elapsed[c], e) \in Seq(0 .. MaxTime)
      BY <1>1, <2>2, AppendProperties
    <3> QED
      BY <1>1, <2>1, <3>1
  <2>7. /\ samples' \in [Consumers -> Seq(0 .. Word - 1)]
        /\ \A d \in Consumers : Len(samples'[d]) <= Capacity[d]
    <3> DEFINE r == Record(samples[c], Capacity[c], x)
    <3>1. /\ samples[c] \in Seq(0 .. Word - 1) /\ Capacity[c] \in Nat
          /\ Len(samples[c]) \in Nat /\ Len(samples[c]) <= Capacity[c]
      BY <1>1
    <3>2. /\ Append(samples[c], x) \in Seq(0 .. Word - 1)
          /\ Len(Append(samples[c], x)) = Len(samples[c]) + 1
      BY <2>2, <3>1, AppendProperties
    <3>3. r \in Seq(0 .. Word - 1) /\ Len(r) <= Capacity[c]
      <4>1. CASE Len(samples[c]) < Capacity[c]
        <5>1. r = Append(samples[c], x)
          BY <4>1 DEF Record
        <5> QED
          BY <3>1, <3>2, <4>1, <5>1
      <4>2. CASE ~(Len(samples[c]) < Capacity[c])
        BY <3>1, <4>2 DEF Record
      <4> QED
        BY <4>1, <4>2
    <3> HIDE DEF r
    <3>4. samples' = [samples EXCEPT ![c] = r]
      BY <2>1, Zenon DEF r
    <3> QED
      BY <1>1, <3>3, <3>4
  <2>8. tally' \in [Consumers -> [Types -> 0 .. N]]
    <3>1. \A t \in Types : tally[c][t] \in Nat
      BY <1>1
    <3>2. \A t \in Types : tally'[c][t] \in Nat
      <4>1. \/ tally' = tally
            \/ \A t \in Types : tally'[c][t] = IF t = m.type THEN tally[c][t] + 1 ELSE tally[c][t]
        <5>1. CASE tally' = [tally EXCEPT ![c][m.type] = @ + 1]
          BY <1>1, <2>3, <5>1
        <5> QED
          BY <2>1, <5>1
      <4> QED
        BY <3>1, <4>1
    <3>3. Len(delivered'[c]) \in 0 .. N
      <4>1. delivered'[c] \in Seq(Messages) /\ Len(log') \in 0 .. N
        BY <1>1, <2>1, <2>5 DEF Inv, LogInv
      <4>2. Len(delivered'[c]) <= Len(log')
        BY ReadStep DEF ReadInv
      <4> QED
        BY <4>1, <4>2
    <3>4. \A t \in Types : Count(delivered'[c], t) \in 0 .. Len(delivered'[c])
      BY <2>5, CountBound
    <3>5. \A t \in Types : tally'[c][t] <= Count(delivered'[c], t)
      BY CountStep DEF CountInv
    <3>6. \A t \in Types : tally'[c][t] \in 0 .. N
      BY <3>2, <3>3, <3>4, <3>5
    <3>7. tally'[c] \in [Types -> 0 .. N]
      <4>1. CASE tally' = tally
        BY <1>1, <4>1
      <4>2. CASE tally' = [tally EXCEPT ![c][m.type] = @ + 1]
        <5>1. tally'[c] = [tally[c] EXCEPT ![m.type] = @ + 1] /\ tally[c] \in [Types -> 0 .. N]
          BY <1>1, <4>2
        <5> QED
          BY <3>6, <5>1
      <4> QED
        BY <2>1, <4>1, <4>2
    <3> QED
      BY <1>1, <2>1, <3>7
  <2> QED
    BY <1>1, <2>1, <2>4, <2>5, <2>6, <2>7, <2>8 DEF TypeOK
<1> QED
  BY <1>2, <1>3, <1>4, <1>5, <1>6, <1>7, <1>8 DEF Next, Moves, Handles

\* The inductive invariant holds throughout.
LEMMA Invariance == Spec => []Inv
<1>1. Init => Inv
  <2> SUFFICES ASSUME Init
               PROVE  Inv
    OBVIOUS
  <2> USE ReportingAssumption
  <2>1. <<>> \in Seq(Messages) /\ Len(<<>>) = 0 /\ 1 \in 1 .. N + 1 /\ 0 \in 0 .. N
    OBVIOUS
  <2>2. TypeOK
    <3>1. /\ cursor \in [Consumers -> 1 .. N + 1]
          /\ type_idx \in 0 .. 2 /\ i \in 1 .. N + 1 /\ now \in 0 .. MaxTime
          /\ pc \in [Consumers -> {"run", "waited", "drain", "done"}]
      BY <2>1 DEF Init
    <3>2. /\ log \in Seq(Messages) /\ joined = Consumers /\ shutdown_flag \in BOOLEAN
          /\ published \in [Types -> 0 .. N]
          /\ tally \in [Consumers -> [Types -> 0 .. N]]
      <4>1. [t \in Types |-> 0] \in [Types -> 0 .. N]
        BY <2>1
      <4> QED
        BY <2>1, <4>1, Zenon DEF Init
    <3>3. \A S : [c \in Consumers |-> <<>>] \in [Consumers -> Seq(S)]
      <4>1. \A S : <<>> \in Seq(S)
        BY EmptySeq
      <4> QED
        BY <4>1, Zenon
    <3>4. \A c \in Consumers : Len(samples[c]) <= Capacity[c]
      BY <2>1 DEF Init
    <3> QED
      BY <3>1, <3>2, <3>3, <3>4 DEF Init, TypeOK
  <2>3. LogInv
    BY DEF Init, LogInv
  <2>4. ReadInv
    BY DEF Init, ReadInv
  <2>5. \A t \in Types : Count(<<>>, t) = 0
    <3>1. \A t : {k \in DOMAIN <<>> : <<>>[k].type = t} = {}
      OBVIOUS
    <3> QED
      BY <3>1, FS_EmptySet DEF Count
  <2>6. CountInv
    BY <2>5 DEF Init, CountInv
  <2>7. SampleInv
    BY DEF Init, SampleInv, Min2
  <2> QED
    BY <2>2, <2>3, <2>4, <2>6, <2>7 DEF Inv
<1>2. Inv /\ [Next]_vars => Inv'
  BY TypeStep, LogStep, ReadStep, CountStep, SampleStep DEF Inv
<1> QED
  BY <1>1, <1>2, PTL DEF Spec

-----------------------------------------------------------------------------

\* The counts of producer and consumers stay within the number of messages, and
\* the samples of a tracker are words, at most as many as it reserved.
THEOREM ReportingTypeCorrect == Spec => []TypeOK
<1>1. Inv => TypeOK
  BY DEF Inv
<1> QED
  BY <1>1, Invariance, PTL

\* Consumer::onMessage() and the demo's switch count what was received, and a
\* consumer that is done agrees with the producer's loop type by type.
THEOREM CountsAgree == Spec => []TalliesAgree
<1>1. ASSUME Inv
      PROVE  TalliesAgree
  <2> SUFFICES ASSUME NEW c \in Consumers, Counts(c)
               PROVE  tally[c] = Census(c) /\ (pc[c] = "done" => tally[c] = published)
    BY DEF TalliesAgree, Counts
  <2>1. /\ tally[c] \in [Types -> 0 .. N] /\ published \in [Types -> 0 .. N]
        /\ delivered[c] \in Seq(Messages) /\ log \in Seq(Messages) /\ i \in 1 .. N + 1
        /\ N \in Nat
    BY <1>1, ReportingAssumption DEF Inv, TypeOK
  <2>2. \A t \in Types : tally[c][t] = Count(delivered[c], t) /\ published[t] = Count(log, t)
    BY <1>1 DEF Inv, CountInv
  <2>3. tally[c] = Census(c)
    BY <2>1, <2>2 DEF Census, Count
  <2>4. ASSUME pc[c] = "done"
        PROVE  delivered[c] = log
    <3>1. /\ Len(delivered[c]) = N /\ Len(delivered[c]) <= Len(log)
          /\ \A k \in 1 .. Len(delivered[c]) : delivered[c][k] = log[k]
      BY <1>1, <2>4 DEF Inv, ReadInv
    <3>2. Len(log) = N
      BY <1>1, <2>1, <3>1 DEF Inv, LogInv
    <3> QED
      BY <2>1, <3>1, <3>2
  <2> QED
    BY <2>1, <2>2, <2>3, <2>4
<1> QED
  BY <1>1, Invariance, PTL

\* LatencyTracker::record() keeps the ages of the first messages a consumer
\* handles, off by the skew of its counter and wrapped if that is negative.
THEOREM SamplesAreAges == Spec => []SamplesFaithful
<1>1. ASSUME Inv
      PROVE  SamplesFaithful
  <2> SUFFICES ASSUME NEW c \in Consumers
               PROVE  /\ Len(samples[c]) = Min2(Capacity[c], Len(delivered[c]))
                      /\ \A k \in DOMAIN samples[c] :
                           IF elapsed[c][k] + Skew[c] >= 0
                           THEN samples[c][k] = elapsed[c][k] + Skew[c]
                           ELSE samples[c][k] = Word + elapsed[c][k] + Skew[c]
    BY DEF SamplesFaithful
  <2>1. /\ samples[c] \in Seq(0 .. Word - 1) /\ elapsed[c] \in Seq(0 .. MaxTime)
        /\ delivered[c] \in Seq(Messages)
        /\ Word \in Nat /\ Skew[c] \in Int /\ MaxTime \in Nat /\ Capacity[c] \in Nat
    BY <1>1, ReportingAssumption DEF Inv, TypeOK
  <2>2. /\ Len(elapsed[c]) = Len(delivered[c])
        /\ Len(samples[c]) = Min2(Capacity[c], Len(delivered[c]))
        /\ \A k \in 1 .. Len(samples[c]) : samples[c][k] = AsWord(elapsed[c][k] + Skew[c])
    BY <1>1 DEF Inv, SampleInv
  <2>3. ASSUME NEW k \in DOMAIN samples[c]
        PROVE  k \in 1 .. Len(samples[c]) /\ elapsed[c][k] \in Int
    <3>1. k \in 1 .. Len(samples[c]) /\ Len(samples[c]) <= Len(elapsed[c])
      BY <2>1, <2>2, <2>3 DEF Min2
    <3> QED
      BY <2>1, <3>1
  <2>4. ASSUME NEW k \in DOMAIN samples[c]
        PROVE  samples[c][k] = AsWord(elapsed[c][k] + Skew[c])
    BY <2>2, <2>3
  <2>5. \A v \in Int : AsWord(v + Skew[c]) = IF v + Skew[c] >= 0 THEN v + Skew[c]
                                             ELSE Word + v + Skew[c]
    BY <2>1 DEF AsWord
  <2> QED
    BY <2>2, <2>3, <2>4, <2>5
<1> QED
  BY <1>1, Invariance, PTL

\* What LatencyTracker::report() prints for a consumer that is done: percentiles
\* of its samples, in order, and an average no larger than the maximum, however
\* many samples the tracker had room for.
THEOREM ReportsAreSound == Spec => []ReportSound
<1>1. ASSUME TypeOK
      PROVE  ReportSound
  <2> SUFFICES ASSUME NEW c \in Consumers, samples[c] # <<>>
               PROVE  LET r == Report(samples[c]) IN
                      /\ IsPercentile(r.p50, samples[c], 50)
                      /\ IsPercentile(r.p95, samples[c], 95)
                      /\ IsPercentile(r.p99, samples[c], 99)
                      /\ r.p50 <= r.p95 /\ r.p95 <= r.p99 /\ r.p99 <= r.max /\ r.avg <= r.max
    BY Zenon DEF ReportSound
  <2>1. samples[c] \in Seq(0 .. Word - 1)
    BY <1>1 DEF TypeOK
  <2>2. samples[c] \in Seq(Nat)
    BY <2>1, ReportingAssumption
  <2> QED
    BY <2>2, ReportIsSound, Zenon
<1> QED
  BY <1>1, ReportingTypeCorrect, PTL

=============================================================================
