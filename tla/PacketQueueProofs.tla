--------------------------- MODULE PacketQueueProofs ---------------------------
(* Theorems about PacketQueue, for every pool of workers and every capacity. *)
EXTENDS PacketQueue, FiniteSetTheorems, TLAPS

USE PacketQueueAssumption

\* What the model of multiprocessing.Queue keeps: a lane's slots are free, in transit
\* or in the pipe, and its read lock belongs to the worker reading it.
SlotsExact == \A l \in Lanes : slots[l] + feed[l] + pipe[l] = Capacity
ReadLocksExact ==
  \A l \in Lanes, w \in Workers :
    rlock[l] = w <=> worker[w].pc \in Holding /\ worker[w].lane = l

\* The inductive invariant.  TypeOK needs SlotsExact (a slot released fits the
\* semaphore because the packet it belonged to was in the pipe), and a worker
\* frees the lock it took only because ReadLocksExact says that lock is its own.
IInv == TypeOK /\ SlotsExact /\ ReadLocksExact

LEMMA OtherLane == ASSUME NEW l \in Lanes PROVE Other(l) \in Lanes /\ Other(l) # l
BY DEF Lanes, Other

\* A worker moves to a step without a lock.
LEMMA Moves ==
  ASSUME NEW w \in Workers, NEW pc, NEW lane \in Lanes, worker \in [Workers -> Worker],
         pc \in {"turn", "first", "held1", "second", "held2", "wait", "held"},
         Goto(w, pc, lane)
  PROVE  /\ worker' \in [Workers -> Worker]
         /\ worker'[w].pc = pc /\ worker'[w].lane = lane
         /\ \A v \in Workers \ {w} : worker'[v] = worker[v]
BY DEF Goto, Worker

\* Taking a packet: the lane's slot and lock come back together.
LEMMA TakeKeeps ==
  ASSUME IInv, NEW w \in Workers, worker[w].pc \in Holding, Take(w)
  PROVE  IInv'
<1> DEFINE lane == worker[w].lane
<1> USE DEF IInv
<1>1. lane \in Lanes /\ rlock[lane] = w
  BY DEF TypeOK, Worker, ReadLocksExact
<1>2. /\ pipe[lane] > 0 /\ pipe' = [pipe EXCEPT ![lane] = @ - 1]
      /\ slots' = [slots EXCEPT ![lane] = slots[lane] + 1]
      /\ rlock' = [rlock EXCEPT ![lane] = NoWorker]
      /\ UNCHANGED <<feed, turn>> /\ Goto(w, "turn", lane)
  BY DEF Take, Unlocked
<1>3. /\ slots[lane] \in 0..Capacity /\ pipe[lane] \in 0..Capacity /\ feed[lane] \in 0..Capacity
      /\ slots[lane] + feed[lane] + pipe[lane] = Capacity
  BY <1>1 DEF TypeOK, SlotsExact
<1>4. /\ slots' \in [Lanes -> 0..Capacity] /\ pipe' \in [Lanes -> 0..Capacity]
      /\ SlotsExact'
  BY <1>1, <1>2, <1>3 DEF TypeOK, SlotsExact
<1>5. /\ worker' \in [Workers -> Worker] /\ worker'[w].pc = "turn"
      /\ \A v \in Workers \ {w} : worker'[v] = worker[v]
  BY <1>1, <1>2, Moves DEF TypeOK
<1>6. uncounted' \in [Workers -> 0..(FlushEvery - 1)] /\ behind' \in Int
  <2>1. uncounted[w] \in 0..(FlushEvery - 1) /\ behind \in Int
    BY DEF TypeOK
  <2>2. CountFlushed(uncounted[w]) \in 0..(FlushEvery - 1)
    BY <2>1 DEF CountFlushed
  <2>3. uncounted' = [uncounted EXCEPT ![w] = CountFlushed(uncounted[w])]
    BY DEF Take
  <2>4. behind' = behind - uncounted[w] \/ behind' = behind + 1
    BY DEF Take
  <2> QED BY <2>1, <2>2, <2>3, <2>4 DEF TypeOK
<1>7. ReadLocksExact'
  BY <1>1, <1>2, <1>5 DEF TypeOK, ReadLocksExact, Holding
<1>8. rlock' \in [Lanes -> Workers \cup {NoWorker}]
  BY <1>2 DEF TypeOK
<1> QED BY <1>2, <1>4, <1>5, <1>6, <1>7, <1>8 DEF TypeOK

\* Getting a read lock, or giving up on it.
LEMMA AcquireKeeps ==
  ASSUME IInv, NEW w \in Workers, NEW at, NEW held, NEW next, NEW nextLane \in Lanes,
         at \in {"first", "second"}, held \in {"held1", "held2"},
         next = "second" \/ (next = "wait" /\ nextLane = "high"),
         Acquire(w, at, held, next, nextLane)
  PROVE  IInv'
<1> DEFINE lane == worker[w].lane
<1> USE DEF IInv
<1>1. lane \in Lanes /\ worker[w].pc \notin Holding /\ \A l \in Lanes : rlock[l] # w
  BY DEF TypeOK, Worker, ReadLocksExact, Acquire, Holding
<1>2. UNCHANGED <<slots, feed, pipe, turn, uncounted, behind>>
  BY DEF Acquire
<1>3. CASE rlock[lane] = NoWorker
  <2>1. rlock' = [rlock EXCEPT ![lane] = w] /\ Goto(w, held, lane)
    BY <1>3 DEF Acquire
  <2>2. /\ worker' \in [Workers -> Worker] /\ worker'[w].pc = held /\ worker'[w].lane = lane
        /\ \A v \in Workers \ {w} : worker'[v] = worker[v]
    BY <1>1, <2>1, Moves DEF TypeOK
  <2>3. ReadLocksExact'
    BY <1>1, <1>3, <2>1, <2>2 DEF TypeOK, ReadLocksExact, Holding
  <2> QED BY <1>2, <2>1, <2>2, <2>3 DEF TypeOK, SlotsExact
<1>4. CASE rlock[lane] # NoWorker
  <2>1. rlock' = rlock /\ Goto(w, next, nextLane)
    BY <1>4 DEF Acquire
  <2>2. /\ worker' \in [Workers -> Worker] /\ worker'[w].pc = next /\ worker'[w].lane = nextLane
        /\ \A v \in Workers \ {w} : worker'[v] = worker[v]
    BY <2>1, Moves DEF TypeOK
  <2>3. ReadLocksExact'
    BY <1>1, <2>1, <2>2 DEF ReadLocksExact, Holding
  <2> QED BY <1>2, <2>1, <2>2, <2>3 DEF TypeOK, SlotsExact
<1> QED BY <1>3, <1>4

\* Reading the pipe with the lock: a packet, or the lock given back.
LEMMA PollKeeps ==
  ASSUME IInv, NEW w \in Workers, NEW held, NEW next, NEW nextLane \in Lanes,
         held \in {"held1", "held2"}, next = "second" \/ (next = "wait" /\ nextLane = "high"),
         Poll(w, held, next, nextLane)
  PROVE  IInv'
<1> DEFINE lane == worker[w].lane
<1>1. worker[w].pc \in Holding
  BY DEF Poll, Holding
<1>2. CASE Take(w)
  BY <1>1, <1>2, TakeKeeps
<1>3. CASE ~Take(w)
  <2> USE DEF IInv
  <2>1. lane \in Lanes
    BY DEF TypeOK, Worker
  <2>1a. rlock[lane] = w
    BY <1>1, <2>1 DEF ReadLocksExact
  <2>2. /\ rlock' = [rlock EXCEPT ![lane] = NoWorker] /\ Goto(w, next, nextLane)
        /\ UNCHANGED <<slots, feed, pipe, turn, uncounted, behind>>
    BY <1>3 DEF Poll, Unlocked
  <2>3. /\ worker' \in [Workers -> Worker] /\ worker'[w].pc = next /\ worker'[w].lane = nextLane
        /\ \A v \in Workers \ {w} : worker'[v] = worker[v]
    BY <2>2, Moves DEF TypeOK
  <2>4. ReadLocksExact'
    BY <2>1, <2>1a, <2>2, <2>3 DEF TypeOK, ReadLocksExact, Holding
  <2> QED BY <2>2, <2>3, <2>4 DEF TypeOK, SlotsExact
<1> QED BY <1>2, <1>3

LEMMA WorkerKeeps ==
  ASSUME IInv, NEW w \in Workers, WorkerStep(w)
  PROVE  IInv'
<1>1. CASE TakeTurn(w)
  <2> USE DEF IInv
  <2>1. turn' \in 0..(LowEvery - 1)
    BY <1>1 DEF TakeTurn, TypeOK
  <2>2. \E lane \in Lanes : Goto(w, "first", lane)
    BY <1>1 DEF TakeTurn, Lanes
  <2>3. /\ worker' \in [Workers -> Worker] /\ worker'[w].pc = "first"
        /\ \A v \in Workers \ {w} : worker'[v] = worker[v]
    BY <2>2, Moves DEF TypeOK
  <2>4. ReadLocksExact'
    BY <1>1, <2>3 DEF TakeTurn, lanes, ReadLocksExact, Holding
  <2> QED BY <1>1, <2>1, <2>3, <2>4 DEF TakeTurn, lanes, TypeOK, SlotsExact
<1>2. CASE ProbeFirst(w) \/ ProbeSecond(w)
  <2>1. Other(worker[w].lane) \in Lanes /\ "high" \in Lanes
    BY OtherLane DEF IInv, TypeOK, Worker, Lanes
  <2> DEFINE other == Other(worker[w].lane)
  <2>2. CASE Acquire(w, "first", "held1", "second", other)
    BY <2>1, <2>2, AcquireKeeps
  <2>3. CASE Poll(w, "held1", "second", other)
    BY <2>1, <2>3, PollKeeps
  <2>4. CASE Acquire(w, "second", "held2", "wait", "high")
    BY <2>1, <2>4, AcquireKeeps
  <2>5. CASE Poll(w, "held2", "wait", "high")
    BY <2>1, <2>5, PollKeeps
  <2> QED BY <1>2, <2>2, <2>3, <2>4, <2>5 DEF ProbeFirst, ProbeSecond
<1>3. CASE WaitLock(w)
  <2> USE DEF IInv
  <2>1. /\ worker' \in [Workers -> Worker] /\ worker'[w].pc = "held" /\ worker'[w].lane = "high"
        /\ \A v \in Workers \ {w} : worker'[v] = worker[v]
    BY <1>3, Moves DEF WaitLock, TypeOK, Lanes
  <2>2. worker[w].pc \notin Holding /\ \A l \in Lanes : rlock[l] # w
    BY <1>3 DEF WaitLock, Holding, ReadLocksExact
  <2>3. ReadLocksExact'
    BY <1>3, <2>1, <2>2 DEF WaitLock, TypeOK, ReadLocksExact, Holding, Lanes
  <2> QED BY <1>3, <2>1, <2>3 DEF WaitLock, TypeOK, SlotsExact
<1>4. CASE WaitTimeout(w)
  <2> USE DEF IInv
  <2>1. /\ worker' \in [Workers -> Worker] /\ worker'[w].pc = "turn"
        /\ \A v \in Workers \ {w} : worker'[v] = worker[v]
    BY <1>4, Moves DEF WaitTimeout, TypeOK, Lanes
  <2>2. uncounted' \in [Workers -> 0..(FlushEvery - 1)] /\ behind' \in Int
    BY <1>4 DEF WaitTimeout, EmptyFlushed, TypeOK
  <2>3. UNCHANGED <<slots, feed, pipe, turn>>
    BY <1>4 DEF WaitTimeout
  <2>4. CASE worker[w].pc = "wait" /\ UNCHANGED rlock
    <3>1. ReadLocksExact'
      BY <2>1, <2>4 DEF ReadLocksExact, Holding
    <3> QED BY <2>1, <2>2, <2>3, <2>4, <3>1 DEF TypeOK, SlotsExact
  <2>5. CASE worker[w].pc = "held" /\ rlock' = [rlock EXCEPT !["high"] = NoWorker]
    <3>1. "high" \in Lanes /\ worker[w].lane = "high" /\ rlock["high"] = w
      BY <2>5 DEF TypeOK, ReadLocksExact, Holding, Lanes
    <3>2. ReadLocksExact'
      BY <2>1, <2>5, <3>1 DEF TypeOK, ReadLocksExact, Holding
    <3> QED BY <2>1, <2>2, <2>3, <2>5, <3>2 DEF TypeOK, SlotsExact
  <2> QED BY <1>4, <2>4, <2>5 DEF WaitTimeout, Unlocked
<1>5. CASE WaitTake(w)
  BY <1>5, TakeKeeps DEF WaitTake, Holding
<1> QED BY <1>1, <1>2, <1>3, <1>4, <1>5 DEF WorkerStep

LEMMA Invariant == Spec => []IInv
<1>1. Init => IInv
  BY DEF Init, IInv, TypeOK, SlotsExact, ReadLocksExact, Worker, Lanes, Holding
<1>2. IInv /\ [Next]_vars => IInv'
  <2> SUFFICES ASSUME IInv, [Next]_vars PROVE IInv'
    OBVIOUS
  <2>1. ASSUME NEW lane \in Lanes, Put(lane) PROVE IInv'
    <3> USE DEF IInv
    <3>1. /\ slots[lane] \in 1..Capacity
          /\ feed[lane] \in 0..Capacity /\ pipe[lane] \in 0..Capacity
          /\ slots[lane] + feed[lane] + pipe[lane] = Capacity
      BY <2>1 DEF Put, Full, TypeOK, SlotsExact
    <3>2. /\ slots' = [slots EXCEPT ![lane] = slots[lane] - 1]
          /\ feed' = [feed EXCEPT ![lane] = feed[lane] + 1]
          /\ UNCHANGED <<pipe, rlock, turn, worker, uncounted, behind>>
      BY <2>1 DEF Put
    <3>3. /\ slots' \in [Lanes -> 0..Capacity] /\ feed' \in [Lanes -> 0..Capacity]
          /\ SlotsExact'
      BY <3>1, <3>2 DEF TypeOK, SlotsExact
    <3> QED BY <3>2, <3>3 DEF TypeOK, ReadLocksExact
  <2>2. ASSUME NEW lane \in Lanes, Feed(lane) PROVE IInv'
    BY <2>2 DEF IInv, Feed, TypeOK, SlotsExact, ReadLocksExact
  <2>3. ASSUME NEW w \in Workers, WorkerStep(w) PROVE IInv'
    BY <2>3, WorkerKeeps
  <2>4. CASE UNCHANGED vars
    BY <2>4 DEF vars, lanes, IInv, TypeOK, SlotsExact, ReadLocksExact
  <2> QED BY <2>1, <2>2, <2>3, <2>4 DEF Next
<1> QED BY <1>1, <1>2, PTL DEF Spec

\* Every variable keeps its type (TypeOK): a lane's counts stay within its maxsize
\* and a worker's unflushed count within one batch.
THEOREM TypeCorrect == Spec => []TypeOK
<1>1. IInv => TypeOK
  BY DEF IInv
<1> QED BY <1>1, Invariant, PTL

-------------------------------------------------------------------------------
(***************************************************************************)
(* The live counter.  That `behind` is the sum of `uncounted` is said      *)
(* without a recursive definition: in some order of the workers there are  *)
(* partial sums that end at `behind`.                                      *)
(***************************************************************************)
N == Cardinality(Workers)

PartialSums(order, s) ==
  /\ s[0] = 0 /\ s[N] = behind
  /\ \A i \in 1..N : s[i] = s[i - 1] + uncounted[order[i]]
Tally == \E order \in Bijection(1..N, Workers), s \in [0..N -> Int] : PartialSums(order, s)

\* An induction over numbers, as a statement about sets.
LEMMA InductionTo ==
  ASSUME NEW n \in Nat, NEW S, 0 \in S, \A i \in 1..n : i - 1 \in S => i \in S
  PROVE  0..n \subseteq S
<1> DEFINE Below(x) == 0..x
           T == {Below(x) : x \in (0..n) \ S}
<1>1. IsWellFoundedOn(StrictSubsetOrdering(Nat), FiniteSubsetsOf(Nat))
  BY FS_StrictSubsetOrderingWellFounded
<1>2. T \subseteq FiniteSubsetsOf(Nat)
  <2>1. ASSUME NEW x \in (0..n) \ S PROVE Below(x) \subseteq Nat /\ IsFiniteSet(Below(x))
    BY FS_Interval
  <2> QED BY <2>1 DEF FiniteSubsetsOf
<1> HIDE DEF T
<1>3. SUFFICES ASSUME T # {} PROVE FALSE
  BY DEF T
<1>4. PICK t \in T : \A u \in T : ~(<<u, t>> \in StrictSubsetOrdering(Nat))
  BY <1>1, <1>2, <1>3, WFMin
<1>5. PICK m \in (0..n) \ S : t = Below(m)
  BY DEF T
<1>6. m - 1 \in (0..n) \ S
  OBVIOUS
<1>7. Below(m - 1) \in T
  BY <1>6 DEF T
<1>8. /\ Below(m - 1) \subseteq Below(m) /\ Below(m - 1) # Below(m)
      /\ Below(m - 1) \subseteq Nat /\ Below(m) \subseteq Nat
  BY <1>5, <1>6
<1> HIDE DEF Below
<1> QED BY <1>4, <1>5, <1>7, <1>8 DEF StrictSubsetOrdering

\* One worker's count changes, and the sum by as much.
LEMMA TallyMoves ==
  ASSUME TypeOK, Tally, NEW w \in Workers, NEW x \in Nat,
         uncounted' = [uncounted EXCEPT ![w] = x], behind' = behind + x - uncounted[w]
  PROVE  Tally'
<1>1. PICK order \in Bijection(1..N, Workers), s \in [0..N -> Int] : PartialSums(order, s)
  BY DEF Tally
<1>2. N \in Nat
  BY FS_CardinalityType DEF N
<1>3. /\ order \in [1..N -> Workers]
      /\ \A i, j \in 1..N : order[i] = order[j] => i = j
      /\ \A v \in Workers : \E i \in 1..N : order[i] = v
  BY <1>1 DEF Bijection, Injection, Surjection, IsInjective
<1>4. PICK p \in 1..N : order[p] = w
  BY <1>3
<1> DEFINE d == x - uncounted[w]
           t == [i \in 0..N |-> IF i < p THEN s[i] ELSE s[i] + d]
<1>5. d \in Int /\ uncounted[w] \in Nat /\ behind \in Int
  BY DEF TypeOK
<1>6. \A i \in 1..N : uncounted'[order[i]] = IF i = p THEN uncounted[w] + d ELSE uncounted[order[i]]
  BY <1>3, <1>4, <1>5 DEF TypeOK
<1>7. t \in [0..N -> Int] /\ \A i \in 0..N : t[i] = IF i < p THEN s[i] ELSE s[i] + d
  BY <1>5
<1>8. behind' = behind + d
  BY <1>5
<1> HIDE DEF d, t
<1>9. t[0] = 0 /\ t[N] = behind'
  BY <1>1, <1>2, <1>4, <1>7, <1>8 DEF PartialSums
<1>10. ASSUME NEW i \in 1..N PROVE t[i] = t[i - 1] + uncounted'[order[i]]
  <2>1. /\ i \in 0..N /\ i - 1 \in 0..N /\ s[i] \in Int /\ s[i - 1] \in Int
        /\ uncounted[order[i]] \in Nat
    BY <1>2, <1>3 DEF TypeOK
  <2>2. s[i] = s[i - 1] + uncounted[order[i]]
    BY <1>1 DEF PartialSums
  <2>3. CASE i < p
    <3>1. t[i] = s[i] /\ t[i - 1] = s[i - 1]
      BY <1>2, <1>7, <2>1, <2>3
    <3> QED BY <1>6, <2>2, <2>3, <3>1
  <2>4. CASE i = p
    <3>1. t[i] = s[i] + d /\ t[i - 1] = s[i - 1]
      BY <1>2, <1>7, <2>1, <2>4
    <3>2. uncounted'[order[i]] = uncounted[order[i]] + d
      BY <1>4, <1>6, <2>4
    <3> QED BY <1>5, <2>1, <2>2, <3>1, <3>2
  <2>5. CASE i > p
    <3>1. t[i] = s[i] + d /\ t[i - 1] = s[i - 1] + d
      BY <1>2, <1>7, <2>1, <2>5
    <3>2. uncounted'[order[i]] = uncounted[order[i]]
      BY <1>6, <2>5
    <3> QED BY <1>5, <2>1, <2>2, <3>1, <3>2
  <2> QED BY <1>2, <2>3, <2>4, <2>5
<1>11. PICK u \in [0..N -> Int] : u = t
  BY <1>7
<1>12. PartialSums(order, u)'
  BY <1>9, <1>10, <1>11 DEF PartialSums, N
<1> QED BY <1>1, <1>11, <1>12 DEF Tally, N

\* What the sum says of the lag.
LEMMA TallyBounds ==
  ASSUME TypeOK, Tally
  PROVE  CounterLag
<1> DEFINE m == FlushEvery - 1
<1>1. PICK order \in Bijection(1..N, Workers), s \in [0..N -> Int] : PartialSums(order, s)
  BY DEF Tally
<1>2. N \in Nat /\ m \in Nat
  BY FS_CardinalityType DEF N
<1>3. ASSUME NEW i \in 1..N
      PROVE  /\ i \in 0..N /\ i - 1 \in 0..N /\ s[i] \in Int /\ s[i - 1] \in Int
             /\ order[i] \in Workers /\ uncounted[order[i]] \in 0..m
             /\ s[i] = s[i - 1] + uncounted[order[i]]
  BY <1>1, <1>2 DEF TypeOK, PartialSums, Bijection, Injection
<1>4. s[0] = 0 /\ s[N] = behind
  BY <1>1 DEF PartialSums
<1> HIDE DEF m
<1>5. behind \in 0..(N * m)
  <2> DEFINE S == {i \in 0..N : s[i] \in 0..(i * m)}
  <2>1. 0 \in S
    BY <1>2, <1>4
  <2>2. ASSUME NEW i \in 1..N, i - 1 \in S PROVE i \in S
    <3> DEFINE a == (i - 1) * m
               b == i * m
    <3>1. a + m = b /\ a \in Nat
      BY <1>2
    <3>2. s[i - 1] \in 0..a
      BY <2>2
    <3> HIDE DEF a, b
    <3>3. PICK c \in 0..m : s[i] = s[i - 1] + c
      BY <1>3
    <3>4. s[i - 1] + c \in 0..b
      BY <1>2, <3>1, <3>2
    <3> QED BY <1>3, <3>3, <3>4 DEF b
  <2> HIDE DEF S
  <2>3. \A i \in 1..N : i - 1 \in S => i \in S
    BY <2>2
  <2>4. 0..N \subseteq S
    BY <1>2, <2>1, <2>3, InductionTo
  <2>5. N \in S
    BY <1>2, <2>4
  <2> QED BY <1>4, <2>5 DEF S
<1>6. ASSUME \A w \in Workers : uncounted[w] = 0 PROVE behind = 0
  <2> DEFINE S == {i \in 0..N : s[i] = 0}
  <2>1. 0 \in S
    BY <1>2, <1>4
  <2>2. ASSUME NEW i \in 1..N, i - 1 \in S PROVE i \in S
    BY <1>3, <1>6, <2>2
  <2> HIDE DEF S
  <2>3. \A i \in 1..N : i - 1 \in S => i \in S
    BY <2>2
  <2>4. 0..N \subseteq S
    BY <1>2, <2>1, <2>3, InductionTo
  <2>5. N \in S
    BY <1>2, <2>4
  <2> QED BY <1>4, <2>5 DEF S
<1> QED BY <1>5, <1>6 DEF CounterLag, N, m

LEMMA TallyStep ==
  ASSUME TypeOK, Tally, [Next]_vars
  PROVE  Tally'
<1>1. ASSUME UNCHANGED <<uncounted, behind>> PROVE Tally'
  BY <1>1 DEF Tally, PartialSums, N
<1>2. \A w \in Workers : uncounted[w] \in Nat /\ behind \in Int
  BY DEF TypeOK
<1>3. ASSUME NEW w \in Workers, Take(w) PROVE Tally'
  <2> DEFINE x == CountFlushed(uncounted[w])
  <2>1. uncounted' = [uncounted EXCEPT ![w] = x]
    BY <1>3 DEF Take
  <2>2. behind' = behind + x - uncounted[w] /\ x \in Nat
    BY <1>2, <1>3 DEF Take, CountFlushed
  <2> HIDE DEF x
  <2> QED BY <2>1, <2>2, TallyMoves
<1>4. ASSUME NEW w \in Workers, EmptyFlushed(w) PROVE Tally'
  <2>1. uncounted' = [uncounted EXCEPT ![w] = 0] /\ behind' = behind + 0 - uncounted[w]
    BY <1>2, <1>4 DEF EmptyFlushed
  <2> QED BY <2>1, TallyMoves
<1>5. ASSUME NEW lane \in Lanes, Put(lane) \/ Feed(lane) PROVE Tally'
  BY <1>1, <1>5 DEF Put, Feed
<1>6. ASSUME NEW w \in Workers, WorkerStep(w) PROVE Tally'
  <2>1. \/ Take(w) \/ EmptyFlushed(w) \/ UNCHANGED <<uncounted, behind>>
    BY <1>6 DEF WorkerStep, TakeTurn, ProbeFirst, ProbeSecond, Acquire, Poll, WaitLock, WaitTimeout, WaitTake
  <2> QED BY <1>1, <1>3, <1>4, <2>1
<1>7. CASE UNCHANGED vars
  BY <1>1, <1>7 DEF vars
<1> QED BY <1>5, <1>6, <1>7 DEF Next

\* The shared counter lags by what the workers have not flushed yet, and by nothing
\* else (CounterLag): however takes, batches and empty waits interleave it is never
\* ahead, never a batch per worker behind, and exact once no worker has a tail.
THEOREM CounterCatchesUp == Spec => []CounterLag
<1>1. Init => Tally
  <2> SUFFICES ASSUME Init PROVE Tally
    OBVIOUS
  <2>1. N \in Nat
    BY FS_CardinalityType DEF N
  <2>2. PICK order \in Bijection(1..N, Workers) : TRUE
    BY FS_CardinalityType DEF N, ExistsBijection
  <2>3. order \in [1..N -> Workers]
    BY DEF Bijection, Injection
  <2> DEFINE s == [i \in 0..N |-> 0]
  <2>4. s \in [0..N -> Int] /\ PartialSums(order, s)
    BY <2>1, <2>3 DEF PartialSums, Init
  <2> HIDE DEF s
  <2> QED BY <2>4 DEF Tally
<1>2. TypeOK /\ Tally => CounterLag
  BY TallyBounds
<1>3. TypeOK /\ Tally /\ [Next]_vars => Tally'
  BY TallyStep
<1> QED BY <1>1, <1>2, <1>3, TypeCorrect, PTL DEF Spec
==============================================================================
