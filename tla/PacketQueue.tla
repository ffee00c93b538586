----------------------------- MODULE PacketQueue -----------------------------
(***************************************************************************)
(* packet_pipeline.PacketQueue and the process_packets loop that drains    *)
(* it: two bounded lanes, producers that never block, and a pool of        *)
(* workers that probe the lanes in an order a shared turn counter decides. *)
(*                                                                         *)
(* A lane is a multiprocessing.Queue, modelled from how this code uses it: *)
(* a semaphore of free slots, a feeder thread between put and the pipe,    *)
(* and a read lock.  get_nowait raises Empty when the pipe has nothing AND *)
(* when another thread holds the read lock, so a worker that blocks on the *)
(* high lane hides that lane from the others.  Packets of a lane are alike *)
(* (a lane is a count); the drop counter, which nothing but a log line and *)
(* a gauge reads, is left out.  process_packets' timeout is                *)
(* _POLL_INTERVAL, so a wait that times out ends the call with Empty.      *)
(* NeverPrefersLow and the other variants beside a definition are faults   *)
(* no specification uses.                                                  *)
(***************************************************************************)
EXTENDS Integers, FiniteSets

CONSTANTS
  Workers,     \* PACKET_WORKERS threads running process_packets
  NoWorker,    \* a read lock nobody holds
  Capacity,    \* maxsize of a lane (PACKET_QUEUE_MAX)
  LowEvery,    \* _LOW_EVERY
  FlushEvery   \* _PROCESSED_FLUSH

ASSUME PacketQueueAssumption ==
  /\ NoWorker \notin Workers /\ IsFiniteSet(Workers)
  /\ Capacity \in Nat \ {0} /\ LowEvery \in Nat \ {0} /\ FlushEvery \in Nat \ {0}

VARIABLES
  slots,     \* free slots of each lane's semaphore
  feed,      \* packets put, not yet written by the feeder thread
  pipe,      \* packets a get can read
  rlock,     \* who holds each lane's read lock
  turn,      \* _turn, modulo _LOW_EVERY
  worker,    \* where each worker is in get
  uncounted, \* _processed_local of each worker
  behind     \* history: packets taken less the processed_packets counter

lanes == <<slots, feed, pipe, rlock>>
vars == <<lanes, turn, worker, uncounted, behind>>

Lanes == {"high", "low"}
Other(lane) == IF lane = "high" THEN "low" ELSE "high"

\* "first" and "second" are the two get_nowait calls, "held1" and "held2" the
\* same with the read lock; "wait" and "held" are the blocking high.get.
Worker == [pc: {"turn", "first", "held1", "second", "held2", "wait", "held"}, lane: Lanes]
Holding == {"held1", "held2", "held"}

TypeOK ==
  /\ slots \in [Lanes -> 0..Capacity]
  /\ feed \in [Lanes -> 0..Capacity] /\ pipe \in [Lanes -> 0..Capacity]
  /\ rlock \in [Lanes -> Workers \cup {NoWorker}]
  /\ turn \in 0..(LowEvery - 1)
  /\ worker \in [Workers -> Worker]
  /\ \A w \in Workers : worker[w].pc \in {"wait", "held"} => worker[w].lane = "high"
  /\ uncounted \in [Workers -> 0..(FlushEvery - 1)]
  /\ behind \in Int

Init ==
  /\ slots = [l \in Lanes |-> Capacity]
  /\ feed = [l \in Lanes |-> 0] /\ pipe = [l \in Lanes |-> 0]
  /\ rlock = [l \in Lanes |-> NoWorker]
  /\ turn = 0
  /\ worker = [w \in Workers |-> [pc |-> "turn", lane |-> "high"]]
  /\ uncounted = [w \in Workers |-> 0]
  /\ behind = 0

Goto(w, pc, lane) == worker' = [worker EXCEPT ![w] = [pc |-> pc, lane |-> lane]]

-------------------------------------------------------------------------------
(* Producers: put, from the sniffer thread, the forked scanner, the reader. *)

\* put_nowait: Full, when the lane has no slot, only counts the drop.
Full(lane) == slots[lane] = 0

Put(lane) ==
  /\ ~Full(lane)
  /\ slots' = [slots EXCEPT ![lane] = @ - 1]
  /\ feed' = [feed EXCEPT ![lane] = @ + 1]
  /\ UNCHANGED <<pipe, rlock, turn, worker, uncounted, behind>>

\* The queue's feeder thread writes to the pipe.
Feed(lane) ==
  /\ feed[lane] > 0
  /\ feed' = [feed EXCEPT ![lane] = @ - 1]
  /\ pipe' = [pipe EXCEPT ![lane] = @ + 1]
  /\ UNCHANGED <<slots, rlock, turn, worker, uncounted, behind>>

-------------------------------------------------------------------------------
(* Workers: PacketQueue.get inside process_packets.                        *)

\* _next_prefers_low, on a counter that starts at 1.
NeverPrefersLow(t) == FALSE
PrefersLow(t) == t % LowEvery = 0

TakeTurn(w) ==
  /\ worker[w].pc = "turn"
  /\ turn' = (turn + 1) % LowEvery
  /\ Goto(w, "first", IF PrefersLow(turn + 1) THEN "low" ELSE "high")
  /\ UNCHANGED <<lanes, uncounted, behind>>

\* The loop counts what it takes and adds it to the shared counter in batches.
CountFlushedLate(n) == IF n + 1 > FlushEvery THEN 0 ELSE n + 1
CountFlushed(n) == IF n + 1 >= FlushEvery THEN 0 ELSE n + 1

Unlocked(lane) == [rlock EXCEPT ![lane] = NoWorker]

\* recv, release of the slot and of the read lock, then the packet is processed.
Take(w) ==
  LET lane == worker[w].lane
      local == CountFlushed(uncounted[w])
  IN
  /\ pipe[lane] > 0
  /\ pipe' = [pipe EXCEPT ![lane] = @ - 1]
  /\ slots' = [slots EXCEPT ![lane] = @ + 1]
  /\ rlock' = Unlocked(lane)
  /\ uncounted' = [uncounted EXCEPT ![w] = local]
  /\ behind' = IF local = 0 THEN behind - uncounted[w] ELSE behind + 1
  /\ Goto(w, "turn", lane)
  /\ UNCHANGED <<feed, turn>>

\* get_nowait gets the read lock or gives up on the lane.
Acquire(w, at, held, next, nextLane) ==
  LET lane == worker[w].lane IN
  /\ worker[w].pc = at
  /\ IF rlock[lane] = NoWorker
     THEN /\ rlock' = [rlock EXCEPT ![lane] = w]
          /\ Goto(w, held, lane)
     ELSE /\ Goto(w, next, nextLane)
          /\ UNCHANGED rlock
  /\ UNCHANGED <<slots, feed, pipe, turn, uncounted, behind>>

\* With the lock, it takes a packet or finds none.
Poll(w, held, next, nextLane) ==
  LET lane == worker[w].lane IN
  /\ worker[w].pc = held
  /\ \/ Take(w)
     \/ /\ pipe[lane] = 0
        /\ rlock' = Unlocked(lane)
        /\ Goto(w, next, nextLane)
        /\ UNCHANGED <<slots, feed, pipe, turn, uncounted, behind>>

ProbeFirst(w) ==
  \/ Acquire(w, "first", "held1", "second", Other(worker[w].lane))
  \/ Poll(w, "held1", "second", Other(worker[w].lane))

ProbeSecond(w) ==
  \/ Acquire(w, "second", "held2", "wait", "high")
  \/ Poll(w, "held2", "wait", "high")

\* Empty reaches process_packets, which flushes its count and calls get again.
EmptyKept(w) == UNCHANGED <<uncounted, behind>>
EmptyFlushed(w) ==
  /\ uncounted' = [uncounted EXCEPT ![w] = 0]
  /\ behind' = behind - uncounted[w]

\* high.get(timeout) waits for the read lock and then for a packet.
WaitLock(w) ==
  /\ worker[w].pc = "wait" /\ rlock["high"] = NoWorker
  /\ rlock' = [rlock EXCEPT !["high"] = w]
  /\ Goto(w, "held", "high")
  /\ UNCHANGED <<slots, feed, pipe, turn, uncounted, behind>>

WaitTimeout(w) ==
  /\ \/ worker[w].pc = "wait" /\ UNCHANGED rlock
     \/ /\ worker[w].pc = "held" /\ pipe["high"] = 0
        /\ rlock' = Unlocked("high")
  /\ EmptyFlushed(w)
  /\ Goto(w, "turn", "high")
  /\ UNCHANGED <<slots, feed, pipe, turn>>

WaitTake(w) == worker[w].pc = "held" /\ Take(w)

WorkerStep(w) ==
  TakeTurn(w) \/ ProbeFirst(w) \/ ProbeSecond(w) \/ WaitLock(w) \/ WaitTimeout(w) \/ WaitTake(w)

Next ==
  \/ \E lane \in Lanes : Put(lane) \/ Feed(lane)
  \/ \E w \in Workers : WorkerStep(w)

Spec == Init /\ [][Next]_vars

\* The feeders and the workers run; nothing is owed by the producers.
Fairness ==
  /\ \A lane \in Lanes : WF_vars(Feed(lane))
  /\ \A w \in Workers : WF_vars(WorkerStep(w))

FairSpec == Spec /\ Fairness

-------------------------------------------------------------------------------
(* Properties.                                                             *)

\* "the live processed/s rate stays accurate (lag <= one batch)": the shared counter
\* never runs ahead, is behind by less than a batch of each worker's, as every worker
\* keeps a batch of its own, and is exact once no worker has a tail.
CounterLag ==
  /\ behind \in 0..(Cardinality(Workers) * (FlushEvery - 1))
  /\ (\A w \in Workers : uncounted[w] = 0) => behind = 0

\* "A 1-in-N slice guarantees internal traffic always drains": however the other
\* lane is flooded, a lane is empty again and again or is taken from again and again.
TakenFrom(lane) == pipe[lane] > 0 /\ pipe'[lane] = pipe[lane] - 1
NoLaneStarves ==
  \A lane \in Lanes : []<>(pipe[lane] = 0) \/ []<><<TakenFrom(lane)>>_vars

\* "an idle worker's tail packets are reflected in the live rate": once the lanes
\* stay empty the counter catches up.
Drained == \A lane \in Lanes : feed[lane] + pipe[lane] = 0
TailCounted == <>[]Drained => <>[](behind = 0)
==============================================================================
