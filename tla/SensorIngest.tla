---------------------------- MODULE SensorIngest ----------------------------
(***************************************************************************)
(* A remote sensor (sensor/sensor.py) and the hub's /api/ingest endpoint.  *)
(* The capture thread folds packets into one event per address; the flush  *)
(* loop swaps the buffer, posts a batch under a fresh sequence number and  *)
(* waits for the answer; hub threads admit, ingest and record it.  A       *)
(* request the sensor stopped waiting for keeps its hub thread.            *)
(*                                                                         *)
(* Abstractions.  An event is the number of packets folded into it, in any *)
(* direction; encryption, compression and the token's age appear as the    *)
(* verdict 401, which any request may get.  A handler takes its events in  *)
(* one step: where they go from there is IpStore's subject.  Definitions   *)
(* ending in -ing, -Twice, -Unbounded or -Unchecked beside a plain one are *)
(* faulty variants no specification uses.                                  *)
(***************************************************************************)
EXTENDS Naturals, FiniteSets, FiniteSetsExt

CONSTANTS
  Ips,           \* remote addresses a sensor sees
  Handlers,      \* hub threads serving /api/ingest
  NoHandler,     \* no request is outstanding
  MaxBufferIps,  \* SENSOR_MAX_BUFFER_IPS
  MaxEvents,     \* SENSOR_MAX_EVENTS (MAX_EVENTS_PER_BATCH)
  HubMaxEvents,  \* INGEST_MAX_EVENTS
  MaxClock,      \* model bound: the sensor's wall clock
  MaxCaptured,   \* model bound: packets captured
  MaxPosts,      \* model bound: batches built
  MaxRestarts    \* model bound: sensor and hub restarts, together

ASSUME SensorIngestAssumption ==
  /\ IsFiniteSet(Ips) /\ NoHandler \notin Handlers
  /\ MaxBufferIps \in Nat \ {0} /\ MaxEvents \in Nat \ {0} /\ HubMaxEvents \in Nat
  /\ MaxClock \in Nat /\ MaxCaptured \in Nat /\ MaxPosts \in Nat /\ MaxRestarts \in Nat

VARIABLES
  clock,      \* time.time() on the sensor's host
  buffer,     \* _buffer: packets per address, 0 when absent
  dropped,    \* _dropped
  seq,        \* _seq
  flusher,    \* where flush is
  peer,       \* the hub thread it waits for
  items,      \* its local: the swapped-out buffer
  events,     \* its local: what of it is in the batch
  standing,   \* the device's row: enabled, disabled or gone
  hubSeq,     \* devices.seq
  handler,    \* where each hub thread is in api_ingest
  posts, restarts,                                \* counters for the model bounds
  captured, settled, lost, ingested, abandoned    \* history

sensor == <<clock, buffer, dropped, seq, flusher, peer, items, events>>
hub == <<standing, hubSeq, handler>>
bounds == <<posts, restarts>>
history == <<captured, settled, lost, ingested, abandoned>>
vars == <<sensor, hub, bounds, history>>

Counts == [Ips -> Nat]
Nothing == [ip \in Ips |-> 0]
Present(f) == {ip \in Ips : f[ip] > 0}
f ++ g == [ip \in Ips |-> f[ip] + g[ip]]
Only(f, s) == [ip \in Ips |-> IF ip \in s THEN f[ip] ELSE 0]
Total(f) == MapThenSumSet(LAMBDA ip : f[ip], Ips)

\* Why a packet was lost: the buffer was full, the hub refused the device, the
\* process ended, the batch left it out, or flush raised after the swap.
Causes == {"full", "refused", "restart", "cut", "error"}

Statuses == {200, 401, 403, 409, 429}
Handler == [pc: {"admit", "ingest", "persist", "answer"}, seq: Nat, events: Counts,
            status: Statuses]
Free == [pc |-> "free"]

TypeOK ==
  /\ clock \in 0..MaxClock
  /\ buffer \in Counts /\ Cardinality(Present(buffer)) <= MaxBufferIps
  /\ dropped \in Nat /\ seq \in Nat /\ hubSeq \in Nat
  /\ flusher \in {"idle", "posting", "awaiting"}
  /\ peer \in Handlers \cup {NoHandler}
  /\ items \in Counts /\ events \in Counts
  /\ standing \in {"enabled", "disabled", "gone"}
  /\ handler \in [Handlers -> Handler \cup {Free}]
  /\ posts \in Nat /\ restarts \in Nat /\ abandoned \in Nat
  /\ captured \in Counts /\ settled \in Counts /\ ingested \in Counts
  /\ lost \in [Causes -> Counts]

Init ==
  /\ clock \in 0..MaxClock
  /\ buffer = Nothing /\ dropped = 0 /\ seq = clock
  /\ flusher = "idle" /\ peer = NoHandler /\ items = Nothing /\ events = Nothing
  /\ standing = "enabled" /\ hubSeq = 0
  /\ handler = [h \in Handlers |-> Free]
  /\ posts = 0 /\ restarts = 0
  /\ captured = Nothing /\ settled = Nothing /\ ingested = Nothing
  /\ lost = [c \in Causes |-> Nothing]
  /\ abandoned = 0

Lose(cause, f) == lost' = [lost EXCEPT ![cause] = @ ++ f]

-------------------------------------------------------------------------------
(* The sensor.                                                             *)

\* _record: a new address needs room, a buffered one does not.
Capture(ip) ==
  /\ Total(captured) < MaxCaptured
  /\ captured' = [captured EXCEPT ![ip] = @ + 1]
  /\ IF buffer[ip] = 0 /\ Cardinality(Present(buffer)) >= MaxBufferIps
     THEN /\ dropped' = dropped + 1
          /\ Lose("full", Only([i \in Ips |-> 1], {ip}))
          /\ UNCHANGED buffer
     ELSE /\ buffer' = [buffer EXCEPT ![ip] = @ + 1]
          /\ UNCHANGED <<dropped, lost>>
  /\ UNCHANGED <<clock, seq, flusher, peer, items, events, hub, bounds,
                 settled, ingested, abandoned>>

\* _next_seq: ahead of the last one, and of the clock in milliseconds.
NextSeqRepeating == IF seq > clock THEN seq ELSE clock
NextSeq == IF seq + 1 > clock THEN seq + 1 ELSE clock

\* The first MAX_EVENTS_PER_BATCH entries of the dict, which is in arrival order:
\* any set of that size can come first.
Firsts(f, n) ==
  {s \in SUBSET Present(f) :
     Cardinality(s) = IF Cardinality(Present(f)) < n THEN Cardinality(Present(f)) ELSE n}

\* flush up to the POST: _swap_buffer, then the batch.
Swap ==
  /\ flusher = "idle" /\ posts < MaxPosts
  /\ dropped' = 0
  /\ buffer' = Nothing
  /\ IF buffer = Nothing
     THEN /\ dropped > 0
          /\ UNCHANGED <<flusher, items, events, seq, posts>>
     ELSE /\ items' = buffer
          /\ \E s \in Firsts(buffer, MaxEvents) : events' = Only(buffer, s)
          /\ seq' = NextSeq
          /\ posts' = posts + 1
          /\ flusher' = "posting"
  /\ UNCHANGED <<clock, peer, hub, restarts, history>>

\* The request reaches a hub thread.
Post(h) ==
  /\ flusher = "posting" /\ handler[h] = Free
  /\ handler' = [handler EXCEPT ![h] =
        [pc |-> "admit", seq |-> seq, events |-> events, status |-> 429]]
  /\ flusher' = "awaiting" /\ peer' = h
  /\ UNCHANGED <<clock, buffer, dropped, seq, items, events, standing, hubSeq,
                 bounds, history>>

\* _requeue: counts merge into what was captured meanwhile, new addresses take
\* what room is left, the rest is dropped.
MergedReplacing(taken) == [ip \in Ips |-> IF ip \in taken THEN items[ip] ELSE buffer[ip]]
MergedTwice(taken) ==
  [ip \in Ips |-> IF ip \in taken THEN buffer[ip] + items[ip] + items[ip] ELSE buffer[ip]]
Merged(taken) == [ip \in Ips |-> IF ip \in taken THEN buffer[ip] + items[ip] ELSE buffer[ip]]

RoomUnbounded == Cardinality(Ips)
Room == MaxBufferIps - Cardinality(Present(buffer))

Requeue ==
  \E s \in Firsts(Only(items, Ips \ Present(buffer)), Room) :
     LET taken == Present(buffer) \cup s IN
     /\ buffer' = Merged(taken)
     /\ dropped' = dropped + Cardinality(Present(items) \ taken)
     /\ Lose("full", Only(items, Ips \ taken))

Discard(cause, f) ==
  /\ Lose(cause, f)
  /\ UNCHANGED <<buffer, dropped>>

\* What flush does with the answer.
OutcomeAssuming(status) == IF status \in {401, 403} THEN "discard" ELSE "settle"
OutcomeRetrying(status) == IF status \in {401, 403} THEN "discard" ELSE "requeue"
Outcome(status) ==
  IF status = 200 THEN "settle"
  ELSE IF status \in {401, 403} THEN "discard" ELSE "requeue"

Conclude(outcome) ==
  /\ \/ /\ outcome = "settle"
        /\ settled' = settled ++ events
        /\ Discard("cut", Only(items, Ips \ Present(events)))
     \/ outcome = "discard" /\ Discard("refused", items) /\ UNCHANGED settled
     \/ outcome = "error" /\ Discard("error", items) /\ UNCHANGED settled
     \/ outcome = "requeue" /\ Requeue /\ UNCHANGED settled
  /\ flusher' = "idle" /\ peer' = NoHandler
  /\ items' = Nothing /\ events' = Nothing

\* A 409 also resynchronises the sequence with the clock.
Receive ==
  /\ flusher = "awaiting" /\ handler[peer].pc = "answer"
  /\ Conclude(Outcome(handler[peer].status))
  /\ seq' = IF handler[peer].status = 409 THEN clock + 1 ELSE seq
  /\ handler' = [handler EXCEPT ![peer] = Free]
  /\ UNCHANGED <<clock, standing, hubSeq, bounds, captured, ingested, abandoned>>

\* What flush does without an answer: it requeues on a RequestException of the
\* POST.  Any other exception, and any of encrypt_batch, which stands outside the
\* try, ends flush: _flush_loop logs it, and nobody holds the batch any more.
Unanswered == {"requeue", "error"}

\* An exception before the hub has the request.
PostFails ==
  /\ flusher = "posting"
  /\ \E o \in Unanswered : Conclude(o)
  /\ UNCHANGED <<clock, seq, hub, bounds, captured, ingested, abandoned>>

\* An exception after it: HTTP_TIMEOUT, the connection ends, an answer that
\* cannot be read.
GiveUp ==
  /\ flusher = "awaiting"
  /\ \E o \in Unanswered : Conclude(o)
  /\ abandoned' = abandoned + 1
  /\ UNCHANGED <<clock, seq, hub, bounds, captured, ingested>>

\* The sensor process ends and starts again: its buffer was memory, and the
\* sequence restarts from the clock.
SensorRestart ==
  /\ restarts < MaxRestarts
  /\ restarts' = restarts + 1
  /\ Lose("restart", buffer ++ items)
  /\ buffer' = Nothing /\ dropped' = 0 /\ seq' = clock
  /\ flusher' = "idle" /\ peer' = NoHandler /\ items' = Nothing /\ events' = Nothing
  /\ abandoned' = IF flusher = "awaiting" THEN abandoned + 1 ELSE abandoned
  /\ UNCHANGED <<clock, hub, posts, captured, settled, ingested>>

\* The wall clock runs on, or is set.
SetClock(t) ==
  /\ t # clock
  /\ clock' = t
  /\ UNCHANGED <<buffer, dropped, seq, flusher, peer, items, events, hub, bounds, history>>

-------------------------------------------------------------------------------
(* The hub.                                                                *)

Answer(h, status) ==
  handler' = [handler EXCEPT ![h] = [@ EXCEPT !.pc = "answer", !.status = status]]

\* "the sequence number must strictly advance": against the row read by get_device.
StaleUnchecked(s) == FALSE
Stale(s) == s <= hubSeq

\* api_ingest up to ingest_events.  429: the rate limit (a 413, a body too large, has
\* the same effect).  401: no key, a wrong
\* key, a token too old, no row - or a database error in get_device.
Admit(h) ==
  /\ handler[h].pc = "admit"
  /\ \/ Answer(h, 429)
     \/ Answer(h, 401)
     \/ standing = "disabled" /\ Answer(h, 403)
     \/ standing = "enabled" /\ Stale(handler[h].seq) /\ Answer(h, 409)
     \/ /\ standing = "enabled" /\ ~Stale(handler[h].seq)
        /\ handler' = [handler EXCEPT ![h].pc = "ingest"]
  /\ UNCHANGED <<sensor, standing, hubSeq, bounds, history>>

\* ingest_events, on events[:INGEST_MAX_EVENTS].
Ingest(h) ==
  /\ handler[h].pc = "ingest"
  /\ \E s \in Firsts(handler[h].events, HubMaxEvents) :
       ingested' = ingested ++ Only(handler[h].events, s)
  /\ handler' = [handler EXCEPT ![h].pc = "persist"]
  /\ UNCHANGED <<sensor, standing, hubSeq, bounds, captured, settled, lost, abandoned>>

\* update_device_after_ingest: the row takes this batch's number, unless it is
\* gone or the database fails; the answer is 200 either way.
Persist(h) ==
  /\ handler[h].pc = "persist"
  /\ hubSeq' \in (IF standing = "gone" THEN {hubSeq} ELSE {hubSeq, handler[h].seq})
  /\ Answer(h, 200)
  /\ UNCHANGED <<sensor, standing, bounds, history>>

\* The answer of a request nobody waits for.
Unheard(h) ==
  /\ handler[h].pc = "answer" /\ peer # h
  /\ handler' = [handler EXCEPT ![h] = Free]
  /\ UNCHANGED <<sensor, standing, hubSeq, bounds, history>>

\* The operator stops, starts or deletes the device.
SetStanding(s) ==
  /\ standing # "gone" /\ s # standing
  /\ standing' = s
  /\ UNCHANGED <<sensor, hubSeq, handler, bounds, history>>

\* The hub process ends and starts again: its threads are gone, a sensor waiting
\* for one sees its connection end.
HubRestart ==
  /\ restarts < MaxRestarts
  /\ restarts' = restarts + 1
  /\ handler' = [h \in Handlers |-> Free]
  /\ IF flusher = "awaiting"
     THEN /\ \E o \in Unanswered : Conclude(o)
          /\ abandoned' = abandoned + 1
     ELSE UNCHANGED <<buffer, dropped, flusher, peer, items, events, settled, lost, abandoned>>
  /\ UNCHANGED <<clock, seq, standing, hubSeq, posts, captured, ingested>>

HubStep(h) == Admit(h) \/ Ingest(h) \/ Persist(h) \/ Unheard(h)

Next ==
  \/ \E ip \in Ips : Capture(ip)
  \/ Swap \/ Receive \/ PostFails \/ GiveUp \/ SensorRestart
  \/ \E h \in Handlers : Post(h) \/ HubStep(h)
  \/ \E t \in 0..MaxClock : SetClock(t)
  \/ \E s \in {"enabled", "disabled", "gone"} : SetStanding(s)
  \/ HubRestart

Spec == Init /\ [][Next]_vars

-------------------------------------------------------------------------------
(* Properties.                                                             *)

LostSum(ip) == lost["full"][ip] + lost["refused"][ip] + lost["restart"][ip]
               + lost["cut"][ip] + lost["error"][ip]

\* _swap_buffer, _requeue and flush account for every captured packet: it is in
\* the buffer, in the batch under way, acknowledged, or lost for one of the causes
\* above, whatever was captured while the batch was away.
CapturedAccounted ==
  \A ip \in Ips : captured[ip] = buffer[ip] + items[ip] + settled[ip] + LostSum(ip)

\* A batch acknowledged with 200 was ingested: the sensor never forgets events on
\* the word of a request that had not delivered them.
AckedWereIngested == \A ip \in Ips : settled[ip] <= ingested[ip]

\* The hub counts a packet twice only when the sensor gave up on a request that
\* was being served: stale numbers, refusals and retries alone never repeat one.
NoRepeatUnlessAbandoned ==
  abandoned = 0 => \A ip \in Ips : ingested[ip] <= captured[ip]

\* While no request was abandoned, the stored sequence number only advances, over
\* restarts of both sides and any setting of the sensor's clock.
SeqAdvancesUnlessAbandoned == [][abandoned = 0 => hubSeq' > hubSeq]_hubSeq

\* A batch is refused as stale (409) only after something went wrong: as long as no
\* request was abandoned and neither side restarted, every number the sensor sends
\* is ahead of the stored one, however its clock is set.
StaleOnlyAfterFault ==
  \A h \in Handlers : handler[h].pc = "answer" /\ handler[h].status = 409
                      => abandoned > 0 \/ restarts > 0

\* Sensor and hub together deliver at least once: the sensor keeps what it
\* captured until a request that delivered the whole batch is answered or it
\* gives the packets up, sends only what it keeps, and no request is served
\* twice, over lost answers, late handlers and restarts of both sides.
Owed == buffer ++ items
Copy(h) == IF handler[h].pc \in {"admit", "ingest"} THEN handler[h].events ELSE Nothing
D == INSTANCE Delivery WITH Slots <- Handlers, owed <- Owed, delivered <- ingested,
                            copies <- [h \in Handlers |-> Copy(h)], confirmed <- settled
AtLeastOnce == D!Spec

\* "no data loss for short outages" (sensor/README.md): while the address buffer
\* never overflowed, the process lived, flush raised nothing of its own and nothing
\* was refused, nothing is lost.
OutageLosesNothing ==
  \A ip \in Ips : captured[ip] = buffer[ip] + items[ip] + settled[ip]
                                 + lost["full"][ip] + lost["refused"][ip]
                                 + lost["restart"][ip] + lost["error"][ip]
==============================================================================
