-------------------------- MODULE SensorIngestProofs --------------------------
(* Theorems about SensorIngest, for every set of addresses and hub threads *)
(* and every limit: types, the account of every captured packet, and the   *)
(* implementation of Delivery.                                             *)
EXTENDS SensorIngest, FiniteSetTheorems, TLAPS

USE SensorIngestAssumption

-------------------------------------------------------------------------------
(* Counts per address.                                                     *)

LEMMA SumIsCounts ==
  ASSUME NEW f \in Counts, NEW g \in Counts
  PROVE  f ++ g \in Counts /\ \A ip \in Ips : (f ++ g)[ip] = f[ip] + g[ip]
BY DEF Counts, ++

LEMMA OnlyIsCounts ==
  ASSUME NEW f \in Counts, NEW s
  PROVE  /\ Only(f, s) \in Counts
         /\ \A ip \in Ips : Only(f, s)[ip] = IF ip \in s THEN f[ip] ELSE 0
BY DEF Counts, Only

LEMMA NothingIsCounts == Nothing \in Counts /\ \A ip \in Ips : Nothing[ip] = 0
BY DEF Counts, Nothing

\* What is lost of one cause adds to what was lost of the four.
LEMMA LoseAdds ==
  ASSUME lost \in [Causes -> Counts], NEW f \in Counts, NEW c \in Causes, Lose(c, f)
  PROVE  /\ lost' \in [Causes -> Counts]
         /\ \A ip \in Ips : LostSum(ip)' = LostSum(ip) + f[ip]
<1>1. lost[c] ++ f \in Counts /\ \A ip \in Ips : (lost[c] ++ f)[ip] = lost[c][ip] + f[ip]
  BY SumIsCounts
<1>2. lost' = [lost EXCEPT ![c] = lost[c] ++ f]
  BY DEF Lose
<1>3. lost' \in [Causes -> Counts]
  BY <1>1, <1>2
<1>4. ASSUME NEW ip \in Ips PROVE LostSum(ip)' = LostSum(ip) + f[ip]
  <2>1. \A d \in Causes : lost'[d][ip] = IF d = c THEN lost[d][ip] + f[ip] ELSE lost[d][ip]
    BY <1>1, <1>2
  <2>2. f[ip] \in Nat /\ \A d \in Causes : lost[d][ip] \in Nat
    BY DEF Counts
  <2> QED
    BY <2>1, <2>2 DEF LostSum, Causes
<1> QED
  BY <1>3, <1>4

LEMMA PresentFinite ==
  ASSUME NEW f
  PROVE  /\ IsFiniteSet(Present(f)) /\ Cardinality(Present(f)) \in Nat
         /\ Present(f) \subseteq Ips
<1>1. Present(f) \subseteq Ips
  BY DEF Present
<1> QED
  BY <1>1, FS_Subset, FS_CardinalityType

LEMMA UnionBound ==
  ASSUME NEW S, NEW T, IsFiniteSet(S), IsFiniteSet(T)
  PROVE  IsFiniteSet(S \cup T) /\ Cardinality(S \cup T) <= Cardinality(S) + Cardinality(T)
<1>1. IsFiniteSet(S \cap T)
  BY FS_Subset
<1>2. /\ Cardinality(S) \in Nat /\ Cardinality(T) \in Nat
      /\ Cardinality(S \cap T) \in Nat
  BY <1>1, FS_CardinalityType
<1>3. /\ IsFiniteSet(S \cup T)
      /\ Cardinality(S \cup T) = Cardinality(S) + Cardinality(T) - Cardinality(S \cap T)
  BY FS_Union
<1> QED
  BY <1>2, <1>3

\* The entries that come first are entries, no more than asked for, and all of
\* them when there is room.
LEMMA FirstsAre ==
  ASSUME NEW f, NEW n \in Nat, NEW s \in Firsts(f, n)
  PROVE  /\ s \subseteq Present(f) /\ IsFiniteSet(s) /\ Cardinality(s) <= n
         /\ Cardinality(Present(f)) <= n => s = Present(f)
<1>1. s \subseteq Present(f)
  BY DEF Firsts
<1>2. IsFiniteSet(Present(f)) /\ Cardinality(Present(f)) \in Nat
  BY PresentFinite
<1>3. IsFiniteSet(s) /\ Cardinality(s) \in Nat
  BY <1>1, <1>2, FS_Subset, FS_CardinalityType
<1>4. Cardinality(s) <= n
  BY <1>2 DEF Firsts
<1>5. ASSUME Cardinality(Present(f)) <= n PROVE s = Present(f)
  <2>1. Cardinality(s) = Cardinality(Present(f))
    BY <1>2, <1>5 DEF Firsts
  <2> QED
    BY <1>1, <1>2, <2>1, FS_Subset
<1> QED
  BY <1>1, <1>3, <1>4, <1>5

-------------------------------------------------------------------------------
(* The inductive invariant.                                                *)

\* The batch is part of what was swapped out, and fits.
Batch ==
  /\ \A ip \in Ips : events[ip] \in {0, items[ip]}
  /\ Cardinality(Present(events)) <= MaxEvents
  /\ flusher = "idle" => items = Nothing /\ events = Nothing

\* The thread the sensor waits for serves this batch.
Linked ==
  /\ flusher = "awaiting" => /\ peer \in Handlers /\ handler[peer].pc # "free"
                             /\ handler[peer].events = events
  /\ flusher # "awaiting" => peer = NoHandler
  /\ \A h \in Handlers : handler[h].pc # "free" => Cardinality(Present(handler[h].events)) <= MaxEvents

IInv == TypeOK /\ Batch /\ Linked /\ CapturedAccounted

LEMMA HandlerBusy ==
  ASSUME TypeOK, NEW h \in Handlers, handler[h].pc # "free"
  PROVE  handler[h] \in Handler
BY DEF TypeOK, Free

LEMMA HandlerAnswers ==
  ASSUME NEW r \in Handler, NEW status \in Statuses
  PROVE  LET n == [r EXCEPT !.pc = "answer", !.status = status] IN
         n \in Handler /\ n.pc = "answer" /\ n.events = r.events /\ n.status = status
BY DEF Handler

\* The ways a flush can end.
Outcomes == {"settle", "discard", "requeue", "error"}

\* What the end of a flush leaves: the buffer keeps its limit, and every packet
\* of the batch is in the buffer, acknowledged or lost.
LEMMA Concluded ==
  ASSUME TypeOK, Batch, NEW o \in Outcomes, Conclude(o)
  PROVE  /\ buffer' \in Counts /\ Cardinality(Present(buffer')) <= MaxBufferIps
         /\ dropped' \in Nat /\ settled' \in Counts /\ lost' \in [Causes -> Counts]
         /\ items' = Nothing /\ events' = Nothing /\ flusher' = "idle" /\ peer' = NoHandler
         /\ settled' = IF o = "settle" THEN settled ++ events ELSE settled
         /\ \A ip \in Ips : /\ buffer'[ip] + settled'[ip] + LostSum(ip)'
                               = buffer[ip] + items[ip] + settled[ip] + LostSum(ip)
                            /\ buffer'[ip] + settled'[ip] <= buffer[ip] + items[ip] + settled[ip]
<1> USE DEF TypeOK
<1>1. items' = Nothing /\ events' = Nothing /\ flusher' = "idle" /\ peer' = NoHandler
  BY DEF Conclude
<1>2. /\ {"cut", "refused", "full", "error"} \subseteq Causes
      /\ \A ip \in Ips : /\ buffer[ip] \in Nat /\ items[ip] \in Nat /\ settled[ip] \in Nat
                         /\ events[ip] \in Nat /\ LostSum(ip) \in Nat
  BY DEF Causes, Counts, LostSum
<1>3. CASE o = "settle"
  <2> DEFINE rest == Only(items, Ips \ Present(events))
  <2>1. settled' = settled ++ events /\ Lose("cut", rest) /\ UNCHANGED <<buffer, dropped>>
    BY <1>3 DEF Conclude, Discard
  <2>2. rest \in Counts /\ \A ip \in Ips : rest[ip] = IF ip \in Present(events) THEN 0 ELSE items[ip]
    BY OnlyIsCounts
  <2>3. settled' \in Counts /\ \A ip \in Ips : settled'[ip] = settled[ip] + events[ip]
    BY <2>1, SumIsCounts
  <2>4. lost' \in [Causes -> Counts] /\ \A ip \in Ips : LostSum(ip)' = LostSum(ip) + rest[ip]
    BY <1>2, <2>1, <2>2, LoseAdds
  <2>5. \A ip \in Ips : events[ip] + rest[ip] = items[ip]
    BY <1>2, <2>2 DEF Batch, Present
  <2> HIDE DEF rest
  <2>6. \A ip \in Ips : rest[ip] \in Nat
    BY <2>2 DEF Counts
  <2> QED
    BY <1>1, <1>2, <1>3, <2>1, <2>3, <2>4, <2>5, <2>6
<1>4. CASE o = "discard"
  <2>1. settled' = settled /\ Lose("refused", items) /\ UNCHANGED <<buffer, dropped>>
    BY <1>4 DEF Conclude, Discard
  <2>2. lost' \in [Causes -> Counts] /\ \A ip \in Ips : LostSum(ip)' = LostSum(ip) + items[ip]
    BY <1>2, <2>1, LoseAdds
  <2> QED
    BY <1>1, <1>2, <1>4, <2>1, <2>2
<1>6. CASE o = "error"
  <2>1. settled' = settled /\ Lose("error", items) /\ UNCHANGED <<buffer, dropped>>
    BY <1>6 DEF Conclude, Discard
  <2>2. lost' \in [Causes -> Counts] /\ \A ip \in Ips : LostSum(ip)' = LostSum(ip) + items[ip]
    BY <1>2, <2>1, LoseAdds
  <2> QED
    BY <1>1, <1>2, <1>6, <2>1, <2>2
<1>5. CASE o = "requeue"
  <2>1. settled' = settled /\ Requeue
    BY <1>5 DEF Conclude
  <2>2. Room \in Nat
    BY PresentFinite DEF Room
  <2> DEFINE fresh == Only(items, Ips \ Present(buffer))
  <2>3. PICK s \in Firsts(fresh, Room) :
          /\ buffer' = Merged(Present(buffer) \cup s)
          /\ dropped' = dropped + Cardinality(Present(items) \ (Present(buffer) \cup s))
          /\ Lose("full", Only(items, Ips \ (Present(buffer) \cup s)))
    BY <2>1 DEF Requeue
  <2> DEFINE took == Present(buffer) \cup s
             rest == Only(items, Ips \ took)
  <2>4. /\ s \subseteq Ips /\ IsFiniteSet(s) /\ Cardinality(s) \in Nat /\ Cardinality(s) <= Room
    BY <2>2, FirstsAre, PresentFinite, FS_CardinalityType
  <2>5. /\ buffer' \in Counts
        /\ \A ip \in Ips : buffer'[ip] = IF ip \in took THEN buffer[ip] + items[ip] ELSE buffer[ip]
    BY <1>2, <2>3 DEF Merged, Counts
  <2>6. Cardinality(Present(buffer')) <= MaxBufferIps
    <3>1. IsFiniteSet(took) /\ Cardinality(took) <= Cardinality(Present(buffer)) + Cardinality(s)
      BY <2>4, PresentFinite, UnionBound
    <3>2. Present(buffer') \subseteq took
      BY <1>2, <2>5 DEF Present
    <3>3. Cardinality(Present(buffer')) <= Cardinality(took) /\ Cardinality(took) \in Nat
      BY <3>1, <3>2, FS_Subset, FS_CardinalityType
    <3> QED
      BY <2>4, <3>1, <3>3, PresentFinite DEF Room
  <2>7. dropped' \in Nat
    <3>1. IsFiniteSet(Present(items) \ took)
      BY PresentFinite, FS_Subset
    <3> QED
      BY <2>3, <3>1, FS_CardinalityType
  <2>8. rest \in Counts /\ \A ip \in Ips : rest[ip] = IF ip \in took THEN 0 ELSE items[ip]
    BY OnlyIsCounts
  <2>9. lost' \in [Causes -> Counts] /\ \A ip \in Ips : LostSum(ip)' = LostSum(ip) + rest[ip]
    BY <1>2, <2>3, <2>8, LoseAdds
  <2> HIDE DEF rest, took
  <2>10. \A ip \in Ips : /\ buffer'[ip] + rest[ip] = buffer[ip] + items[ip]
                         /\ rest[ip] \in Nat /\ buffer'[ip] \in Nat
    <3> SUFFICES ASSUME NEW ip \in Ips
                 PROVE  /\ buffer'[ip] + rest[ip] = buffer[ip] + items[ip]
                        /\ rest[ip] \in Nat /\ buffer'[ip] \in Nat
      OBVIOUS
    <3>1. ip \notin took => buffer[ip] \in Nat /\ items[ip] \in Nat
      BY <1>2
    <3> QED
      BY <1>2, <2>5, <2>8, <3>1
  <2> QED
    BY <1>1, <1>2, <1>5, <2>1, <2>5, <2>6, <2>7, <2>9, <2>10
<1> QED
  BY <1>3, <1>4, <1>5, <1>6 DEF Outcomes

LEMMA NothingPresent == Present(Nothing) = {} /\ Cardinality(Present(Nothing)) = 0
BY FS_EmptySet, NothingIsCounts DEF Present

LEMMA InvInit == Init => IInv
<1> SUFFICES ASSUME Init PROVE IInv
  OBVIOUS
<1> USE DEF Init
<1>1. TypeOK
  BY NothingIsCounts, NothingPresent DEF TypeOK
<1>2. Batch
  BY NothingIsCounts, NothingPresent DEF Batch
<1>3. Linked
  BY DEF Linked, Free
<1>4. CapturedAccounted
  <2>1. \A ip \in Ips : LostSum(ip) = 0
    BY NothingIsCounts DEF LostSum, Causes
  <2> QED
    BY <2>1, NothingIsCounts DEF CapturedAccounted
<1> QED
  BY <1>1, <1>2, <1>3, <1>4 DEF IInv

\* A flush that ends, whatever the reason.
LEMMA InvConclude ==
  ASSUME IInv, NEW o \in Outcomes, Conclude(o),
         UNCHANGED <<clock, standing, hubSeq, captured, ingested>>,
         seq' \in Nat, posts' \in Nat, restarts' \in Nat, abandoned' \in Nat,
         handler' \in [Handlers -> Handler \cup {Free}],
         \A h \in Handlers : handler'[h] \in {handler[h], Free}
  PROVE  IInv'
<1> USE DEF IInv
<1>0. /\ buffer' \in Counts /\ Cardinality(Present(buffer')) <= MaxBufferIps
      /\ dropped' \in Nat /\ settled' \in Counts /\ lost' \in [Causes -> Counts]
      /\ items' = Nothing /\ events' = Nothing /\ flusher' = "idle" /\ peer' = NoHandler
      /\ \A ip \in Ips : buffer'[ip] + settled'[ip] + LostSum(ip)'
                         = buffer[ip] + items[ip] + settled[ip] + LostSum(ip)
  BY Concluded
<1>1. TypeOK'
  BY <1>0, NothingIsCounts DEF TypeOK
<1>2. Batch'
  BY <1>0, NothingIsCounts, NothingPresent DEF Batch
<1>3. Linked'
  BY <1>0 DEF Linked, Free
<1>4. CapturedAccounted'
  <2> SUFFICES ASSUME NEW ip \in Ips
               PROVE captured[ip] = buffer'[ip] + Nothing[ip] + settled'[ip] + LostSum(ip)'
    BY <1>0 DEF CapturedAccounted
  <2>1. buffer'[ip] \in Nat /\ settled'[ip] \in Nat /\ Nothing[ip] = 0 /\ LostSum(ip)' \in Nat
    BY <1>0, NothingIsCounts DEF Counts, LostSum, Causes
  <2> QED
    BY <1>0, <2>1 DEF CapturedAccounted
<1> QED
  BY <1>1, <1>2, <1>3, <1>4

\* A step of one hub thread that keeps its batch.
LEMMA InvHandler ==
  ASSUME IInv, NEW h \in Handlers, NEW r \in Handler, handler[h].pc # "free",
         handler' = [handler EXCEPT ![h] = r], r.events = handler[h].events,
         UNCHANGED <<sensor, standing, bounds, captured, settled, lost, abandoned>>,
         hubSeq' \in Nat, ingested' \in Counts
  PROVE  IInv'
<1> USE DEF IInv, sensor, bounds
<1>1. TypeOK'
  BY DEF TypeOK
<1>2. Batch'
  BY DEF Batch
<1>3. Linked'
  <2>1. r.pc # "free" /\ \A k \in Handlers : handler'[k] = IF k = h THEN r ELSE handler[k]
    BY DEF TypeOK, Handler
  <2> QED
    BY <2>1 DEF Linked
<1>4. CapturedAccounted'
  BY DEF CapturedAccounted, LostSum
<1> QED
  BY <1>1, <1>2, <1>3, <1>4

\* Each step of a hub thread, as a change of its record.
LEMMA HandlerStep ==
  ASSUME TypeOK, NEW h \in Handlers, Admit(h) \/ Ingest(h) \/ Persist(h)
  PROVE  /\ handler[h] \in Handler /\ handler[h].pc # "free"
         /\ \E r \in Handler : /\ handler' = [handler EXCEPT ![h] = r]
                               /\ r.events = handler[h].events
<1> USE DEF TypeOK
<1>1. handler[h] \in Handler /\ handler[h].pc # "free"
  BY HandlerBusy DEF Admit, Ingest, Persist
<1>2. ASSUME NEW status \in Statuses, Answer(h, status)
      PROVE \E r \in Handler : handler' = [handler EXCEPT ![h] = r] /\ r.events = handler[h].events
  <2> DEFINE r == [handler[h] EXCEPT !.pc = "answer", !.status = status]
  <2>1. r \in Handler /\ r.events = handler[h].events
    BY <1>1, HandlerAnswers
  <2>2. handler' = [handler EXCEPT ![h] = r]
    BY <1>2 DEF Answer
  <2> QED
    BY <2>1, <2>2
<1>3. ASSUME NEW p \in {"ingest", "persist"}, handler' = [handler EXCEPT ![h].pc = p]
      PROVE \E r \in Handler : handler' = [handler EXCEPT ![h] = r] /\ r.events = handler[h].events
  <2> DEFINE r == [handler[h] EXCEPT !.pc = p]
  <2>1. r \in Handler /\ r.events = handler[h].events
    BY <1>1 DEF Handler
  <2>2. handler' = [handler EXCEPT ![h] = r]
    BY <1>3
  <2> QED
    BY <2>1, <2>2
<1>4. CASE Admit(h)
  BY <1>1, <1>2, <1>3, <1>4 DEF Admit, Statuses
<1>5. CASE Ingest(h)
  BY <1>1, <1>3, <1>5 DEF Ingest
<1>6. CASE Persist(h)
  BY <1>1, <1>2, <1>6 DEF Persist, Statuses
<1> QED
  BY <1>4, <1>5, <1>6

LEMMA InvStep == IInv /\ [Next]_vars => IInv'
<1> SUFFICES ASSUME IInv, [Next]_vars PROVE IInv'
  OBVIOUS
<1> USE DEF sensor, hub, bounds, history
<1>0. TypeOK /\ Batch /\ Linked /\ CapturedAccounted
  BY DEF IInv
<1>1. ASSUME NEW ip \in Ips, Capture(ip) PROVE IInv'
  <2>1. /\ captured' = [captured EXCEPT ![ip] = captured[ip] + 1]
        /\ UNCHANGED <<clock, seq, flusher, peer, items, events, standing, hubSeq, handler,
                       posts, restarts, settled, ingested, abandoned>>
    BY <1>1 DEF Capture
  <2>2. captured' \in Counts /\ \A i \in Ips : captured'[i] = IF i = ip THEN captured[i] + 1 ELSE captured[i]
    BY <1>0, <2>1 DEF TypeOK, Counts
  <2>3. CASE buffer[ip] = 0 /\ Cardinality(Present(buffer)) >= MaxBufferIps
    <3> DEFINE one == Only([i \in Ips |-> 1], {ip})
    <3>1. one \in Counts /\ \A i \in Ips : one[i] = IF i = ip THEN 1 ELSE 0
      BY OnlyIsCounts DEF Counts, Only
    <3> HIDE DEF one
    <3>2. Lose("full", one) /\ dropped' = dropped + 1 /\ buffer' = buffer
      BY <1>1, <2>3 DEF Capture, one
    <3>3. lost' \in [Causes -> Counts] /\ \A i \in Ips : LostSum(i)' = LostSum(i) + one[i]
      BY <1>0, <3>1, <3>2, LoseAdds DEF TypeOK, Causes
    <3>4. TypeOK'
      BY <1>0, <2>1, <2>2, <3>2, <3>3 DEF TypeOK
    <3>5. CapturedAccounted'
      <4> SUFFICES ASSUME NEW i \in Ips
                   PROVE captured'[i] = buffer[i] + items[i] + settled[i] + LostSum(i)'
        BY <2>1, <3>2 DEF CapturedAccounted
      <4>1. buffer[i] \in Nat /\ items[i] \in Nat /\ settled[i] \in Nat /\ LostSum(i) \in Nat
        BY <1>0 DEF TypeOK, Counts, LostSum, Causes
      <4> QED
        BY <1>0, <2>2, <3>1, <3>3, <4>1 DEF CapturedAccounted
    <3>6. Batch' /\ Linked'
      BY <1>0, <2>1 DEF Batch, Linked
    <3> QED
      BY <3>4, <3>5, <3>6 DEF IInv
  <2>4. CASE ~(buffer[ip] = 0 /\ Cardinality(Present(buffer)) >= MaxBufferIps)
    <3>1. buffer' = [buffer EXCEPT ![ip] = buffer[ip] + 1] /\ dropped' = dropped /\ lost' = lost
      BY <1>1, <2>4 DEF Capture
    <3>2. buffer' \in Counts /\ \A i \in Ips : buffer'[i] = IF i = ip THEN buffer[i] + 1 ELSE buffer[i]
      BY <1>0, <3>1 DEF TypeOK, Counts
    <3>3. Cardinality(Present(buffer')) <= MaxBufferIps
      <4>1. /\ buffer[ip] # 0 \/ ~(Cardinality(Present(buffer)) >= MaxBufferIps)
            /\ buffer \in Counts /\ Cardinality(Present(buffer)) <= MaxBufferIps
        BY <1>0, <2>4 DEF TypeOK
      <4>2. Present(buffer') = Present(buffer) \cup {ip} /\ (buffer[ip] # 0 <=> ip \in Present(buffer))
        BY <3>2, <4>1 DEF Present, Counts
      <4>3. IsFiniteSet(Present(buffer)) /\ Cardinality(Present(buffer)) \in Nat
        BY PresentFinite
      <4>4. Cardinality(Present(buffer) \cup {ip}) =
              IF ip \in Present(buffer) THEN Cardinality(Present(buffer))
              ELSE Cardinality(Present(buffer)) + 1
        BY <4>3, FS_AddElement
      <4> QED
        BY <4>1, <4>2, <4>3, <4>4
    <3>4. TypeOK'
      BY <1>0, <2>1, <2>2, <3>1, <3>2, <3>3 DEF TypeOK
    <3>5. CapturedAccounted'
      <4> SUFFICES ASSUME NEW i \in Ips
                   PROVE captured'[i] = buffer'[i] + items[i] + settled[i] + LostSum(i)
        BY <2>1, <3>1 DEF CapturedAccounted, LostSum
      <4>1. buffer[i] \in Nat /\ items[i] \in Nat /\ settled[i] \in Nat /\ LostSum(i) \in Nat
        BY <1>0 DEF TypeOK, Counts, LostSum, Causes
      <4> QED
        BY <1>0, <2>2, <3>2, <4>1 DEF CapturedAccounted
    <3>6. Batch' /\ Linked'
      BY <1>0, <2>1 DEF Batch, Linked
    <3> QED
      BY <3>4, <3>5, <3>6 DEF IInv
  <2> QED
    BY <2>3, <2>4
<1>2. CASE Swap
  <2>1. /\ flusher = "idle" /\ items = Nothing /\ events = Nothing /\ dropped' = 0 /\ buffer' = Nothing
        /\ UNCHANGED <<clock, peer, standing, hubSeq, handler, restarts, captured, settled,
                       lost, ingested, abandoned>>
    BY <1>0, <1>2 DEF Swap, Batch
  <2>2. \A ip \in Ips : LostSum(ip)' = LostSum(ip)
    BY <2>1 DEF LostSum
  <2>3. CASE buffer = Nothing
    <3>1. UNCHANGED <<buffer, flusher, items, events, seq, posts>>
      BY <1>2, <2>1, <2>3 DEF Swap
    <3> QED
      BY <1>0, <2>1, <2>2, <3>1 DEF IInv, TypeOK, Batch, Linked, CapturedAccounted
  <2>4. CASE buffer # Nothing
    <3>1. PICK s \in Firsts(buffer, MaxEvents) : events' = Only(buffer, s)
      BY <1>2, <2>4 DEF Swap
    <3>2. items' = buffer /\ seq' = NextSeq /\ posts' = posts + 1 /\ flusher' = "posting"
      BY <1>2, <2>4 DEF Swap
    <3>3. events' \in Counts /\ \A ip \in Ips : events'[ip] = IF ip \in s THEN buffer[ip] ELSE 0
      BY <1>0, <3>1, OnlyIsCounts DEF TypeOK
    <3>4. TypeOK'
      <4>1. seq' \in Nat
        BY <1>0, <3>2 DEF TypeOK, NextSeq
      <4> QED
        BY <1>0, <2>1, <3>2, <3>3, <4>1, NothingIsCounts, NothingPresent DEF TypeOK
    <3>5. Batch'
      <4>1. s \subseteq Present(buffer) /\ IsFiniteSet(s) /\ Cardinality(s) <= MaxEvents
        BY FirstsAre
      <4>2. Present(events') \subseteq s
        BY <3>3 DEF Present
      <4>3. /\ Cardinality(Present(events')) <= Cardinality(s) /\ Cardinality(s) \in Nat
            /\ Cardinality(Present(events')) \in Nat
        BY <4>1, <4>2, PresentFinite, FS_Subset, FS_CardinalityType
      <4>4. Cardinality(Present(events')) <= MaxEvents
        BY <4>1, <4>3
      <4> QED
        BY <3>2, <3>3, <4>4 DEF Batch
    <3>6. Linked'
      BY <1>0, <2>1, <3>2 DEF Linked
    <3>7. CapturedAccounted'
      <4> SUFFICES ASSUME NEW ip \in Ips
                   PROVE captured[ip] = Nothing[ip] + buffer[ip] + settled[ip] + LostSum(ip)
        BY <2>1, <2>2, <3>2 DEF CapturedAccounted
      <4>1. buffer[ip] \in Nat /\ settled[ip] \in Nat /\ Nothing[ip] = 0 /\ LostSum(ip) \in Nat
        BY <1>0, NothingIsCounts DEF TypeOK, Counts, LostSum, Causes
      <4> QED
        BY <1>0, <2>1, <4>1 DEF CapturedAccounted
    <3> QED
      BY <3>4, <3>5, <3>6, <3>7 DEF IInv
  <2> QED
    BY <2>3, <2>4
<1>3. CASE Receive
  <2>1. handler[peer].status \in Statuses /\ peer \in Handlers
    BY <1>0, <1>3, HandlerBusy DEF Receive, Linked, Handler
  <2>2. PICK o \in Outcomes : Conclude(o)
    BY <1>3 DEF Receive, Outcome, Outcomes
  <2>3. seq' \in Nat
    BY <1>0, <1>3 DEF Receive, TypeOK
  <2> QED
    BY <1>0, <1>3, <2>1, <2>2, <2>3, InvConclude DEF Receive, TypeOK
<1>4. CASE PostFails
  <2>1. PICK o \in Outcomes : Conclude(o)
    BY <1>4 DEF PostFails, Unanswered, Outcomes
  <2> QED
    BY <1>0, <1>4, <2>1, InvConclude DEF PostFails, TypeOK
<1>5. CASE GiveUp
  <2>1. PICK o \in Outcomes : Conclude(o)
    BY <1>5 DEF GiveUp, Unanswered, Outcomes
  <2> QED
    BY <1>0, <1>5, <2>1, InvConclude DEF GiveUp, TypeOK
<1>6. CASE HubRestart
  <2>1. /\ restarts' \in Nat /\ handler' = [h \in Handlers |-> Free]
        /\ UNCHANGED <<clock, seq, standing, hubSeq, posts, captured, ingested>>
    BY <1>0, <1>6 DEF HubRestart, TypeOK
  <2>2. CASE flusher = "awaiting"
    <3>1. PICK o \in Outcomes : Conclude(o)
      BY <1>6, <2>2 DEF HubRestart, Unanswered, Outcomes
    <3> QED
      BY <1>0, <1>6, <2>1, <2>2, <3>1, InvConclude DEF HubRestart, TypeOK
  <2>3. CASE flusher # "awaiting"
    <3>1. UNCHANGED <<buffer, dropped, flusher, peer, items, events, settled, lost, abandoned>>
      BY <1>6, <2>3 DEF HubRestart
    <3> QED
      BY <1>0, <2>1, <2>3, <3>1 DEF IInv, TypeOK, Batch, Linked, CapturedAccounted, LostSum, Free
  <2> QED
    BY <2>2, <2>3
<1>7. CASE SensorRestart
  <2> DEFINE f == buffer ++ items
  <2>1. f \in Counts /\ \A ip \in Ips : f[ip] = buffer[ip] + items[ip]
    BY <1>0, SumIsCounts DEF TypeOK
  <2>2. Lose("restart", f)
    BY <1>7 DEF SensorRestart
  <2> HIDE DEF f
  <2>3. lost' \in [Causes -> Counts] /\ \A ip \in Ips : LostSum(ip)' = LostSum(ip) + f[ip]
    BY <1>0, <2>1, <2>2, LoseAdds DEF TypeOK, Causes
  <2>4. /\ buffer' = Nothing /\ items' = Nothing /\ events' = Nothing /\ dropped' = 0
        /\ seq' = clock /\ flusher' = "idle" /\ peer' = NoHandler
        /\ restarts' \in Nat /\ abandoned' \in Nat
        /\ UNCHANGED <<clock, standing, hubSeq, handler, posts, captured, settled, ingested>>
    BY <1>0, <1>7 DEF SensorRestart, TypeOK
  <2>5. TypeOK'
    BY <1>0, <2>3, <2>4, NothingIsCounts, NothingPresent DEF TypeOK
  <2>6. Batch' /\ Linked'
    BY <1>0, <2>4, NothingIsCounts, NothingPresent DEF Batch, Linked
  <2>7. CapturedAccounted'
    <3> SUFFICES ASSUME NEW ip \in Ips
                 PROVE captured[ip] = Nothing[ip] + Nothing[ip] + settled[ip] + LostSum(ip)'
      BY <2>4 DEF CapturedAccounted
    <3>1. /\ buffer[ip] \in Nat /\ items[ip] \in Nat /\ settled[ip] \in Nat /\ LostSum(ip) \in Nat
          /\ Nothing[ip] = 0
      BY <1>0, NothingIsCounts DEF TypeOK, Counts, LostSum, Causes
    <3> QED
      BY <1>0, <2>1, <2>3, <3>1 DEF CapturedAccounted
  <2> QED
    BY <2>5, <2>6, <2>7 DEF IInv
<1>8. ASSUME NEW h \in Handlers, Post(h) PROVE IInv'
  <2> DEFINE r == [pc |-> "admit", seq |-> seq, events |-> events, status |-> 429]
  <2>1. r \in Handler /\ r.pc # "free" /\ r.events = events
    BY <1>0 DEF TypeOK, Handler, Statuses
  <2>2. /\ handler' = [handler EXCEPT ![h] = r] /\ flusher' = "awaiting" /\ peer' = h
        /\ UNCHANGED <<clock, buffer, dropped, seq, items, events, standing, hubSeq,
                       posts, restarts, captured, settled, lost, ingested, abandoned>>
    BY <1>8 DEF Post
  <2> HIDE DEF r
  <2>3. TypeOK'
    BY <1>0, <2>1, <2>2 DEF TypeOK
  <2>4. Batch' /\ CapturedAccounted'
    BY <1>0, <2>2 DEF Batch, CapturedAccounted, LostSum
  <2>5. Linked'
    <3>1. \A k \in Handlers : handler'[k] = IF k = h THEN r ELSE handler[k]
      BY <1>0, <2>2 DEF TypeOK
    <3> QED
      BY <1>0, <2>1, <2>2, <3>1 DEF Linked, Batch
  <2> QED
    BY <2>3, <2>4, <2>5 DEF IInv
<1>9. ASSUME NEW h \in Handlers, HubStep(h) PROVE IInv'
  <2>1. CASE Admit(h) \/ Ingest(h) \/ Persist(h)
    <3>1. /\ UNCHANGED <<sensor, standing, bounds, captured, settled, lost, abandoned>>
      BY <2>1 DEF Admit, Ingest, Persist
    <3>2. hubSeq' \in Nat
      BY <1>0, <2>1, HandlerStep DEF Admit, Ingest, Persist, TypeOK, Handler
    <3>3. ingested' \in Counts
      <4>1. CASE Ingest(h)
        <5>1. PICK s : ingested' = ingested ++ Only(handler[h].events, s)
          BY <4>1 DEF Ingest
        <5>2. handler[h].events \in Counts
          BY <1>0, <4>1, HandlerStep DEF Handler
        <5> QED
          BY <1>0, <5>1, <5>2, OnlyIsCounts, SumIsCounts DEF TypeOK
      <4>2. CASE Admit(h) \/ Persist(h)
        BY <1>0, <4>2 DEF Admit, Persist, TypeOK
      <4> QED
        BY <2>1, <4>1, <4>2
    <3>4. PICK r \in Handler : handler' = [handler EXCEPT ![h] = r] /\ r.events = handler[h].events
      BY <1>0, <2>1, HandlerStep
    <3>5. handler[h].pc # "free"
      BY <1>0, <2>1, HandlerStep
    <3> QED
      BY <3>1, <3>2, <3>3, <3>4, <3>5, InvHandler
  <2>2. CASE Unheard(h)
    <3>1. /\ peer # h /\ handler' = [handler EXCEPT ![h] = Free]
          /\ UNCHANGED <<sensor, standing, hubSeq, bounds, history>>
      BY <2>2 DEF Unheard
    <3>2. TypeOK' /\ Batch' /\ CapturedAccounted'
      BY <1>0, <3>1 DEF TypeOK, Batch, CapturedAccounted, LostSum
    <3>3. Linked'
      BY <1>0, <3>1 DEF Linked, TypeOK, Free
    <3> QED
      BY <3>2, <3>3 DEF IInv
  <2> QED
    BY <1>9, <2>1, <2>2 DEF HubStep
<1>10. ASSUME NEW t \in 0..MaxClock, SetClock(t) PROVE IInv'
  BY <1>0, <1>10 DEF SetClock, IInv, TypeOK, Batch, Linked, CapturedAccounted, LostSum
<1>11. ASSUME NEW s \in {"enabled", "disabled", "gone"}, SetStanding(s) PROVE IInv'
  BY <1>0, <1>11 DEF SetStanding, IInv, TypeOK, Batch, Linked, CapturedAccounted, LostSum
<1>12. CASE UNCHANGED vars
  BY <1>0, <1>12 DEF vars, IInv, TypeOK, Batch, Linked, CapturedAccounted, LostSum
<1> QED
  BY <1>1, <1>2, <1>3, <1>4, <1>5, <1>6, <1>7, <1>8, <1>9, <1>10, <1>11, <1>12 DEF Next

LEMMA Invariance == Spec => []IInv
BY InvInit, InvStep, PTL DEF Spec

\* Every variable has its type, and the buffer its limit, in every state.
THEOREM TypeCorrect == Spec => []TypeOK
<1>1. IInv => TypeOK
  BY DEF IInv
<1> QED
  BY <1>1, Invariance, PTL

\* Every captured packet is accounted for, at any limits and any interleaving of
\* capture, flush and hub threads (sensor.py: _record, _swap_buffer, _requeue, flush).
THEOREM PacketsAccounted == Spec => []CapturedAccounted
<1>1. IInv => CapturedAccounted
  BY DEF IInv
<1> QED
  BY <1>1, Invariance, PTL

-------------------------------------------------------------------------------
(* What the promise of sensor/README.md needs, which sensor_outage refutes.     *)

\* A batch leaves nothing out, and so far none did.
Whole == events = items /\ \A ip \in Ips : lost["cut"][ip] = 0

LEMMA CutStays ==
  ASSUME TypeOK, NEW c \in Causes \ {"cut"}, NEW f, Lose(c, f)
  PROVE  lost'["cut"] = lost["cut"]
BY DEF TypeOK, Lose, Causes

LEMMA WholeConclude ==
  ASSUME IInv, Whole, NEW o \in Outcomes, Conclude(o)
  PROVE  Whole'
<1>1. items' = Nothing /\ events' = Nothing
  BY DEF Conclude
<1>t. TypeOK
  BY DEF IInv
<1>2. CASE o = "settle"
  <2> DEFINE rest == Only(items, Ips \ Present(events))
  <2>1. Lose("cut", rest)
    BY <1>2 DEF Conclude, Discard
  <2>2. rest \in Counts /\ \A ip \in Ips : rest[ip] = 0
    <3>1. items \in Counts /\ items = events
      BY <1>t DEF TypeOK, Whole
    <3>2. \A ip \in Ips : rest[ip] = IF ip \in Ips \ Present(events) THEN items[ip] ELSE 0
      BY <3>1, OnlyIsCounts
    <3>3. \A ip \in Ips : ip \notin Present(events) => items[ip] = 0
      BY <3>1 DEF Present, Counts
    <3> QED
      BY <3>1, <3>2, <3>3, OnlyIsCounts
  <2>3. "cut" \in Causes /\ lost["cut"] \in Counts /\ lost \in [Causes -> Counts]
    BY <1>t DEF TypeOK, Causes
  <2> HIDE DEF rest
  <2>4. lost'["cut"] = lost["cut"] ++ rest
    BY <2>1, <2>3 DEF Lose
  <2>5. \A ip \in Ips : lost'["cut"][ip] = 0
    BY <2>2, <2>3, <2>4, SumIsCounts DEF Whole
  <2> QED
    BY <1>1, <2>5 DEF Whole
<1>3. CASE o # "settle"
  <2>1. \E c \in {"refused", "full", "error"} : \E f : Lose(c, f)
    BY <1>3 DEF Conclude, Discard, Requeue
  <2>2. lost'["cut"] = lost["cut"]
    BY <1>t, <2>1, CutStays DEF Causes
  <2> QED
    BY <1>1, <2>2 DEF Whole
<1> QED
  BY <1>2, <1>3

LEMMA WholeStep ==
  ASSUME Cardinality(Present(buffer)) <= MaxEvents, IInv, Whole, [Next]_vars
  PROVE  Whole'
<1> USE DEF sensor, hub, bounds, history
<1>t. TypeOK
  BY DEF IInv
<1>1. ASSUME UNCHANGED <<events, items, lost>> PROVE Whole'
  BY <1>1 DEF Whole
<1>2. ASSUME NEW ip \in Ips, Capture(ip) PROVE Whole'
  <2>1. UNCHANGED <<events, items>> /\ (lost' = lost \/ \E f : Lose("full", f))
    BY <1>2 DEF Capture
  <2>2. lost'["cut"] = lost["cut"]
    BY <1>t, <2>1, CutStays DEF Causes
  <2> QED
    BY <2>1, <2>2 DEF Whole
<1>3. CASE Swap
  <2>1. CASE buffer = Nothing
    BY <1>1, <1>3, <2>1 DEF Swap
  <2>2. CASE buffer # Nothing
    <3>1. PICK s \in Firsts(buffer, MaxEvents) : events' = Only(buffer, s)
      BY <1>3, <2>2 DEF Swap
    <3>2. items' = buffer /\ lost' = lost
      BY <1>3, <2>2 DEF Swap
    <3>3. buffer \in Counts /\ Cardinality(Present(buffer)) <= MaxEvents /\ MaxEvents \in Nat
      <4>1. Cardinality(Present(buffer)) \in Nat
        BY PresentFinite
      <4> QED
        BY <1>t, <4>1, SensorIngestAssumption DEF TypeOK
    <3>4. s = Present(buffer)
      BY <3>3, FirstsAre
    <3>5. Only(buffer, s) = buffer
      <4>1. \A ip \in Ips : Only(buffer, s)[ip] = buffer[ip]
        BY <3>3, <3>4, OnlyIsCounts DEF Present, Counts
      <4> QED
        BY <3>3, <4>1, OnlyIsCounts DEF Counts
    <3> QED
      BY <3>1, <3>2, <3>5 DEF Whole
  <2> QED
    BY <2>1, <2>2
<1>4. CASE Receive
  BY <1>4, WholeConclude DEF Receive, Outcome, Outcomes
<1>5. CASE PostFails \/ GiveUp
  BY <1>5, WholeConclude DEF PostFails, GiveUp, Unanswered, Outcomes
<1>6. CASE HubRestart
  BY <1>1, <1>6, WholeConclude DEF HubRestart, Unanswered, Outcomes
<1>7. CASE SensorRestart
  <2>1. items' = Nothing /\ events' = Nothing /\ Lose("restart", buffer ++ items)
    BY <1>7 DEF SensorRestart
  <2>2. lost'["cut"] = lost["cut"]
    BY <1>t, <2>1, CutStays DEF Causes
  <2> QED
    BY <2>1, <2>2 DEF Whole
<1>8. ASSUME NEW h \in Handlers, Post(h) \/ HubStep(h) PROVE Whole'
  BY <1>1, <1>8 DEF Post, HubStep, Admit, Ingest, Persist, Unheard
<1>9. CASE (\E t \in 0..MaxClock : SetClock(t))
           \/ \E s \in {"enabled", "disabled", "gone"} : SetStanding(s)
  BY <1>1, <1>9 DEF SetClock, SetStanding
<1>10. CASE UNCHANGED vars
  BY <1>1, <1>10 DEF vars
<1> QED
  BY <1>2, <1>3, <1>4, <1>5, <1>6, <1>7, <1>8, <1>9, <1>10 DEF Next

\* "no data loss for short outages" (sensor/README.md) is true of an outage short
\* enough: as long as the buffer never holds more addresses than a batch, nothing
\* is lost but to a full buffer, a refusal, a restart or an exception of flush, at
\* any limits (SENSOR_MAX_BUFFER_IPS, SENSOR_MAX_EVENTS).  One address more than a
\* batch, and the promise fails (run sensor_outage).
THEOREM OutagesWithinABatchLoseNothing ==
  Spec /\ [](Cardinality(Present(buffer)) <= MaxEvents) => []OutageLosesNothing
<1>1. Init => Whole
  BY NothingIsCounts DEF Init, Whole, Causes
<1>2. IInv /\ Whole /\ Cardinality(Present(buffer)) <= MaxEvents /\ [Next]_vars => Whole'
  BY WholeStep
<1>3. IInv /\ Whole => OutageLosesNothing
  <2> SUFFICES ASSUME IInv, Whole, NEW ip \in Ips
               PROVE  captured[ip] = buffer[ip] + items[ip] + settled[ip]
                                     + lost["full"][ip] + lost["refused"][ip]
                                     + lost["restart"][ip] + lost["error"][ip]
    BY DEF OutageLosesNothing
  <2>1. captured[ip] = buffer[ip] + items[ip] + settled[ip] + LostSum(ip)
    BY DEF IInv, CapturedAccounted
  <2>2. /\ buffer[ip] \in Nat /\ items[ip] \in Nat /\ settled[ip] \in Nat
        /\ lost["full"][ip] \in Nat /\ lost["refused"][ip] \in Nat
        /\ lost["restart"][ip] \in Nat /\ lost["error"][ip] \in Nat /\ lost["cut"][ip] = 0
    BY DEF IInv, TypeOK, Counts, Causes, Whole
  <2> QED
    BY <2>1, <2>2 DEF LostSum
<1> QED
  BY <1>1, <1>2, <1>3, InvInit, InvStep, PTL DEF Spec

-------------------------------------------------------------------------------
(* What the hub has taken, against what the sensor knows of it.            *)

Served(r) == r.pc = "persist" \/ (r.pc = "answer" /\ r.status = 200)
AwaitedServed == flusher = "awaiting" /\ Served(handler[peer])

\* What was acknowledged was ingested, and so was the batch that will be.
Acked ==
  \A ip \in Ips : /\ settled[ip] <= ingested[ip]
                  /\ AwaitedServed => settled[ip] + events[ip] <= ingested[ip]

\* Until a request is abandoned, the only busy thread is the one awaited, its
\* number is ahead of the stored one, and nothing was ingested beyond what was
\* or will be acknowledged.
Undisturbed ==
  abandoned = 0 =>
    /\ \A h \in Handlers : handler[h].pc # "free" => flusher = "awaiting" /\ peer = h
    /\ \A h \in Handlers : handler[h].pc \in {"ingest", "persist"} => handler[h].seq > hubSeq
    /\ \A ip \in Ips : ingested[ip] <= settled[ip] + (IF AwaitedServed THEN events[ip] ELSE 0)

\* The hub takes a whole batch when its limit is not below the sensor's.
LEMMA IngestTakes ==
  ASSUME IInv, NEW h \in Handlers, Ingest(h)
  PROVE  \E g \in Counts : /\ ingested' = ingested ++ g
                           /\ \A ip \in Ips : g[ip] <= handler[h].events[ip]
                           /\ MaxEvents <= HubMaxEvents => g = handler[h].events
<1> DEFINE e == handler[h].events
<1>1. handler[h] \in Handler /\ handler[h].pc # "free" /\ e \in Counts
  BY HandlerStep DEF IInv, Handler
<1>2. PICK s \in Firsts(e, HubMaxEvents) : ingested' = ingested ++ Only(e, s)
  BY DEF Ingest
<1>3. Only(e, s) \in Counts /\ \A ip \in Ips : Only(e, s)[ip] = IF ip \in s THEN e[ip] ELSE 0
  BY <1>1, OnlyIsCounts
<1>4. \A ip \in Ips : Only(e, s)[ip] <= e[ip]
  BY <1>1, <1>3 DEF Counts
<1>5. ASSUME MaxEvents <= HubMaxEvents PROVE Only(e, s) = e
  <2>1. Cardinality(Present(e)) <= MaxEvents /\ Cardinality(Present(e)) \in Nat
    BY <1>1, PresentFinite DEF IInv, Linked
  <2>2. s = Present(e)
    BY <1>5, <2>1, FirstsAre
  <2>3. \A ip \in Ips : Only(e, s)[ip] = e[ip]
    BY <1>1, <1>3, <2>2 DEF Present, Counts
  <2> QED
    BY <1>1, <1>3, <2>3 DEF Counts
<1> QED
  BY <1>2, <1>3, <1>4, <1>5

\* What a hub thread's record becomes in each of its steps.
LEMMA AdmitMoves ==
  ASSUME IInv, NEW h \in Handlers, Admit(h)
  PROVE  \E r : /\ handler' = [handler EXCEPT ![h] = r] /\ ~Served(r)
                /\ r.pc # "persist" /\ r.seq = handler[h].seq /\ r.events = handler[h].events
                /\ r.pc = "ingest" => r.seq > hubSeq
<1>1. handler[h] \in Handler /\ hubSeq \in Nat
  BY HandlerStep DEF IInv, TypeOK
<1>2. ASSUME NEW status \in Statuses \ {200}, Answer(h, status)
      PROVE  \E r : /\ handler' = [handler EXCEPT ![h] = r] /\ ~Served(r)
                    /\ r.pc # "persist" /\ r.seq = handler[h].seq /\ r.events = handler[h].events
                    /\ r.pc = "ingest" => r.seq > hubSeq
  <2> DEFINE r == [handler[h] EXCEPT !.pc = "answer", !.status = status]
  <2>1. /\ ~Served(r) /\ r.pc = "answer" /\ r.seq = handler[h].seq
        /\ r.events = handler[h].events
    BY <1>1 DEF Served, Handler
  <2>2. handler' = [handler EXCEPT ![h] = r]
    BY <1>2 DEF Answer
  <2> HIDE DEF r
  <2> QED
    BY <2>1, <2>2
<1>3. ASSUME ~Stale(handler[h].seq), handler' = [handler EXCEPT ![h].pc = "ingest"]
      PROVE  \E r : /\ handler' = [handler EXCEPT ![h] = r] /\ ~Served(r)
                    /\ r.pc # "persist" /\ r.seq = handler[h].seq /\ r.events = handler[h].events
                    /\ r.pc = "ingest" => r.seq > hubSeq
  <2> DEFINE r == [handler[h] EXCEPT !.pc = "ingest"]
  <2>1. /\ ~Served(r) /\ r.pc = "ingest" /\ r.seq = handler[h].seq
        /\ r.events = handler[h].events /\ handler[h].seq > hubSeq
    BY <1>1, <1>3 DEF Served, Handler, Stale
  <2>2. handler' = [handler EXCEPT ![h] = r]
    BY <1>3
  <2> HIDE DEF r
  <2> QED
    BY <2>1, <2>2
<1> QED
  BY <1>2, <1>3 DEF Admit, Statuses

LEMMA IngestMoves ==
  ASSUME IInv, NEW h \in Handlers, Ingest(h)
  PROVE  \E r : /\ handler' = [handler EXCEPT ![h] = r] /\ r.pc = "persist"
                /\ r.seq = handler[h].seq /\ r.events = handler[h].events
<1>1. handler[h] \in Handler
  BY HandlerStep DEF IInv
<1> DEFINE r == [handler[h] EXCEPT !.pc = "persist"]
<1>2. r.pc = "persist" /\ r.seq = handler[h].seq /\ r.events = handler[h].events
  BY <1>1 DEF Handler
<1>3. handler' = [handler EXCEPT ![h] = r]
  BY DEF Ingest
<1> HIDE DEF r
<1> QED
  BY <1>2, <1>3

LEMMA PersistMoves ==
  ASSUME IInv, NEW h \in Handlers, Persist(h)
  PROVE  \E r : /\ handler' = [handler EXCEPT ![h] = r] /\ r.pc = "answer" /\ r.status = 200
                /\ r.events = handler[h].events
<1>1. handler[h] \in Handler
  BY HandlerStep DEF IInv
<1> DEFINE r == [handler[h] EXCEPT !.pc = "answer", !.status = 200]
<1>2. r.pc = "answer" /\ r.status = 200 /\ r.events = handler[h].events
  BY <1>1 DEF Handler
<1>3. handler' = [handler EXCEPT ![h] = r]
  BY DEF Persist, Answer
<1> HIDE DEF r
<1> QED
  BY <1>2, <1>3

LEMMA CountsNat ==
  ASSUME TypeOK, NEW ip \in Ips
  PROVE  /\ settled[ip] \in Nat /\ ingested[ip] \in Nat /\ events[ip] \in Nat
         /\ items[ip] \in Nat /\ buffer[ip] \in Nat /\ LostSum(ip) \in Nat
BY DEF TypeOK, Counts, LostSum, Causes

\* The end of a flush, as far as the hub's account goes.
LEMMA ConcludeSettles ==
  ASSUME IInv, NEW o \in Outcomes, Conclude(o)
  PROVE  /\ flusher' = "idle" /\ peer' = NoHandler
         /\ \A ip \in Ips : settled'[ip] = IF o = "settle" THEN settled[ip] + events[ip]
                                           ELSE settled[ip]
BY Concluded, SumIsCounts DEF IInv, TypeOK

\* The steps of the sensor that leave no request awaited.
LEMMA Withdraws ==
  ASSUME IInv, PostFails \/ GiveUp \/ HubRestart \/ SensorRestart \/ Swap
  PROVE  /\ flusher' # "awaiting"
         /\ settled' = settled /\ ingested' = ingested
<1>1. ASSUME NEW o \in Unanswered, Conclude(o) PROVE flusher' = "idle" /\ settled' = settled
  <2>1. o \in Outcomes /\ o # "settle"
    BY DEF Unanswered, Outcomes
  <2> QED
    BY <1>1, <2>1, Concluded DEF IInv
<1>2. CASE PostFails \/ GiveUp \/ HubRestart
  BY <1>1, <1>2 DEF PostFails, GiveUp, HubRestart
<1>3. CASE SensorRestart \/ Swap
  BY <1>3 DEF SensorRestart, Swap, history
<1> QED
  BY <1>2, <1>3

LEMMA AckedStep ==
  ASSUME MaxEvents <= HubMaxEvents, IInv, Acked, [Next]_vars
  PROVE  Acked'
<1> USE DEF sensor, hub, bounds, history
<1>0. /\ handler \in [Handlers -> Handler \cup {Free}]
      /\ flusher = "awaiting" => peer \in Handlers
      /\ \A ip \in Ips : settled[ip] \in Nat /\ ingested[ip] \in Nat /\ events[ip] \in Nat
  BY CountsNat DEF IInv, TypeOK, Linked
<1>1. ASSUME flusher' # "awaiting", \A ip \in Ips : settled'[ip] <= ingested[ip], ingested' = ingested
      PROVE  Acked'
  BY <1>1 DEF Acked, AwaitedServed
<1>2. ASSUME AwaitedServed' => AwaitedServed, settled' = settled, events' = events,
             \A ip \in Ips : ingested'[ip] \in Nat /\ ingested[ip] <= ingested'[ip]
      PROVE  Acked'
  BY <1>0, <1>2 DEF Acked
<1>3. CASE Receive
  <2>1. PICK o \in Outcomes :
           Conclude(o) /\ (o = "settle" <=> handler[peer].status = 200)
    BY <1>3 DEF Receive, Outcome, Outcomes
  <2>2. o = "settle" => AwaitedServed
    BY <1>3, <2>1 DEF Receive, AwaitedServed, Served
  <2>3. \A ip \in Ips : settled'[ip] <= ingested[ip]
    BY <1>0, <2>1, <2>2, ConcludeSettles DEF Acked
  <2> QED
    BY <1>1, <1>3, <2>1, <2>3, ConcludeSettles DEF Receive
<1>4. CASE PostFails \/ GiveUp \/ HubRestart \/ SensorRestart \/ Swap
  BY <1>4, Withdraws DEF Acked, AwaitedServed
<1>5. ASSUME NEW ip \in Ips, Capture(ip) PROVE Acked'
  BY <1>0, <1>2, <1>5 DEF Capture, AwaitedServed
<1>6. ASSUME NEW h \in Handlers, Post(h) PROVE Acked'
  <2>1. /\ handler' = [handler EXCEPT ![h] =
                [pc |-> "admit", seq |-> seq, events |-> events, status |-> 429]]
        /\ flusher' = "awaiting" /\ peer' = h
        /\ UNCHANGED <<settled, events, ingested>>
    BY <1>6 DEF Post
  <2>2. ~AwaitedServed'
    <3>1. handler'[peer'].pc = "admit"
      BY <1>0, <2>1
    <3> QED
      BY <3>1 DEF AwaitedServed, Served
  <2> QED
    BY <2>1, <2>2 DEF Acked
<1>7. ASSUME NEW h \in Handlers, Admit(h) PROVE Acked'
  <2>1. PICK r : handler' = [handler EXCEPT ![h] = r] /\ ~Served(r)
    BY <1>7, AdmitMoves
  <2>2. UNCHANGED <<flusher, peer, settled, events, ingested>>
    BY <1>7 DEF Admit
  <2>3. AwaitedServed' => AwaitedServed
    BY <1>0, <2>1, <2>2 DEF AwaitedServed, Served
  <2> QED
    BY <1>0, <1>2, <2>2, <2>3
<1>8. ASSUME NEW h \in Handlers, Ingest(h) PROVE Acked'
  <2>1. PICK g \in Counts : /\ ingested' = ingested ++ g
                            /\ \A ip \in Ips : g[ip] <= handler[h].events[ip]
                            /\ MaxEvents <= HubMaxEvents => g = handler[h].events
    BY <1>8, IngestTakes
  <2>2. \A ip \in Ips : ingested'[ip] = ingested[ip] + g[ip] /\ g[ip] \in Nat
    BY <2>1, SumIsCounts DEF IInv, TypeOK, Counts
  <2>3. UNCHANGED <<flusher, peer, settled, events>>
    BY <1>8 DEF Ingest
  <2>4. CASE flusher = "awaiting" /\ peer = h
    <3>1. g = events /\ handler[h].pc = "ingest"
      BY <1>8, <2>1, <2>4 DEF IInv, Linked, Ingest
    <3> QED
      BY <1>0, <2>2, <2>3, <3>1 DEF Acked
  <2>5. CASE ~(flusher = "awaiting" /\ peer = h)
    <3>1. PICK r : handler' = [handler EXCEPT ![h] = r]
      BY <1>8, IngestMoves
    <3>2. AwaitedServed' => AwaitedServed
      BY <1>0, <2>3, <2>5, <3>1 DEF AwaitedServed, Served
    <3> QED
      BY <1>0, <1>2, <2>2, <2>3, <3>2
  <2> QED
    BY <2>4, <2>5
<1>9. ASSUME NEW h \in Handlers, Persist(h) PROVE Acked'
  <2>1. PICK r : handler' = [handler EXCEPT ![h] = r]
    BY <1>9, PersistMoves
  <2>2. handler[h].pc = "persist" /\ UNCHANGED <<flusher, peer, settled, events, ingested>>
    BY <1>9 DEF Persist
  <2>3. AwaitedServed' => AwaitedServed
    BY <1>0, <2>1, <2>2 DEF AwaitedServed, Served
  <2> QED
    BY <1>0, <1>2, <2>2, <2>3
<1>10. ASSUME NEW h \in Handlers, Unheard(h) PROVE Acked'
  BY <1>0, <1>2, <1>10 DEF Unheard, AwaitedServed, Served
<1>11. ASSUME NEW t \in 0..MaxClock, SetClock(t) PROVE Acked'
  BY <1>0, <1>2, <1>11 DEF SetClock, AwaitedServed
<1>12. ASSUME NEW s \in {"enabled", "disabled", "gone"}, SetStanding(s) PROVE Acked'
  BY <1>0, <1>2, <1>12 DEF SetStanding, AwaitedServed
<1>13. CASE UNCHANGED vars
  BY <1>0, <1>2, <1>13 DEF vars, AwaitedServed
<1> QED
  BY <1>3, <1>4, <1>5, <1>6, <1>7, <1>8, <1>9, <1>10, <1>11, <1>12, <1>13 DEF Next, HubStep

LEMMA AckedInit == Init => Acked
BY NothingIsCounts DEF Init, Acked, AwaitedServed

LEMMA AckedInvariance ==
  ASSUME MaxEvents <= HubMaxEvents
  PROVE  Spec => [](IInv /\ Acked)
<1>1. IInv /\ Acked /\ [Next]_vars => (IInv /\ Acked)'
  BY InvStep, AckedStep
<1> QED
  BY <1>1, InvInit, AckedInit, PTL DEF Spec

\* A 200 is the word of a request that delivered its batch, as long as the hub
\* takes batches as large as the sensor sends (defaults of app.py:2207, sensor.py:61).
THEOREM AcknowledgedWereIngested ==
  ASSUME MaxEvents <= HubMaxEvents
  PROVE  Spec => []AckedWereIngested
<1>1. Acked => AckedWereIngested
  BY DEF Acked, AckedWereIngested
<1> QED
  BY <1>1, AckedInvariance, PTL

LEMMA UndisturbedStep ==
  ASSUME IInv, Undisturbed, [Next]_vars
  PROVE  Undisturbed'
<1> USE DEF sensor, hub, bounds, history
<1>0. /\ handler \in [Handlers -> Handler \cup {Free}]
      /\ flusher = "awaiting" => peer \in Handlers
      /\ abandoned \in Nat /\ hubSeq \in Nat /\ Free.pc = "free"
      /\ \A ip \in Ips : settled[ip] \in Nat /\ ingested[ip] \in Nat /\ events[ip] \in Nat
  BY CountsNat DEF IInv, TypeOK, Linked, Free
<1>1. SUFFICES ASSUME abandoned' = 0 PROVE Undisturbed'
  BY DEF Undisturbed
<1>2. abandoned' = abandoned \/ abandoned' = abandoned + 1
  BY DEF Next, Capture, Swap, Receive, PostFails, GiveUp, SensorRestart, Post, HubStep, Admit,
         Ingest, Persist, Unheard, SetClock, SetStanding, HubRestart, vars
<1>3. /\ abandoned = 0
      /\ \A h \in Handlers : handler[h].pc # "free" => flusher = "awaiting" /\ peer = h
      /\ \A h \in Handlers : handler[h].pc \in {"ingest", "persist"} => handler[h].seq > hubSeq
      /\ \A ip \in Ips : ingested[ip] <= settled[ip] + (IF AwaitedServed THEN events[ip] ELSE 0)
  BY <1>0, <1>1, <1>2 DEF Undisturbed
<1>4. ASSUME \A h \in Handlers : handler'[h].pc = "free", flusher' # "awaiting",
             \A ip \in Ips : ingested'[ip] <= settled'[ip] /\ settled'[ip] \in Nat
      PROVE  Undisturbed'
  BY <1>4 DEF Undisturbed, AwaitedServed
<1>5. CASE Receive
  <2>1. PICK o \in Outcomes :
           Conclude(o) /\ (o = "settle" <=> handler[peer].status = 200)
    BY <1>5 DEF Receive, Outcome, Outcomes
  <2>2. AwaitedServed => o = "settle"
    BY <1>5, <2>1 DEF Receive, AwaitedServed, Served
  <2>3. \A h \in Handlers : handler'[h].pc = "free"
    BY <1>0, <1>3, <1>5 DEF Receive
  <2>4. \A ip \in Ips : ingested[ip] <= settled'[ip] /\ settled'[ip] \in Nat
    BY <1>0, <1>3, <2>1, <2>2, ConcludeSettles
  <2> QED
    BY <1>4, <1>5, <2>1, <2>3, <2>4, ConcludeSettles DEF Receive
<1>6. CASE PostFails \/ GiveUp \/ HubRestart \/ SensorRestart \/ Swap
  <2>1. flusher # "awaiting"
    BY <1>1, <1>3, <1>6 DEF PostFails, GiveUp, HubRestart, SensorRestart, Swap
  <2>2. ~AwaitedServed /\ \A h \in Handlers : handler[h].pc = "free"
    BY <1>3, <2>1 DEF AwaitedServed
  <2>3. \A h \in Handlers : handler'[h].pc = "free"
    <3>1. handler' = handler \/ handler' = [h \in Handlers |-> Free]
      BY <1>6 DEF PostFails, GiveUp, HubRestart, SensorRestart, Swap
    <3> QED
      BY <1>0, <2>2, <3>1
  <2> QED
    BY <1>0, <1>3, <1>4, <1>6, <2>2, <2>3, Withdraws
<1>7. ASSUME NEW h \in Handlers, Post(h) PROVE Undisturbed'
  <2>1. /\ handler' = [handler EXCEPT ![h] =
                [pc |-> "admit", seq |-> seq, events |-> events, status |-> 429]]
        /\ flusher' = "awaiting" /\ peer' = h /\ flusher = "posting"
        /\ UNCHANGED <<hubSeq, settled, events, ingested>>
    BY <1>7 DEF Post
  <2>2. ~AwaitedServed /\ \A k \in Handlers : handler[k].pc = "free"
    BY <1>3, <2>1 DEF AwaitedServed
  <2>3. /\ handler'[h].pc = "admit"
        /\ \A k \in Handlers \ {h} : handler'[k].pc = "free"
    BY <1>0, <2>1, <2>2
  <2>4. ~AwaitedServed'
    BY <2>1, <2>3 DEF AwaitedServed, Served
  <2> QED
    BY <1>3, <2>1, <2>2, <2>3, <2>4 DEF Undisturbed
<1>8. ASSUME NEW h \in Handlers, Admit(h) \/ Ingest(h) \/ Persist(h) PROVE Undisturbed'
  <2>1. /\ handler[h].pc # "free" /\ flusher = "awaiting" /\ peer = h
        /\ handler[h].events = events
        /\ \A k \in Handlers \ {h} : handler[k].pc = "free"
        /\ UNCHANGED <<flusher, peer, settled, events>>
    BY <1>3, <1>8, HandlerStep DEF IInv, Linked, Admit, Ingest, Persist
  <2>2. ASSUME NEW r, handler' = [handler EXCEPT ![h] = r],
               r.pc \in {"ingest", "persist"} => r.seq > hubSeq',
               \A ip \in Ips : ingested'[ip] <= settled[ip] + (IF Served(r) THEN events[ip] ELSE 0)
        PROVE  Undisturbed'
    <3>1. handler'[h] = r /\ \A k \in Handlers \ {h} : handler'[k].pc = "free"
      BY <1>0, <2>1, <2>2
    <3>2. AwaitedServed' <=> Served(r)
      BY <2>1, <3>1 DEF AwaitedServed, Served
    <3> QED
      BY <2>1, <2>2, <3>1, <3>2 DEF Undisturbed
  <2>3. CASE Admit(h)
    <3>1. PICK r : /\ handler' = [handler EXCEPT ![h] = r] /\ ~Served(r)
                   /\ r.pc # "persist"
                   /\ r.pc = "ingest" => r.seq > hubSeq
      BY <2>3, AdmitMoves
    <3>2. ~AwaitedServed /\ UNCHANGED <<hubSeq, ingested>>
      BY <2>1, <2>3 DEF AwaitedServed, Served, Admit
    <3> QED
      BY <1>3, <2>2, <3>1, <3>2
  <2>4. CASE Ingest(h)
    <3>1. PICK r : /\ handler' = [handler EXCEPT ![h] = r] /\ r.pc = "persist"
                   /\ r.seq = handler[h].seq
      BY <2>4, IngestMoves
    <3>2. ~AwaitedServed /\ hubSeq' = hubSeq /\ handler[h].pc = "ingest"
      BY <2>1, <2>4 DEF AwaitedServed, Served, Ingest
    <3>3. PICK g \in Counts : /\ ingested' = ingested ++ g
                              /\ \A ip \in Ips : g[ip] <= events[ip]
      BY <2>1, <2>4, IngestTakes
    <3>4. \A ip \in Ips : ingested'[ip] = ingested[ip] + g[ip] /\ g[ip] \in Nat
      BY <3>3, SumIsCounts DEF IInv, TypeOK, Counts
    <3>5. \A ip \in Ips : ingested'[ip] <= settled[ip] + events[ip]
      BY <1>0, <1>3, <3>2, <3>3, <3>4
    <3> QED
      BY <1>3, <2>2, <3>1, <3>2, <3>5 DEF Served
  <2>5. CASE Persist(h)
    <3>1. PICK r : handler' = [handler EXCEPT ![h] = r] /\ r.pc = "answer" /\ r.status = 200
      BY <2>5, PersistMoves
    <3>2. AwaitedServed /\ ingested' = ingested
      BY <2>1, <2>5 DEF AwaitedServed, Served, Persist
    <3>3. Served(r) /\ r.pc \notin {"ingest", "persist"}
      BY <3>1 DEF Served
    <3>4. \A ip \in Ips : ingested'[ip] <= settled[ip] + events[ip]
      BY <1>3, <3>2
    <3> QED
      BY <2>2, <3>1, <3>3, <3>4
  <2> QED
    BY <1>8, <2>3, <2>4, <2>5
<1>9. ASSUME NEW h \in Handlers, Unheard(h) PROVE Undisturbed'
  <2>1. handler[h].pc = "answer" /\ peer # h
    BY <1>9 DEF Unheard
  <2> QED
    BY <1>3, <2>1
<1>10. ASSUME UNCHANGED <<flusher, peer, handler, hubSeq, settled, events, ingested>>
       PROVE  Undisturbed'
  BY <1>3, <1>10 DEF Undisturbed, AwaitedServed
<1>11. ASSUME NEW ip \in Ips, Capture(ip) PROVE Undisturbed'
  BY <1>10, <1>11 DEF Capture
<1>12. ASSUME NEW t \in 0..MaxClock, SetClock(t) PROVE Undisturbed'
  BY <1>10, <1>12 DEF SetClock
<1>13. ASSUME NEW s \in {"enabled", "disabled", "gone"}, SetStanding(s) PROVE Undisturbed'
  BY <1>10, <1>13 DEF SetStanding
<1>14. CASE UNCHANGED vars
  BY <1>10, <1>14 DEF vars
<1> QED
  BY <1>5, <1>6, <1>7, <1>8, <1>9, <1>11, <1>12, <1>13, <1>14 DEF Next, HubStep

LEMMA UndisturbedInit == Init => Undisturbed
BY NothingIsCounts DEF Init, Undisturbed, AwaitedServed, Free

LEMMA UndisturbedInvariance == Spec => [](IInv /\ Undisturbed)
<1>1. IInv /\ Undisturbed /\ [Next]_vars => (IInv /\ Undisturbed)'
  BY InvStep, UndisturbedStep
<1> QED
  BY <1>1, InvInit, UndisturbedInit, PTL DEF Spec

\* The hub counts no packet twice unless the sensor abandoned a request, at any
\* number of hub threads.
THEOREM NeverRepeats == Spec => []NoRepeatUnlessAbandoned
<1>1. IInv /\ Undisturbed => NoRepeatUnlessAbandoned
  <2> SUFFICES ASSUME IInv, Undisturbed, abandoned = 0, NEW ip \in Ips
               PROVE  ingested[ip] <= captured[ip]
    BY DEF NoRepeatUnlessAbandoned
  <2>1. events[ip] \in {0, items[ip]} /\ TypeOK
    BY DEF IInv, Batch
  <2>2. ingested[ip] <= settled[ip] + (IF AwaitedServed THEN events[ip] ELSE 0)
    BY DEF Undisturbed
  <2>3. captured[ip] = buffer[ip] + items[ip] + settled[ip] + LostSum(ip)
    BY DEF IInv, CapturedAccounted
  <2> QED
    BY <2>1, <2>2, <2>3, CountsNat
<1> QED
  BY <1>1, UndisturbedInvariance, PTL

\* The stored number only advances unless the sensor abandoned a request.
THEOREM StoredNumberAdvances == Spec => SeqAdvancesUnlessAbandoned
<1>1. IInv /\ Undisturbed /\ [Next]_vars => [abandoned = 0 => hubSeq' > hubSeq]_hubSeq
  <2> SUFFICES ASSUME IInv, Undisturbed, [Next]_vars, hubSeq' # hubSeq, abandoned = 0
               PROVE  hubSeq' > hubSeq
    OBVIOUS
  <2>1. PICK h \in Handlers : Persist(h)
    BY DEF Next, Capture, Swap, Receive, PostFails, GiveUp, SensorRestart, Post, HubStep, Admit,
           Ingest, Unheard, SetClock, SetStanding, HubRestart, vars, hub
  <2>2. handler[h].pc = "persist" /\ hubSeq' \in {hubSeq, handler[h].seq}
    BY <2>1 DEF Persist
  <2> QED
    BY <2>2 DEF Undisturbed
<1> QED
  BY <1>1, UndisturbedInvariance, PTL DEF Spec, SeqAdvancesUnlessAbandoned

\* Until a fault, the sensor's number is the batch's and is nowhere behind the stored
\* one: equal to it only when a batch was persisted and none is on its way.
Ahead ==
  abandoned = 0 /\ restarts = 0 =>
    /\ hubSeq <= seq
    /\ flusher = "posting" => hubSeq < seq
    /\ \A h \in Handlers : /\ handler[h].pc # "free" => handler[h].seq = seq
                           /\ handler[h].pc = "admit" => hubSeq < seq
                           /\ handler[h].pc = "answer" => handler[h].status # 409

\* The thread's record after each of its three steps, while it is ahead.
MovedOn(h, r) ==
  /\ handler' = [handler EXCEPT ![h] = r]
  /\ r.seq = handler[h].seq /\ r.pc # "admit" /\ r.pc # "free"
  /\ r.pc = "answer" => r.status # 409

LEMMA AheadHandler ==
  ASSUME IInv, NEW h \in Handlers, Admit(h) \/ Ingest(h) \/ Persist(h),
         handler[h].pc = "admit" => handler[h].seq > hubSeq
  PROVE  \E r : MovedOn(h, r)
<1>1. handler[h] \in Handler /\ hubSeq \in Nat
  BY HandlerStep DEF IInv, TypeOK
<1>2. ASSUME NEW status \in Statuses \ {409}, Answer(h, status) PROVE \E r : MovedOn(h, r)
  <2> DEFINE q == [handler[h] EXCEPT !.pc = "answer", !.status = status]
  <2>1. q.pc = "answer" /\ q.status = status /\ q.seq = handler[h].seq
    BY <1>1 DEF Handler
  <2>2. handler' = [handler EXCEPT ![h] = q]
    BY <1>2 DEF Answer
  <2> HIDE DEF q
  <2> QED
    BY <2>1, <2>2 DEF MovedOn
<1>3. ASSUME NEW p \in {"ingest", "persist"}, handler' = [handler EXCEPT ![h].pc = p]
      PROVE  \E r : MovedOn(h, r)
  <2> DEFINE q == [handler[h] EXCEPT !.pc = p]
  <2>1. q.pc = p /\ q.seq = handler[h].seq
    BY <1>1 DEF Handler
  <2>2. handler' = [handler EXCEPT ![h] = q]
    BY <1>3
  <2> HIDE DEF q
  <2> QED
    BY <2>1, <2>2 DEF MovedOn
<1>4. CASE Admit(h)
  <2>1. ~Stale(handler[h].seq)
    BY <1>1, <1>4 DEF Admit, Stale, Handler
  <2> QED
    BY <1>2, <1>3, <1>4, <2>1 DEF Admit, Statuses
<1>5. CASE Ingest(h)
  BY <1>3, <1>5 DEF Ingest
<1>6. CASE Persist(h)
  BY <1>2, <1>6 DEF Persist, Statuses
<1> QED
  BY <1>4, <1>5, <1>6

LEMMA AheadStep ==
  ASSUME IInv, Undisturbed, Ahead, [Next]_vars
  PROVE  Ahead'
<1> USE DEF sensor, hub, bounds, history
<1>0. /\ handler \in [Handlers -> Handler \cup {Free}] /\ Free.pc = "free"
      /\ abandoned \in Nat /\ restarts \in Nat /\ hubSeq \in Nat /\ seq \in Nat /\ clock \in Nat
      /\ flusher = "awaiting" => peer \in Handlers
  BY DEF IInv, TypeOK, Linked, Free
<1>1. SUFFICES ASSUME abandoned' = 0, restarts' = 0 PROVE Ahead'
  BY DEF Ahead
<1>2. /\ abandoned' = abandoned \/ abandoned' = abandoned + 1
      /\ restarts' = restarts \/ restarts' = restarts + 1
  BY DEF Next, Capture, Swap, Receive, PostFails, GiveUp, SensorRestart, Post, HubStep, Admit,
         Ingest, Persist, Unheard, SetClock, SetStanding, HubRestart, vars
<1>3. abandoned = 0 /\ restarts = 0
  BY <1>0, <1>1, <1>2
<1>4. /\ \A h \in Handlers : handler[h].pc # "free" => flusher = "awaiting" /\ peer = h
      /\ \A h \in Handlers : handler[h].pc \in {"ingest", "persist"} => handler[h].seq > hubSeq
  BY <1>3 DEF Undisturbed
<1>5. /\ hubSeq <= seq
      /\ flusher = "posting" => hubSeq < seq
      /\ \A h \in Handlers : /\ handler[h].pc # "free" => handler[h].seq = seq
                             /\ handler[h].pc = "admit" => hubSeq < seq
                             /\ handler[h].pc = "answer" => handler[h].status # 409
  BY <1>3 DEF Ahead
<1>6. ASSUME UNCHANGED <<flusher, handler, hubSeq, seq>> PROVE Ahead'
  BY <1>5, <1>6 DEF Ahead
<1>7. ASSUME \A h \in Handlers : handler'[h].pc = "free", hubSeq' = hubSeq, hubSeq <= seq',
             flusher' = "posting" => hubSeq < seq'
      PROVE  Ahead'
  BY <1>7 DEF Ahead
<1>8. CASE Receive
  <2>1. handler[peer].status # 409 /\ peer \in Handlers
    BY <1>0, <1>5, <1>8 DEF Receive
  <2>2. seq' = seq /\ hubSeq' = hubSeq /\ flusher' = "idle"
    BY <1>8, <2>1 DEF Receive, Conclude
  <2>3. \A h \in Handlers : handler'[h].pc = "free"
    BY <1>0, <1>4, <1>8 DEF Receive
  <2> QED
    BY <1>5, <1>7, <2>2, <2>3
<1>9. CASE PostFails
  <2>1. \A h \in Handlers : handler'[h].pc = "free"
    BY <1>4, <1>9 DEF PostFails
  <2> QED
    BY <1>5, <1>7, <1>9, <2>1 DEF PostFails, Conclude
<1>10. CASE GiveUp \/ SensorRestart \/ HubRestart
  <2>1. abandoned' = abandoned + 1 \/ restarts' = restarts + 1
    BY <1>10 DEF GiveUp, SensorRestart, HubRestart
  <2> QED
    BY <1>1, <1>3, <2>1
<1>11. CASE Swap
  <2>1. hubSeq' = hubSeq /\ \A h \in Handlers : handler'[h].pc = "free"
    BY <1>4, <1>11 DEF Swap
  <2>2. (seq' = seq /\ flusher' = "idle") \/ seq' = NextSeq
    BY <1>11 DEF Swap
  <2>3. NextSeq > seq /\ NextSeq \in Nat
    BY <1>0 DEF NextSeq
  <2>4. hubSeq <= seq' /\ (flusher' = "posting" => hubSeq < seq')
    BY <1>0, <1>5, <2>2, <2>3
  <2> QED
    BY <1>7, <2>1, <2>4
<1>12. ASSUME NEW h \in Handlers, Post(h) PROVE Ahead'
  <2>1. /\ handler' = [handler EXCEPT ![h] =
                [pc |-> "admit", seq |-> seq, events |-> events, status |-> 429]]
        /\ flusher' = "awaiting" /\ flusher = "posting"
        /\ UNCHANGED <<hubSeq, seq>>
    BY <1>12 DEF Post
  <2>2. /\ handler'[h].pc = "admit" /\ handler'[h].seq = seq
        /\ \A k \in Handlers \ {h} : handler'[k].pc = "free"
    BY <1>0, <1>4, <2>1
  <2> QED
    BY <1>5, <2>1, <2>2 DEF Ahead
<1>13. ASSUME NEW h \in Handlers, Admit(h) \/ Ingest(h) \/ Persist(h) PROVE Ahead'
  <2>1. /\ handler[h].pc # "free" /\ flusher = "awaiting" /\ handler[h].seq = seq
        /\ \A k \in Handlers \ {h} : handler[k].pc = "free"
        /\ UNCHANGED <<flusher, seq>>
    BY <1>4, <1>5, <1>13, HandlerStep DEF IInv, Admit, Ingest, Persist
  <2>2. handler[h].pc = "admit" => handler[h].seq > hubSeq
    BY <1>0, <1>5, <2>1
  <2>3. PICK r : MovedOn(h, r)
    BY <1>13, <2>2, AheadHandler
  <2>4. hubSeq' = hubSeq \/ hubSeq' = handler[h].seq
    BY <1>13 DEF Admit, Ingest, Persist
  <2>5. handler'[h] = r /\ \A k \in Handlers \ {h} : handler'[k].pc = "free"
    BY <1>0, <2>1, <2>3 DEF MovedOn
  <2> QED
    BY <1>0, <1>5, <2>1, <2>3, <2>4, <2>5 DEF Ahead, MovedOn
<1>14. ASSUME NEW h \in Handlers, Unheard(h) PROVE Ahead'
  BY <1>4, <1>14 DEF Unheard
<1>15. ASSUME NEW ip \in Ips, Capture(ip) PROVE Ahead'
  BY <1>6, <1>15 DEF Capture
<1>16. CASE (\E t \in 0..MaxClock : SetClock(t))
            \/ \E s \in {"enabled", "disabled", "gone"} : SetStanding(s)
  BY <1>6, <1>16 DEF SetClock, SetStanding
<1>17. CASE UNCHANGED vars
  BY <1>6, <1>17 DEF vars
<1> QED
  BY <1>8, <1>9, <1>10, <1>11, <1>12, <1>13, <1>14, <1>15, <1>16, <1>17 DEF Next, HubStep

\* No batch is refused as stale before a request was abandoned or a side restarted:
\* the number grows from batch to batch although the clock it follows may be set
\* back at any time (_next_seq, sensor.py:153-156; api_ingest, app.py:2632).
THEOREM StaleAfterFaultOnly == Spec => []StaleOnlyAfterFault
<1>1. Init => Ahead
  BY DEF Init, Ahead, Free, SensorIngestAssumption
<1>2. IInv /\ Undisturbed /\ Ahead /\ [Next]_vars => Ahead'
  BY AheadStep
<1>3. IInv /\ Ahead => StaleOnlyAfterFault
  BY DEF IInv, TypeOK, Ahead, StaleOnlyAfterFault
<1> QED
  BY <1>1, <1>2, <1>3, UndisturbedInvariance, PTL DEF Spec

-------------------------------------------------------------------------------
(* SensorIngest implements Delivery.                                       *)

Copies == [h \in Handlers |-> Copy(h)]

LEMMA OwedIs ==
  ASSUME TypeOK
  PROVE  Owed \in Counts /\ \A ip \in Ips : Owed[ip] = buffer[ip] + items[ip]
BY SumIsCounts DEF TypeOK, Owed

\* A flush that ends leaves no more owed than before.
LEMMA OwedFalls ==
  ASSUME IInv, NEW o \in Outcomes, Conclude(o)
  PROVE  \A ip \in Ips : /\ Owed'[ip] + settled'[ip] <= Owed[ip] + settled[ip]
                         /\ settled[ip] <= settled'[ip]
                         /\ o # "settle" => Owed'[ip] <= Owed[ip] /\ settled' = settled
<1>1. TypeOK /\ Batch
  BY DEF IInv
<1>2. /\ items' = Nothing /\ buffer' \in Counts
      /\ \A ip \in Ips : buffer'[ip] + settled'[ip] <= buffer[ip] + items[ip] + settled[ip]
  BY <1>1, Concluded
<1>3. \A ip \in Ips : Owed'[ip] = buffer'[ip] /\ Owed[ip] = buffer[ip] + items[ip]
  <2>1. Owed' = buffer' ++ Nothing
    BY <1>2 DEF Owed
  <2>2. \A ip \in Ips : (buffer' ++ Nothing)[ip] = buffer'[ip] + Nothing[ip]
    BY <1>2, NothingIsCounts, SumIsCounts
  <2>3. \A ip \in Ips : buffer'[ip] + Nothing[ip] = buffer'[ip]
    BY <1>2, NothingIsCounts DEF Counts
  <2> QED
    BY <1>1, <2>1, <2>2, <2>3, OwedIs
<1>4. settled' = IF o = "settle" THEN settled ++ events ELSE settled
  BY <1>1, Concluded
<1>5. \A ip \in Ips : settled[ip] <= settled'[ip]
  BY <1>1, <1>4, CountsNat, SumIsCounts DEF TypeOK
<1>6. \A ip \in Ips : buffer'[ip] \in Nat
  BY <1>2 DEF Counts
<1> QED
  BY <1>1, <1>2, <1>3, <1>4, <1>5, <1>6, CountsNat

LEMMA RefinesInit == Init => D!Init
<1> SUFFICES ASSUME Init PROVE D!Init
  OBVIOUS
<1>1. Nothing ++ Nothing = Nothing
  BY NothingIsCounts, SumIsCounts DEF Counts, Nothing, ++
<1>2. Owed = Nothing /\ Copies = [h \in Handlers |-> Nothing]
  BY <1>1 DEF Init, Owed, Copies, Copy, Free
<1> QED
  BY <1>2 DEF Init, D!Init, D!Nothing, Nothing, Copies

\* The steps the abstract specification does not see.
LEMMA RefinesStutter ==
  ASSUME Owed' = Owed, \A h \in Handlers : Copy(h)' = Copy(h),
         ingested' = ingested, settled' = settled
  PROVE  UNCHANGED D!vars
<1>1. Copies' = Copies
  BY DEF Copies
<1> QED
  BY <1>1 DEF D!vars, Copies

\* A step that loses packets or copies.
LEMMA RefinesForget ==
  ASSUME \A ip \in Ips : Owed'[ip] <= Owed[ip],
         \A h \in Handlers : Copy(h)' \in {Copy(h), Nothing},
         ingested' = ingested, settled' = settled
  PROVE  D!Forget
<1>1. \A h \in Handlers : Copies'[h] \in {Copies[h], Nothing}
  BY DEF Copies
<1> QED
  BY <1>1 DEF D!Forget, D!AtMost, D!Nothing, Nothing, Copies

\* A hub thread's copy, after its record has changed.
LEMMA CopyIs ==
  ASSUME TypeOK, NEW h \in Handlers, NEW r, handler' = [handler EXCEPT ![h] = r]
  PROVE  /\ Copy(h)' = IF r.pc \in {"admit", "ingest"} THEN r.events ELSE Nothing
         /\ \A k \in Handlers \ {h} : Copy(k)' = Copy(k)
<1>1. handler'[h] = r /\ \A k \in Handlers \ {h} : handler'[k] = handler[k]
  BY DEF TypeOK
<1> QED
  BY <1>1 DEF Copy

LEMMA RefinesStep ==
  ASSUME MaxEvents <= HubMaxEvents, IInv, IInv', Acked, Acked', [Next]_vars
  PROVE  [D!Next]_(D!vars)
<1> USE DEF sensor, hub, bounds, history
<1>0. /\ TypeOK /\ TypeOK' /\ Batch /\ Linked
      /\ \A ip \in Ips : /\ Owed[ip] = buffer[ip] + items[ip]
                         /\ Owed'[ip] = buffer'[ip] + items'[ip]
                         /\ buffer[ip] \in Nat /\ items[ip] \in Nat
      /\ Owed \in Counts /\ Owed' \in Counts
  <2>1. TypeOK /\ TypeOK' /\ Batch /\ Linked
    BY DEF IInv
  <2>2. Owed' \in Counts /\ \A ip \in Ips : Owed'[ip] = buffer'[ip] + items'[ip]
    BY <2>1, SumIsCounts DEF TypeOK, Owed
  <2> QED
    BY <2>1, <2>2, OwedIs, CountsNat
<1>1. ASSUME NEW ip \in Ips, Capture(ip) PROVE [D!Next]_(D!vars)
  <2>1. UNCHANGED <<items, handler, ingested, settled>>
    BY <1>1 DEF Capture
  <2>2. CASE buffer' = buffer
    BY <2>1, <2>2, RefinesStutter DEF Owed, Copy
  <2>3. CASE buffer' = [buffer EXCEPT ![ip] = buffer[ip] + 1]
    <3>1. \A i \in Ips : Owed'[i] = IF i = ip THEN Owed[i] + 1 ELSE Owed[i]
      BY <1>0, <2>1, <2>3 DEF TypeOK, Counts
    <3>2. Owed' = [Owed EXCEPT ![ip] = Owed[ip] + 1]
      BY <1>0, <3>1 DEF Counts
    <3>3. D!Capture(ip)
      BY <2>1, <3>2 DEF D!Capture, Copy
    <3> QED
      BY <3>3 DEF D!Next
  <2> QED
    BY <1>1, <2>2, <2>3 DEF Capture
<1>2. CASE Swap
  <2>1. UNCHANGED <<handler, ingested, settled>>
    BY <1>2 DEF Swap
  <2>2. /\ items = Nothing /\ buffer' = Nothing
        /\ items' = buffer \/ (items' = items /\ buffer = Nothing)
    BY <1>0, <1>2 DEF Swap, Batch
  <2>3. \A ip \in Ips : Owed'[ip] = Owed[ip]
    BY <1>0, <2>2, NothingIsCounts
  <2>4. Owed' = Owed
    BY <1>0, <2>3 DEF Counts
  <2> QED
    BY <2>1, <2>4, RefinesStutter DEF Copy
<1>3. CASE Receive
  <2>1. PICK o \in Outcomes : Conclude(o)
    BY <1>3 DEF Receive, Outcome, Outcomes
  <2>2. \A ip \in Ips : /\ settled[ip] <= settled'[ip] /\ settled'[ip] <= ingested[ip]
                        /\ Owed'[ip] + settled'[ip] <= Owed[ip] + settled[ip]
    BY <1>3, <2>1, OwedFalls DEF Receive, Acked
  <2>3. \A h \in Handlers : Copy(h)' = Copy(h)
    <3>1. PICK p \in Handlers : handler[p].pc = "answer" /\ handler' = [handler EXCEPT ![p] = Free]
      BY <1>0, <1>3 DEF Receive, Linked
    <3>2. Copy(p) = Nothing /\ Copy(p)' = Nothing
      BY <1>0, <3>1, CopyIs DEF Copy, Free
    <3> QED
      BY <1>0, <3>1, <3>2, CopyIs
  <2>4. ingested' = ingested
    BY <1>3 DEF Receive
  <2>5. D!Confirm
    BY <2>2, <2>3, <2>4 DEF D!Confirm, D!AtMost, D!Plus
  <2> QED
    BY <2>5 DEF D!Next
<1>4. ASSUME NEW o \in Unanswered, Conclude(o), ingested' = ingested,
             handler' = handler \/ handler' = [h \in Handlers |-> Free]
      PROVE  [D!Next]_(D!vars)
  <2>1. o \in Outcomes /\ o # "settle"
    BY DEF Unanswered, Outcomes
  <2>2. (\A ip \in Ips : Owed'[ip] <= Owed[ip]) /\ settled' = settled
    <3>1. \A ip \in Ips : Owed'[ip] <= Owed[ip]
      BY <1>4, <2>1, OwedFalls
    <3> QED
      BY <1>0, <1>4, <2>1, <3>1, Concluded
  <2>3. \A h \in Handlers : Copy(h)' \in {Copy(h), Nothing}
    BY <1>4 DEF Copy, Free
  <2> QED
    BY <1>4, <2>2, <2>3, RefinesForget DEF D!Next
<1>5. CASE PostFails \/ GiveUp
  BY <1>4, <1>5 DEF PostFails, GiveUp
<1>6. CASE HubRestart
  <2>1. CASE flusher = "awaiting"
    BY <1>4, <1>6, <2>1 DEF HubRestart
  <2>2. CASE flusher # "awaiting"
    <3>1. /\ UNCHANGED <<buffer, items, settled, ingested>>
          /\ handler' = [h \in Handlers |-> Free]
      BY <1>6, <2>2 DEF HubRestart
    <3>2. \A ip \in Ips : Owed'[ip] <= Owed[ip]
      BY <1>0, <3>1
    <3>3. \A h \in Handlers : Copy(h)' \in {Copy(h), Nothing}
      BY <3>1 DEF Copy, Free
    <3> QED
      BY <3>1, <3>2, <3>3, RefinesForget DEF D!Next
  <2> QED
    BY <2>1, <2>2
<1>7. CASE SensorRestart
  <2>1. buffer' = Nothing /\ items' = Nothing /\ UNCHANGED <<handler, ingested, settled>>
    BY <1>7 DEF SensorRestart
  <2>2. \A ip \in Ips : Owed'[ip] <= Owed[ip]
    BY <1>0, <2>1, NothingIsCounts
  <2>3. \A h \in Handlers : Copy(h)' \in {Copy(h), Nothing}
    BY <2>1 DEF Copy
  <2> QED
    BY <2>1, <2>2, <2>3, RefinesForget DEF D!Next
<1>8. ASSUME NEW h \in Handlers, Post(h) PROVE [D!Next]_(D!vars)
  <2> DEFINE r == [pc |-> "admit", seq |-> seq, events |-> events, status |-> 429]
  <2>1. handler' = [handler EXCEPT ![h] = r] /\ handler[h] = Free
        /\ UNCHANGED <<buffer, items, ingested, settled>>
    BY <1>8 DEF Post
  <2>2. r.pc = "admit" /\ r.events = events
    OBVIOUS
  <2> HIDE DEF r
  <2>3. /\ Copy(h)' = events /\ Copy(h) = Nothing
        /\ \A k \in Handlers \ {h} : Copy(k)' = Copy(k)
    <3>1. Copy(h) = Nothing
      BY <2>1 DEF Copy, Free
    <3> QED
      BY <1>0, <2>1, <2>2, <3>1, CopyIs
  <2>4. \A ip \in Ips : events[ip] <= Owed[ip]
    BY <1>0 DEF Batch
  <2>5. Copies' = [Copies EXCEPT ![h] = Copies'[h]] /\ Copies'[h] = events /\ Copies[h] = Nothing
    BY <2>3 DEF Copies
  <2>6. Owed' = Owed
    BY <2>1 DEF Owed
  <2>7. D!Send(h)
    BY <2>1, <2>4, <2>5, <2>6 DEF D!Send, D!AtMost, D!Nothing, Nothing, Copies
  <2> QED
    BY <2>7 DEF D!Next
<1>9. ASSUME NEW h \in Handlers, Admit(h) PROVE [D!Next]_(D!vars)
  <2>1. PICK r : /\ handler' = [handler EXCEPT ![h] = r]
                 /\ r.events = handler[h].events
    BY <1>9, AdmitMoves
  <2>2. Copy(h) = handler[h].events /\ UNCHANGED <<buffer, items, ingested, settled>>
    BY <1>9 DEF Admit, Copy
  <2>3. \A k \in Handlers : Copy(k)' \in {Copy(k), Nothing}
    BY <1>0, <2>1, <2>2, CopyIs
  <2>4. \A ip \in Ips : Owed'[ip] <= Owed[ip]
    BY <1>0, <2>2
  <2> QED
    BY <2>2, <2>3, <2>4, RefinesForget DEF D!Next
<1>10. ASSUME NEW h \in Handlers, Ingest(h) PROVE [D!Next]_(D!vars)
  <2>1. PICK r : handler' = [handler EXCEPT ![h] = r] /\ r.pc = "persist"
    BY <1>10, IngestMoves
  <2>2. PICK g \in Counts : /\ ingested' = ingested ++ g
                            /\ MaxEvents <= HubMaxEvents => g = handler[h].events
    BY <1>10, IngestTakes
  <2>3. Copy(h) = handler[h].events /\ UNCHANGED <<buffer, items, settled>>
    BY <1>10 DEF Ingest, Copy
  <2>4. Copy(h)' = Nothing /\ \A k \in Handlers \ {h} : Copy(k)' = Copy(k)
    BY <1>0, <2>1, CopyIs
  <2>5. Copies' = [Copies EXCEPT ![h] = Nothing] /\ Copies[h] = handler[h].events
    BY <2>3, <2>4 DEF Copies
  <2>6. ingested' = [ip \in Ips |-> ingested[ip] + Copies[h][ip]]
    BY <2>2, <2>5 DEF ++
  <2>7. Owed' = Owed
    BY <2>3 DEF Owed
  <2>8. D!Deliver(h)
    BY <2>3, <2>5, <2>6, <2>7 DEF D!Deliver, D!Plus, D!Nothing, Nothing, Copies
  <2> QED
    BY <2>8 DEF D!Next
<1>11. ASSUME NEW h \in Handlers, Persist(h) \/ Unheard(h) PROVE [D!Next]_(D!vars)
  <2>1. PICK r : handler' = [handler EXCEPT ![h] = r] /\ r.pc \notin {"admit", "ingest"}
    BY <1>11, PersistMoves DEF Unheard, Free
  <2>2. Copy(h) = Nothing /\ UNCHANGED <<buffer, items, ingested, settled>>
    BY <1>11 DEF Persist, Unheard, Copy
  <2>3. \A k \in Handlers : Copy(k)' = Copy(k)
    BY <1>0, <2>1, <2>2, CopyIs
  <2> QED
    BY <2>2, <2>3, RefinesStutter DEF Owed
<1>12. ASSUME UNCHANGED <<buffer, items, handler, ingested, settled>> PROVE [D!Next]_(D!vars)
  BY <1>12, RefinesStutter DEF Owed, Copy
<1>13. ASSUME NEW t \in 0..MaxClock, SetClock(t) PROVE [D!Next]_(D!vars)
  BY <1>12, <1>13 DEF SetClock
<1>14. ASSUME NEW s \in {"enabled", "disabled", "gone"}, SetStanding(s) PROVE [D!Next]_(D!vars)
  BY <1>12, <1>14 DEF SetStanding
<1>15. CASE UNCHANGED vars
  BY <1>12, <1>15 DEF vars
<1> QED
  BY <1>1, <1>2, <1>3, <1>5, <1>6, <1>7, <1>8, <1>9, <1>10, <1>11, <1>13, <1>14, <1>15
     DEF Next, HubStep

\* Sensor and hub deliver at least once: with a hub limit not below the sensor's,
\* every behaviour of SensorIngest is one of Delivery.
THEOREM DeliversAtLeastOnce ==
  ASSUME MaxEvents <= HubMaxEvents
  PROVE  Spec => AtLeastOnce
<1>1. Init => D!Init
  BY RefinesInit
<1>2. IInv /\ IInv' /\ Acked /\ Acked' /\ [Next]_vars => [D!Next]_(D!vars)
  BY RefinesStep
<1>3. Spec => [](IInv /\ Acked)
  BY AckedInvariance
<1> QED
  BY <1>1, <1>2, <1>3, PTL DEF Spec, AtLeastOnce, D!Spec
===============================================================================
