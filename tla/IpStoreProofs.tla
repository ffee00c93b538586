---------------------------- MODULE IpStoreProofs ----------------------------
(* Theorems about IpStore, for every set of devices, addresses and threads. *)
EXTENDS IpStore, TLAPS

USE IpStoreAssumption

LEMMA KeyParts ==
  ASSUME NEW k \in Keys
  PROVE  IpOf(k) \in Ips /\ k[1] \in Devices
BY DEF Keys, IpOf

LEMMA EmptyTyped == NoEntry \in Entry /\ NoRow \in Row /\ NotSeen \in Seen
BY DEF NoEntry, Entry, NoRow, Row, NotSeen, Seen, Geo

\* The records keep their type when one field moves to another legal value.
LEMMA WriterMoves ==
  ASSUME NEW r \in Writer, NEW p \in {"mark", "put", "unmark", "write"}
  PROVE  [r EXCEPT !.pc = p] \in Writer
BY DEF Writer

LEMMA GeoWorkerMoves ==
  ASSUME NEW r \in GeoWorker, NEW p \in {"lookup", "patch", "store", "finish"}, NEW g \in Geo
  PROVE  /\ [r EXCEPT !.pc = p] \in GeoWorker
         /\ [r EXCEPT !.pc = p, !.geo = g] \in GeoWorker
BY DEF GeoWorker

LEMMA EntryRelocated ==
  ASSUME NEW e \in Entry, NEW g \in Geo
  PROVE  [e EXCEPT !.geo = g] \in Entry
BY DEF Entry

LEMMA RowChanged ==
  ASSUME NEW r \in Row, NEW g \in Geo
  PROVE  [r EXCEPT !.geo = g] \in Row /\ [r EXCEPT !.count = 0] \in Row
BY DEF Row

LEMMA RowCount ==
  ASSUME NEW r \in Row, NEW g
  PROVE  [r EXCEPT !.geo = g].count = r.count /\ [r EXCEPT !.count = 0].count = 0
BY DEF Row

LEMMA RowVerdict ==
  ASSUME NEW r \in Row, NEW g
  PROVE  /\ [r EXCEPT !.geo = g].held = r.held /\ [r EXCEPT !.geo = g].threat = r.threat
         /\ [r EXCEPT !.count = 0].held = r.held /\ [r EXCEPT !.count = 0].threat = r.threat
BY DEF Row

LEMMA UpsertTyped ==
  ASSUME NEW r \in Row, NEW e \in Entry, NEW threat \in BOOLEAN
  PROVE  Upsert(r, e, threat) \in Row
<1>1. r.count + e.count \in Nat /\ e.seen \in Nat
  BY DEF Row, Entry
<1>2. (IF e.geo = "resolved" THEN e.geo ELSE r.geo) \in Geo
  BY DEF Row, Entry
<1> QED BY <1>1, <1>2 DEF Upsert, Row

\* What the transaction makes of one row, under some lists of the moment.
LEMMA CommitRow ==
  ASSUME Commit, NEW k \in Keys
  PROVE  \E listed \in ListedSets, risky \in RiskySets :
           rows'[k] = IF batch[k].held
                      THEN Upsert(rows[k], batch[k],
                                  ThreatOf(IpOf(k), batch[k].geo, listed, risky))
                      ELSE rows[k]
BY DEF Commit

\* The columns of it that no verdict touches.
LEMMA CommitColumns ==
  ASSUME Commit, NEW k \in Keys
  PROVE  /\ ~batch[k].held => rows'[k] = rows[k]
         /\ batch[k].held =>
              /\ rows'[k].held
              /\ rows'[k].count = rows[k].count + batch[k].count
              /\ rows'[k].seen = batch[k].seen
              /\ rows[k].geo = "resolved" => rows'[k].geo = "resolved"
<1>1. PICK listed \in ListedSets, risky \in RiskySets :
        rows'[k] = IF batch[k].held
                   THEN Upsert(rows[k], batch[k],
                               ThreatOf(IpOf(k), batch[k].geo, listed, risky))
                   ELSE rows[k]
  BY CommitRow
<1>2. CASE batch[k].held
  <2>1. rows'[k] = Upsert(rows[k], batch[k], ThreatOf(IpOf(k), batch[k].geo, listed, risky))
    BY <1>1, <1>2
  <2> QED
    BY <1>2, <2>1 DEF Upsert
<1>3. CASE ~batch[k].held
  BY <1>1, <1>3
<1> QED
  BY <1>2, <1>3

\* Every variable has its type in every reachable state: no step of the write
\* path, of the enrichment workers or of retention leaves it.
THEOREM TypeCorrect == Spec => []TypeOK
<1>1. Init => TypeOK
  BY EmptyTyped DEF Init, TypeOK
<1>2. TypeOK /\ [Next]_vars => TypeOK'
  <2> SUFFICES ASSUME TypeOK, [Next]_vars PROVE TypeOK'
    OBVIOUS
  <2> USE DEF TypeOK, memory, enrichment, tables, bounds, history
  <2>1. ASSUME NEW w \in Writers, NEW k \in Keys, NEW n \in Deltas, Arrive(w, k, n)
        PROVE  TypeOK'
    <3> DEFINE geo == CachedGeo(IpOf(k))
    <3>1. n \in Nat /\ IpOf(k) \in Ips
      BY KeyParts
    <3>2. geo \in Geo \cup {"none"}
      BY <3>1 DEF CachedGeo, Geo
    <3>3. writer' \in [Writers -> Writer \cup {Idle}]
      BY <2>1, <3>1, <3>2 DEF Arrive, Writer, Geo
    <3>4. geoCache' \in [Ips -> Geo \cup {"none"}]
      BY <2>1, <3>1, <3>2 DEF Arrive
    <3> QED
      BY <2>1, <3>3, <3>4 DEF Arrive
  <2>2. ASSUME NEW w \in Writers, WriterStep(w) PROVE TypeOK'
    <3>1. writer[w].pc # "idle" => writer[w] \in Writer
      BY DEF Idle
    <3>2. CASE MarkInflight(w)
      <4>1. writer[w] \in Writer /\ IpOf(writer[w].key) \in Ips
        BY <3>1, <3>2, KeyParts DEF MarkInflight, Writer
      <4>2. writer' \in [Writers -> Writer \cup {Idle}]
        BY <3>2, <4>1, WriterMoves DEF MarkInflight, Mark
      <4> QED BY <3>2, <4>1, <4>2 DEF MarkInflight, Mark
    <3>3. CASE Put(w)
      <4>1. writer[w] \in Writer /\ IpOf(writer[w].key) \in Ips
        BY <3>1, <3>3, KeyParts DEF Put, Writer
      <4>2. writer' \in [Writers -> Writer \cup {Idle}]
        BY <3>3, <4>1, WriterMoves DEF Put, PutNowait
      <4>3. geoQueue' \in Seq(Ips) /\ Len(geoQueue') <= GeoQueueMax
        <5>1. CASE geoQueue' = geoQueue
          BY <5>1
        <5>2. CASE Len(geoQueue) < GeoQueueMax /\ geoQueue' = Append(geoQueue, IpOf(writer[w].key))
          <6>1. geoQueue' \in Seq(Ips) /\ Len(geoQueue') = Len(geoQueue) + 1
            BY <5>2, <4>1
          <6> QED BY <5>2, <6>1
        <5> QED BY <3>3, <5>1, <5>2 DEF Put, PutNowait
      <4> QED BY <3>3, <4>2, <4>3 DEF Put
    <3>4. CASE Unmark(w)
      <4>1. writer[w] \in Writer
        BY <3>1, <3>4 DEF Unmark
      <4>2. writer' \in [Writers -> Writer \cup {Idle}]
        BY <3>4, <4>1, WriterMoves DEF Unmark
      <4> QED BY <3>4, <4>2 DEF Unmark, DiscardMark
    <3>5. CASE Write(w)
      <4>1. writer[w] \in Writer
        BY <3>1, <3>5 DEF Write
      <4>2. Counted(writer[w].key, writer[w].count) \in Nat
        BY <4>1 DEF Counted, Writer
      <4>3. Merged(buffer[writer[w].key], writer[w].key, writer[w].count,
                   writer[w].seen, writer[w].geo) \in Entry
        BY <4>1, <4>2 DEF Merged, Entry, Writer
      <4>4. buffer' \in [Keys -> Entry] /\ accepted' \in [Keys -> Nat]
        <5>1. buffer' \in [Keys -> Entry]
          BY <3>5, <4>3 DEF Write
        <5>2. accepted' \in [Keys -> Nat]
          <6>1. writer[w].key \in Keys
            BY <4>1 DEF Writer
          <6>2. accepted[writer[w].key] + Counted(writer[w].key, writer[w].count) \in Nat
            BY <6>1, <4>2
          <6> QED BY <3>5, <6>1, <6>2 DEF Write
        <5> QED BY <5>1, <5>2
      <4>5. dropped' \in Nat /\ drops' \in Nat
        BY <3>5 DEF Write
      <4>6. writer' \in [Writers -> Writer \cup {Idle}]
        BY <3>5 DEF Write
      <4> QED BY <3>5, <4>4, <4>5, <4>6 DEF Write
    <3> QED BY <2>2, <3>2, <3>3, <3>4, <3>5 DEF WriterStep
  <2>3. CASE Swap
    BY <2>3, EmptyTyped DEF Swap, ReportDropped
  <2>4. CASE Commit
    <3>1. \A ip \in BatchIps : ip \in Ips
      BY KeyParts DEF BatchIps, Held
    <3>2. rows' \in [Keys -> Row]
      <4>1. ASSUME NEW k \in Keys PROVE rows'[k] \in Row
        <5>1. PICK listed \in ListedSets, risky \in RiskySets :
                rows'[k] = IF batch[k].held
                           THEN Upsert(rows[k], batch[k],
                                       ThreatOf(IpOf(k), batch[k].geo, listed, risky))
                           ELSE rows[k]
          BY <2>4, CommitRow
        <5>2. ThreatOf(IpOf(k), batch[k].geo, listed, risky) \in BOOLEAN
          BY DEF ThreatOf
        <5>3. Upsert(rows[k], batch[k],
                     ThreatOf(IpOf(k), batch[k].geo, listed, risky)) \in Row
          BY <5>2, UpsertTyped
        <5> QED BY <5>1, <5>3
      <4>2. rows' = [k \in Keys |-> rows'[k]]
        BY <2>4 DEF Commit
      <4> QED BY <4>1, <4>2
    <3>3. ledger' \in [Ips -> Seen]
      <4>1. PICK lead, latest \in [BatchIps -> Devices] :
              ledger' = [ip \in Ips |->
                 IF ip \in BatchIps
                 THEN Sighting(ip, batch[<<lead[ip], ip>>], batch[<<latest[ip], ip>>])
                 ELSE ledger[ip]]
        BY <2>4 DEF Commit
      <4>2. ASSUME NEW ip \in BatchIps
            PROVE  Sighting(ip, batch[<<lead[ip], ip>>], batch[<<latest[ip], ip>>]) \in Seen
        <5>1. batch[<<lead[ip], ip>>] \in Entry /\ batch[<<latest[ip], ip>>] \in Entry
          BY <3>1 DEF Keys
        <5>2. ledger[ip] \in Seen
          BY <3>1
        <5> QED BY <5>1, <5>2 DEF Sighting, Seen, Entry
      <4> QED BY <4>1, <4>2
    <3>4. fresh' \subseteq Ips
      BY <2>4, <3>1 DEF Commit, FreshIps
    <3> QED BY <2>4, <3>2, <3>3, <3>4, EmptyTyped DEF Commit
  <2>5. CASE FlushFails
    BY <2>5, EmptyTyped DEF FlushFails, Entry
  <2>6. CASE Broadcast
    BY <2>6 DEF Broadcast
  <2>7. ASSUME NEW g \in GeoWorkers, GeoStep(g) PROVE TypeOK'
    <3>1. geoWorker[g].pc # "idle" => geoWorker[g] \in GeoWorker
      BY DEF Idle
    <3>2. CASE GeoTake(g)
      <4>1. Head(geoQueue) \in Ips /\ Tail(geoQueue) \in Seq(Ips)
            /\ Len(Tail(geoQueue)) <= GeoQueueMax
        BY <3>2 DEF GeoTake
      <4>2. geoWorker' \in [GeoWorkers -> GeoWorker \cup {Idle}]
        BY <3>2, <4>1 DEF GeoTake, GeoWorker, Geo
      <4> QED BY <3>2, <4>1, <4>2 DEF GeoTake
    <3>3. CASE GeoLookup(g)
      <4>1. geoWorker[g] \in GeoWorker
        BY <3>1, <3>3 DEF GeoLookup
      <4>2. geoWorker' \in [GeoWorkers -> GeoWorker \cup {Idle}]
        <5>1. PICK geo \in Geo : geoWorker' = [geoWorker EXCEPT ![g] =
                                       [@ EXCEPT !.pc = "patch", !.geo = geo]]
          BY <3>3 DEF GeoLookup
        <5>2. [geoWorker[g] EXCEPT !.pc = "patch", !.geo = geo] \in GeoWorker
          BY <4>1, GeoWorkerMoves
        <5> QED BY <5>1, <5>2
      <4>3. geoCache' \in [Ips -> Geo \cup {"none"}]
        BY <3>3, <4>1 DEF GeoLookup, GeoWorker
      <4> QED BY <3>3, <4>2, <4>3 DEF GeoLookup
    <3>4. CASE GeoPatch(g)
      <4>1. geoWorker[g] \in GeoWorker
        BY <3>1, <3>4 DEF GeoPatch
      <4>2. geoWorker' \in [GeoWorkers -> GeoWorker \cup {Idle}]
        BY <3>4, <4>1, GeoWorkerMoves DEF GeoPatch, GeoWorker
      <4>3. buffer' \in [Keys -> Entry]
        <5>1. geoWorker[g].geo \in Geo
          BY <4>1 DEF GeoWorker
        <5> QED BY <3>4, <5>1, EntryRelocated DEF GeoPatch
      <4> QED BY <3>4, <4>2, <4>3 DEF GeoPatch
    <3>5. CASE GeoStore(g)
      <4>1. geoWorker[g] \in GeoWorker
        BY <3>1, <3>5 DEF GeoStore
      <4>2. geoWorker' \in [GeoWorkers -> GeoWorker \cup {Idle}]
        <5>1. [geoWorker[g] EXCEPT !.pc = "finish"] \in GeoWorker
          BY <4>1, GeoWorkerMoves DEF GeoWorker
        <5> QED BY <3>5, <5>1 DEF GeoStore
      <4>3. rows' \in [Keys -> Row]
        <5>1. geoWorker[g].geo \in Geo
          BY <4>1 DEF GeoWorker
        <5>2. \A k \in Keys : [rows[k] EXCEPT !.geo = geoWorker[g].geo] \in Row
          BY <5>1, RowChanged
        <5> QED BY <3>5, <5>2 DEF GeoStore
      <4> QED BY <3>5, <4>2, <4>3 DEF GeoStore
    <3>6. CASE GeoFinish(g)
      BY <3>6 DEF GeoFinish, DiscardMark
    <3> QED BY <2>7, <3>2, <3>3, <3>4, <3>5, <3>6 DEF GeoStep
  <2>8. ASSUME NEW ip \in Ips, ForgetGeo(ip) \/ Pin(ip) PROVE TypeOK'
    BY <2>8 DEF ForgetGeo, Pin
  <2>9. ASSUME NEW ip \in Ips, ResetCount(ip) PROVE TypeOK'
    <3>1. rows' \in [Keys -> Row]
      <4>1. \A k \in Keys : [rows[k] EXCEPT !.count = 0] \in Row
        BY RowChanged DEF Geo
      <4> QED BY <2>9, <4>1 DEF ResetCount
    <3>2. gone' \in [Keys -> Nat]
      <4>1. \A k \in Keys : gone[k] + rows[k].count \in Nat
        BY DEF Row
      <4> QED BY <2>9, <4>1 DEF ResetCount
    <3> QED BY <2>9, <3>1, <3>2 DEF ResetCount
  <2>10. CASE Cleanup \/ \E d \in Devices : DeleteDevice(d)
    <3>1. PICK deleted : Remove(deleted)
      BY <2>10 DEF Cleanup, DeleteDevice
    <3>2. rows' \in [Keys -> Row] /\ gone' \in [Keys -> Nat]
      BY <3>1, EmptyTyped DEF Remove, Row
    <3> QED BY <2>10, <3>2 DEF Cleanup, DeleteDevice
  <2>11. CASE Restart
    <3>1. gone' \in [Keys -> Nat]
      BY <2>11 DEF Restart, Entry
    <3>2. geoQueue' \in Seq(Ips) /\ Len(geoQueue') <= GeoQueueMax
      BY <2>11 DEF Restart
    <3> QED BY <2>11, <3>1, <3>2, EmptyTyped DEF Restart
  <2>12. CASE Tick
    BY <2>12 DEF Tick
  <2>13. CASE UNCHANGED vars
    BY <2>13 DEF vars
  <2> QED
    BY <2>1, <2>2, <2>3, <2>4, <2>5, <2>6, <2>7, <2>8, <2>9, <2>10, <2>11, <2>12, <2>13
    DEF Next, FlusherStep
<1> QED BY <1>1, <1>2, PTL DEF Spec

-------------------------------------------------------------------------------
\* The accounting is not inductive by itself: a swap overwrites the batch, so the
\* batch must be empty then.
LEMMA CountInvariant == Spec => []CountInv
<1>1. Init => CountInv
  BY DEF Init, CountInv, PacketsAccounted, BatchDiscipline, NoEntry, NoRow
<1>2. TypeOK /\ CountInv /\ [Next]_vars => CountInv'
  <2> SUFFICES ASSUME TypeOK, CountInv, [Next]_vars PROVE CountInv'
    OBVIOUS
  <2> USE DEF CountInv, PacketsAccounted, BatchDiscipline,
              memory, enrichment, tables, bounds, history
  <2>t. \A k \in Keys : /\ buffer[k].count \in Nat /\ batch[k].count \in Nat
                        /\ rows[k].count \in Nat /\ gone[k] \in Nat /\ accepted[k] \in Nat
    BY DEF TypeOK, Entry, Row
  <2>n. dropped \in Nat /\ drops \in Nat /\ logged \in Nat
    BY DEF TypeOK
  <2>1. ASSUME NEW w \in Writers, NEW k \in Keys, NEW n \in Deltas, Arrive(w, k, n)
        PROVE  CountInv'
    BY <2>1 DEF Arrive
  <2>2. ASSUME NEW w \in Writers, MarkInflight(w) \/ Put(w) \/ Unmark(w) PROVE CountInv'
    BY <2>2 DEF MarkInflight, Put, Unmark
  <2>3. ASSUME NEW w \in Writers, Write(w) PROVE CountInv'
    <3> DEFINE k == writer[w].key
               n == writer[w].count
    <3>1. writer[w] \in Writer
      BY <2>3 DEF Write, TypeOK, Idle
    <3>2. k \in Keys /\ Counted(k, n) \in Nat
      BY <3>1 DEF Counted, Writer
    <3>3. CASE ~buffer[k].held /\ BufferFull
      BY <2>3, <2>n, <3>3 DEF Write
    <3>4. CASE ~(~buffer[k].held /\ BufferFull)
      <4>1. /\ buffer' = [buffer EXCEPT ![k] =
                 Merged(buffer[k], k, n, writer[w].seen, writer[w].geo)]
            /\ accepted' = [accepted EXCEPT ![k] = @ + Counted(k, n)]
            /\ UNCHANGED <<batch, rows, gone, flusher, drops, dropped, logged>>
        BY <2>3, <3>4 DEF Write
      <4>2. buffer'[k].held /\ buffer'[k].count = buffer[k].count + Counted(k, n)
        BY <3>2, <4>1 DEF Merged, TypeOK
      <4>3. \A j \in Keys \ {k} : buffer'[j] = buffer[j] /\ accepted'[j] = accepted[j]
        BY <3>2, <4>1 DEF TypeOK
      <4>4. accepted'[k] = accepted[k] + Counted(k, n)
        BY <3>2, <4>1 DEF TypeOK
      <4> QED BY <2>t, <3>2, <4>1, <4>2, <4>3, <4>4
    <3> QED BY <3>3, <3>4
  <2>4. CASE Swap
    <3>1. drops' = logged' + dropped'
      BY <2>4, <2>n DEF Swap, ReportDropped
    <3>2. CASE Held(buffer) = {}
      BY <2>4, <3>1, <3>2 DEF Swap
    <3>3. CASE Held(buffer) # {}
      <4>1. /\ batch' = buffer /\ buffer' = [k \in Keys |-> NoEntry] /\ flusher' = "commit"
            /\ UNCHANGED <<rows, gone, accepted>>
        BY <2>4, <3>3 DEF Swap
      <4>2. \A k \in Keys : batch[k].count = 0
        BY <2>4 DEF Swap, NoEntry
      <4> QED BY <2>t, <3>1, <4>1, <4>2 DEF NoEntry
    <3> QED BY <3>2, <3>3
  <2>5. CASE Commit
    <3>1. /\ batch' = [k \in Keys |-> NoEntry] /\ flusher' = "broadcast"
          /\ UNCHANGED <<buffer, gone, accepted, drops, logged, dropped>>
      BY <2>5 DEF Commit
    <3>2. \A k \in Keys : rows'[k].count = rows[k].count + batch[k].count
      <4>1. ASSUME NEW k \in Keys PROVE rows'[k].count = rows[k].count + batch[k].count
        <5>1. CASE batch[k].held
          BY <2>5, <5>1, CommitColumns
        <5>2. CASE ~batch[k].held
          BY <2>5, <2>t, <5>2 DEF Commit
        <5> QED BY <5>1, <5>2
      <4> QED BY <4>1
    <3> QED BY <2>t, <3>1, <3>2 DEF NoEntry
  <2>6. CASE FlushFails
    BY <2>6, <2>t DEF FlushFails, NoEntry
  <2>7. CASE Broadcast
    BY <2>7 DEF Broadcast
  <2>8. ASSUME NEW g \in GeoWorkers, GeoStep(g) PROVE CountInv'
    <3>1. CASE GeoTake(g) \/ GeoLookup(g) \/ GeoFinish(g)
      BY <3>1 DEF GeoTake, GeoLookup, GeoFinish
    <3>2. CASE GeoPatch(g)
      <4>1. \A k \in Keys : buffer'[k].count = buffer[k].count /\ buffer'[k].held = buffer[k].held
        BY <3>2 DEF GeoPatch, TypeOK, Entry
      <4> QED BY <3>2, <4>1 DEF GeoPatch
    <3>3. CASE GeoStore(g)
      <4>1. \A k \in Keys : rows'[k].count = rows[k].count
        <5>1. \A k \in Keys : [rows[k] EXCEPT !.geo = geoWorker[g].geo].count = rows[k].count
          BY RowCount DEF TypeOK
        <5> QED BY <3>3, <5>1 DEF GeoStore
      <4> QED BY <3>3, <4>1 DEF GeoStore
    <3> QED BY <2>8, <3>1, <3>2, <3>3 DEF GeoStep
  <2>9. ASSUME NEW ip \in Ips, ForgetGeo(ip) \/ Pin(ip) PROVE CountInv'
    BY <2>9 DEF ForgetGeo, Pin
  <2>10. ASSUME NEW ip \in Ips, ResetCount(ip) PROVE CountInv'
    <3> USE <2>10 DEF ResetCount
    <3>c. \A k \in Keys : [rows[k] EXCEPT !.count = 0].count = 0
      BY RowCount DEF TypeOK
    <3>1. \A k \in Keys : /\ rows'[k].count = IF IpOf(k) = ip THEN 0 ELSE rows[k].count
                          /\ gone'[k] = IF IpOf(k) = ip THEN gone[k] + rows[k].count ELSE gone[k]
      BY <3>c
    <3>2. \A k \in Keys : /\ rows'[k].count + gone'[k] = rows[k].count + gone[k]
                          /\ rows'[k].count \in Nat /\ gone'[k] \in Nat
      BY <3>1, <2>t
    <3> QED BY <2>t, <3>2
  <2>11. CASE Cleanup \/ \E d \in Devices : DeleteDevice(d)
    <3>1. PICK deleted : Remove(deleted)
      BY <2>11 DEF Cleanup, DeleteDevice
    <3>2. \A k \in Keys : /\ rows'[k].count + gone'[k] = rows[k].count + gone[k]
                          /\ rows'[k].count \in Nat /\ gone'[k] \in Nat
      BY <2>t, <3>1 DEF Remove, NoRow
    <3>3. UNCHANGED <<accepted, buffer, batch, flusher, drops, logged, dropped>>
      BY <2>11 DEF Cleanup, DeleteDevice
    <3>4. ASSUME NEW k \in Keys
          PROVE  accepted'[k] = buffer'[k].count + batch'[k].count + rows'[k].count + gone'[k]
      <4>1. accepted[k] = buffer[k].count + batch[k].count + (rows'[k].count + gone'[k])
        BY <2>t, <3>2
      <4> QED BY <2>t, <3>2, <3>3, <4>1
    <3> QED BY <3>3, <3>4
  <2>12. CASE Restart
    BY <2>12, <2>t DEF Restart, NoEntry
  <2>13. CASE Tick
    BY <2>13 DEF Tick
  <2>14. CASE UNCHANGED vars
    BY <2>14 DEF vars
  <2> QED
    BY <2>1, <2>2, <2>3, <2>4, <2>5, <2>6, <2>7, <2>8, <2>9, <2>10, <2>11, <2>12, <2>13, <2>14
    DEF Next, WriterStep, FlusherStep
<1> QED BY <1>1, <1>2, TypeCorrect, PTL DEF Spec

\* No packet the buffer accepted is lost without being counted as lost, and no
\* refused one goes unreported (PacketsAccounted).
THEOREM PacketsAreAccounted == Spec => []PacketsAccounted
<1>1. CountInv => PacketsAccounted
  BY DEF CountInv
<1> QED BY <1>1, CountInvariant, PTL

-------------------------------------------------------------------------------
\* Only the flusher's transaction writes the ledger, and it writes every address
\* through Sighting.
LEMMA LedgerWrites ==
  ASSUME TypeOK, [Next]_vars
  PROVE  \/ UNCHANGED ledger
         \/ /\ Commit
            /\ \A ip \in Ips : \/ ledger'[ip] = ledger[ip]
                              \/ \E x, y \in Entry : ledger'[ip] = Sighting(ip, x, y)
<1> USE DEF memory, enrichment, tables, bounds, history
<1>1. ASSUME Commit
      PROVE  \A ip \in Ips : \/ ledger'[ip] = ledger[ip]
                            \/ \E x, y \in Entry : ledger'[ip] = Sighting(ip, x, y)
  <2>1. PICK lead, latest \in [BatchIps -> Devices] :
          ledger' = [ip \in Ips |->
             IF ip \in BatchIps
             THEN Sighting(ip, batch[<<lead[ip], ip>>], batch[<<latest[ip], ip>>])
             ELSE ledger[ip]]
    BY <1>1 DEF Commit
  <2>2. ASSUME NEW ip \in Ips, ip \in BatchIps
        PROVE  batch[<<lead[ip], ip>>] \in Entry /\ batch[<<latest[ip], ip>>] \in Entry
    BY <2>2 DEF TypeOK, Keys
  <2> QED BY <2>1, <2>2
<1>2. CASE \E w \in Writers : \/ \E k \in Keys, n \in Deltas : Arrive(w, k, n)
                              \/ WriterStep(w)
  BY <1>2 DEF Arrive, WriterStep, MarkInflight, Put, Unmark, Write
<1>3. CASE Swap \/ FlushFails \/ Broadcast
  BY <1>3 DEF Swap, FlushFails, Broadcast
<1>4. CASE \E g \in GeoWorkers : GeoStep(g)
  BY <1>4 DEF GeoStep, GeoTake, GeoLookup, GeoPatch, GeoStore, GeoFinish
<1>5. CASE \E ip \in Ips : ForgetGeo(ip) \/ Pin(ip) \/ ResetCount(ip)
  BY <1>5 DEF ForgetGeo, Pin, ResetCount
<1>6. CASE Cleanup \/ (\E d \in Devices : DeleteDevice(d)) \/ Restart \/ Tick
  BY <1>6 DEF Cleanup, DeleteDevice, Restart, Tick
<1>7. CASE UNCHANGED vars
  BY <1>7 DEF vars
<1> QED BY <1>1, <1>2, <1>3, <1>4, <1>5, <1>6, <1>7 DEF Next, FlusherStep

\* The permanent ledger never forgets an address, never changes when it was first
\* seen and never moves back when it was last seen (LedgerPermanent).
THEOREM LedgerIsPermanent == Spec => LedgerPermanent
<1> DEFINE Kept == \A ip \in Ips : ledger[ip].held =>
                     /\ ledger'[ip].held
                     /\ ledger'[ip].first = ledger[ip].first
                     /\ ledger'[ip].last >= ledger[ip].last
<1>1. TypeOK /\ [Next]_vars => [Kept]_ledger
  <2> SUFFICES ASSUME TypeOK, [Next]_vars, NEW ip \in Ips, ledger[ip].held,
                      ~UNCHANGED ledger
               PROVE  /\ ledger'[ip].held
                      /\ ledger'[ip].first = ledger[ip].first
                      /\ ledger'[ip].last >= ledger[ip].last
    OBVIOUS
  <2>1. ledger[ip].last \in Nat
    BY DEF TypeOK, Seen
  <2>2. CASE ledger'[ip] = ledger[ip]
    BY <2>1, <2>2
  <2>3. ASSUME NEW x \in Entry, NEW y \in Entry, ledger'[ip] = Sighting(ip, x, y)
        PROVE  /\ ledger'[ip].held
               /\ ledger'[ip].first = ledger[ip].first
               /\ ledger'[ip].last >= ledger[ip].last
    <3>1. y.seen \in Nat
      BY DEF Entry
    <3> QED BY <2>1, <2>3, <3>1 DEF Sighting
  <2> QED BY <2>2, <2>3, LedgerWrites
<1> QED BY <1>1, TypeCorrect, PTL DEF Spec, LedgerPermanent

\* No client is told twice that an address is new, over any sequence of flushes,
\* failed flushes, retention passes and restarts (NewAnnouncedOnce).  NewInv adds
\* what a pending announcement needs: its address is already in the ledger.
THEOREM NewIsAnnouncedOnce == Spec => []NewAnnouncedOnce
<1>1. Init => NewInv
  BY DEF Init, NewInv, NewAnnouncedOnce
<1>2. TypeOK /\ NewInv /\ [Next]_vars => NewInv'
  <2> SUFFICES ASSUME TypeOK, NewInv, [Next]_vars PROVE NewInv'
    OBVIOUS
  <2> USE DEF NewInv, NewAnnouncedOnce, memory, enrichment, tables, bounds, history
  <2>n. \A ip \in Ips : announced[ip] \in Nat
    BY DEF TypeOK
  <2>1. CASE Commit
    <3>1. announced' = announced /\ fresh' = {ip \in BatchIps : ~ledger[ip].held}
      BY <2>1 DEF Commit, FreshIps
    <3>2. BatchIps \subseteq Ips
      BY KeyParts DEF BatchIps, Held
    <3>3. \A ip \in Ips : ip \in BatchIps \/ ledger[ip].held => ledger'[ip].held
      BY <2>1 DEF Commit, Sighting
    <3>4. \A ip \in fresh' : ip \in Ips /\ announced[ip] = 0 /\ ledger'[ip].held
      BY <2>n, <3>1, <3>2, <3>3
    <3> QED BY <3>1, <3>3, <3>4
  <2>2. CASE Broadcast
    <3>1. fresh' = {} /\ ledger' = ledger
      BY <2>2 DEF Broadcast
    <3>2. \A ip \in Ips : announced'[ip] = IF ip \in fresh THEN announced[ip] + 1 ELSE announced[ip]
      BY <2>2 DEF Broadcast
    <3> QED BY <2>n, <3>1, <3>2
  <2>3. CASE Restart
    BY <2>3 DEF Restart
  <2>4. CASE UNCHANGED <<ledger, fresh, announced>>
    BY <2>4
  <2>5. CASE \E w \in Writers : \/ \E k \in Keys, n \in Deltas : Arrive(w, k, n)
                                \/ WriterStep(w)
    BY <2>4, <2>5 DEF Arrive, WriterStep, MarkInflight, Put, Unmark, Write
  <2>6. CASE Swap \/ FlushFails
    BY <2>4, <2>6 DEF Swap, FlushFails
  <2>7. CASE \E g \in GeoWorkers : GeoStep(g)
    BY <2>4, <2>7 DEF GeoStep, GeoTake, GeoLookup, GeoPatch, GeoStore, GeoFinish
  <2>8. CASE \E ip \in Ips : ForgetGeo(ip) \/ Pin(ip) \/ ResetCount(ip)
    BY <2>4, <2>8 DEF ForgetGeo, Pin, ResetCount
  <2>9. CASE Cleanup \/ (\E d \in Devices : DeleteDevice(d)) \/ Tick
    BY <2>4, <2>9 DEF Cleanup, DeleteDevice, Tick
  <2>10. CASE UNCHANGED vars
    BY <2>4, <2>10 DEF vars
  <2> QED
    BY <2>1, <2>2, <2>3, <2>5, <2>6, <2>7, <2>8, <2>9, <2>10 DEF Next, FlusherStep
<1>3. NewInv => NewAnnouncedOnce
  BY DEF NewInv
<1> QED BY <1>1, <1>2, <1>3, TypeCorrect, PTL DEF Spec

-------------------------------------------------------------------------------
\* News is held only between the transaction and its broadcast.
FreshInv == flusher # "broadcast" => fresh = {}

LEMMA FreshInvariant == Spec => []FreshInv
<1>1. Init => FreshInv
  BY DEF Init, FreshInv
<1>2. FreshInv /\ [Next]_vars => FreshInv'
  <2> SUFFICES ASSUME FreshInv, [Next]_vars PROVE FreshInv'
    OBVIOUS
  <2> USE DEF FreshInv, memory, enrichment, tables, bounds, history
  <2>1. CASE UNCHANGED <<flusher, fresh>>
    BY <2>1
  <2>2. CASE \E w \in Writers : \/ \E k \in Keys, n \in Deltas : Arrive(w, k, n)
                                \/ WriterStep(w)
    BY <2>1, <2>2 DEF Arrive, WriterStep, MarkInflight, Put, Unmark, Write
  <2>3. CASE FlusherStep \/ Restart
    BY <2>3 DEF FlusherStep, Swap, Commit, FlushFails, Broadcast, Restart
  <2>4. CASE \E g \in GeoWorkers : GeoStep(g)
    BY <2>1, <2>4 DEF GeoStep, GeoTake, GeoLookup, GeoPatch, GeoStore, GeoFinish
  <2>5. CASE \E ip \in Ips : ForgetGeo(ip) \/ Pin(ip) \/ ResetCount(ip)
    BY <2>1, <2>5 DEF ForgetGeo, Pin, ResetCount
  <2>6. CASE Cleanup \/ (\E d \in Devices : DeleteDevice(d)) \/ Tick \/ UNCHANGED vars
    BY <2>1, <2>6 DEF Cleanup, DeleteDevice, Tick, vars
  <2> QED
    BY <2>2, <2>3, <2>4, <2>5, <2>6 DEF Next
<1> QED
  BY <1>1, <1>2, PTL DEF Spec

\* The abstract counts, entry by entry.
LEMMA PendingAt ==
  ASSUME TypeOK
  PROVE  /\ Pending \in [Keys -> Nat] /\ Stored \in [Keys -> Nat]
         /\ \A k \in Keys : Pending[k] = buffer[k].count + batch[k].count
         /\ \A k \in Keys : Stored[k] = rows[k].count
<1>1. \A k \in Keys : Pending[k] = buffer[k].count + batch[k].count
  BY DEF Pending
<1>2. \A k \in Keys : Stored[k] = rows[k].count
  BY DEF Stored
<1>3. ASSUME NEW k \in Keys
      PROVE  /\ buffer[k].count \in Nat /\ batch[k].count \in Nat
             /\ rows[k].count \in Nat
  <2>1. buffer[k] \in Entry /\ batch[k] \in Entry /\ rows[k] \in Row
    BY DEF TypeOK
  <2> QED
    BY <2>1 DEF Entry, Row
<1>4. Pending \in [Keys -> Nat]
  BY <1>3 DEF Pending
<1>5. Stored \in [Keys -> Nat]
  BY <1>3 DEF Stored
<1> QED
  BY <1>1, <1>2, <1>4, <1>5

LEMMA PendingSame ==
  ASSUME \A k \in Keys : buffer'[k].count + batch'[k].count = buffer[k].count + batch[k].count
  PROVE  Pending' = Pending
BY DEF Pending

LEMMA StoredSame ==
  ASSUME \A k \in Keys : rows'[k].count = rows[k].count
  PROVE  Stored' = Stored
BY DEF Stored

\* A write into the buffer is a taking, or the buffer was full.
LEMMA WriteTakes ==
  ASSUME TypeOK, TypeOK', NEW w \in Writers, Write(w)
  PROVE  WB!Next \/ UNCHANGED WB!vars
<1> DEFINE k == writer[w].key
           n == Counted(k, writer[w].count)
<1>1. k \in Keys /\ n \in Nat
  <2>1. writer[w] \in Writer
    BY DEF Write, TypeOK, Idle
  <2> QED
    BY <2>1 DEF Counted, Writer
<1>2. UNCHANGED <<batch, rows, ledger, fresh, gone, announced>>
  BY DEF Write, tables
<1>3. Stored' = Stored /\ Known' = Known
  BY <1>2 DEF Stored, Known
<1>4. CASE ~buffer[k].held /\ BufferFull
  <2>1. UNCHANGED <<buffer, accepted>>
    BY <1>4 DEF Write
  <2>2. Pending' = Pending
    BY <1>2, <2>1, PendingSame
  <2> QED
    BY <1>2, <1>3, <2>1, <2>2 DEF WB!vars
<1>5. CASE ~(~buffer[k].held /\ BufferFull)
  <2>1. /\ buffer' = [buffer EXCEPT ![k] =
               Merged(buffer[k], k, writer[w].count, writer[w].seen, writer[w].geo)]
        /\ accepted' = [accepted EXCEPT ![k] = @ + n]
    BY <1>5 DEF Write
  <2>2. /\ buffer'[k].count = buffer[k].count + n /\ accepted'[k] = accepted[k] + n
        /\ \A j \in Keys \ {k} : buffer'[j] = buffer[j]
        /\ accepted \in [Keys -> Nat] /\ buffer[k].count \in Nat /\ batch[k].count \in Nat
    BY <1>1, <2>1 DEF Merged, TypeOK, Entry
  <2>3. Pending'[k] = Pending[k] + n /\ \A j \in Keys \ {k} : Pending'[j] = Pending[j]
    <3>1. Pending'[k] = (buffer[k].count + n) + batch[k].count
      BY <1>1, <1>2, <2>2, PendingAt DEF Pending
    <3>2. \A j \in Keys \ {k} : Pending'[j] = Pending[j]
      BY <1>2, <2>2 DEF Pending
    <3> QED
      BY <1>1, <2>2, <3>1, <3>2, PendingAt
  <2>4. Pending \in [Keys -> Nat] /\ Pending' \in [Keys -> Nat] /\ accepted' \in [Keys -> Nat]
    <3>1. Pending' = [j \in Keys |-> Pending'[j]]
      BY DEF Pending
    <3>2. \A j \in Keys : Pending'[j] \in Nat
      BY <1>1, <2>3, PendingAt
    <3> QED
      BY <3>1, <3>2, PendingAt DEF TypeOK
  <2> DEFINE m == accepted'[k] - accepted[k]
  <2>5. m = n /\ accepted[k] <= accepted'[k]
    BY <1>1, <2>2
  <2>6. /\ accepted' = [accepted EXCEPT ![k] = accepted'[k]]
        /\ Pending' = [Pending EXCEPT ![k] = Pending[k] + m]
    <3> HIDE DEF m, n, k
    <3>1. accepted' = [accepted EXCEPT ![k] = accepted'[k]]
      BY <1>1, <2>1, <2>2
    <3>2. Pending' = [Pending EXCEPT ![k] = Pending[k] + m]
      BY <1>1, <2>3, <2>4, <2>5
    <3> QED
      BY <3>1, <3>2
  <2>7. WB!Take(k)
    BY <1>2, <1>3, <2>5, <2>6 DEF WB!Take
  <2>8. k \in WB!Keys
    BY <1>1 DEF WB!Keys, Keys
  <2> QED
    BY <2>7, <2>8 DEF WB!Next
<1> QED
  BY <1>4, <1>5

\* The transaction stores the batch whole.
LEMMA CommitStores ==
  ASSUME TypeOK, TypeOK', CountInv, FreshInv, Commit
  PROVE  WB!Store
<1>1. /\ \A k \in Keys : batch'[k].count = 0 /\ buffer'[k] = buffer[k]
      /\ UNCHANGED <<accepted, gone, announced>> /\ fresh' = FreshIps /\ fresh = {}
  BY DEF Commit, NoEntry, FreshInv, memory, history
<1>2. \A k \in Keys : /\ buffer[k].count \in Nat /\ batch[k].count \in Nat
                      /\ rows[k].count \in Nat
                      /\ ~batch[k].held => batch[k].count = 0
  BY DEF TypeOK, Entry, Row, CountInv, BatchDiscipline
<1>3. \A k \in Keys : rows'[k].count = rows[k].count + batch[k].count
  <2> SUFFICES ASSUME NEW k \in Keys PROVE rows'[k].count = rows[k].count + batch[k].count
    OBVIOUS
  <2>1. CASE batch[k].held
    BY <2>1, CommitColumns
  <2>2. CASE ~batch[k].held
    BY <1>2, <2>2, CommitColumns
  <2> QED
    BY <2>1, <2>2
<1>4. BatchIps \subseteq Ips /\ \A k \in Keys : batch[k].held => IpOf(k) \in BatchIps
  BY KeyParts DEF BatchIps, Held
<1>5. \A ip \in Ips : ledger'[ip].held <=> ip \in BatchIps \/ ledger[ip].held
  <2>1. PICK lead, latest \in [BatchIps -> Devices] :
          ledger' = [ip \in Ips |->
             IF ip \in BatchIps
             THEN Sighting(ip, batch[<<lead[ip], ip>>], batch[<<latest[ip], ip>>])
             ELSE ledger[ip]]
    BY DEF Commit
  <2> QED
    BY <2>1 DEF Sighting
<1>6. /\ Known \subseteq Known' /\ Known' \subseteq Ips
      /\ fresh' = Known' \ Known
      /\ \A k \in Keys : batch[k].held => k[2] \in Known'
  <2>1. Known = {ip \in Ips : ledger[ip].held} /\ Known' = {ip \in Ips : ledger'[ip].held}
    BY DEF Known
  <2>2. fresh' = {ip \in BatchIps : ~ledger[ip].held}
    BY <1>1 DEF FreshIps
  <2> QED
    BY <1>4, <1>5, <2>1, <2>2, KeyParts DEF IpOf
<1>7. \A k \in Keys : /\ Pending[k] = buffer[k].count + batch[k].count
                      /\ Pending'[k] = buffer[k].count
                      /\ Stored[k] = rows[k].count
                      /\ Stored'[k] = rows[k].count + batch[k].count
  <2>1. \A k \in Keys : Pending'[k] = buffer'[k].count + batch'[k].count
                        /\ Stored'[k] = rows'[k].count
    BY DEF Pending, Stored
  <2> QED
    BY <1>1, <1>2, <1>3, <2>1, PendingAt
<1>8. \A k \in Keys : /\ Pending'[k] <= Pending[k]
                      /\ Stored'[k] = Stored[k] + (Pending[k] - Pending'[k])
                      /\ Pending'[k] # Pending[k] => batch[k].held
  BY <1>2, <1>7
<1>9. /\ Pending' = [k \in Keys |-> Pending'[k]]
      /\ Stored' = [k \in Keys |-> Stored'[k]]
  BY DEF Pending, Stored
<1>10. Stored' = [k \in Keys |-> Stored[k] + (Pending[k] - Pending'[k])]
  BY <1>8, <1>9
<1>11. WB!Keys = Keys
  BY DEF WB!Keys, Keys
<1> QED
  BY <1>1, <1>6, <1>8, <1>9, <1>10, <1>11 DEF WB!Store, WB!AtMost, WB!Moved

\* Retention, a reset and the deletion of a device only take from the table.
LEMMA RemovalRemoves ==
  ASSUME TypeOK,
         Cleanup \/ (\E d \in Devices : DeleteDevice(d)) \/ \E ip \in Ips : ResetCount(ip)
  PROVE  WB!Remove
<1>1. UNCHANGED <<buffer, batch, accepted, ledger, fresh, announced>>
  BY DEF Cleanup, DeleteDevice, ResetCount, memory
<1>2. PICK S \in SUBSET Keys :
        /\ \A k \in Keys : rows'[k].count = IF k \in S THEN 0 ELSE rows[k].count
        /\ gone' = [k \in Keys |-> IF k \in S THEN gone[k] + rows[k].count ELSE gone[k]]
  <2>1. ASSUME NEW ip \in Ips, ResetCount(ip)
        PROVE  LET S == {k \in Keys : IpOf(k) = ip} IN
               /\ \A k \in Keys : rows'[k].count = IF k \in S THEN 0 ELSE rows[k].count
               /\ gone' = [k \in Keys |-> IF k \in S THEN gone[k] + rows[k].count ELSE gone[k]]
    <3>1. \A k \in Keys : [rows[k] EXCEPT !.count = 0].count = 0
      BY RowCount DEF TypeOK
    <3> QED
      BY <2>1, <3>1 DEF ResetCount
  <2>2. CASE Cleanup \/ \E d \in Devices : DeleteDevice(d)
    <3>1. PICK deleted : Remove(deleted)
      BY <2>2 DEF Cleanup, DeleteDevice
    <3> DEFINE S == Keys \cap deleted
    <3>2. /\ \A k \in Keys : rows'[k].count = IF k \in S THEN 0 ELSE rows[k].count
          /\ gone' = [k \in Keys |-> IF k \in S THEN gone[k] + rows[k].count ELSE gone[k]]
      BY <3>1 DEF Remove, NoRow
    <3> QED
      BY <3>2
  <2> QED
    BY <2>1, <2>2
<1>3. /\ \A k \in Keys : Stored'[k] <= Stored[k]
      /\ gone' = [k \in Keys |-> gone[k] + (Stored[k] - Stored'[k])]
  <2>1. \A k \in Keys : /\ Stored'[k] = rows'[k].count /\ Stored[k] = rows[k].count
                        /\ Stored[k] \in Nat /\ gone[k] \in Nat
    BY PendingAt DEF Stored, TypeOK
  <2>2. \A k \in Keys : /\ Stored'[k] <= Stored[k]
                        /\ (IF k \in S THEN gone[k] + rows[k].count ELSE gone[k])
                           = gone[k] + (Stored[k] - Stored'[k])
    BY <1>2, <2>1
  <2> QED
    BY <1>2, <2>2
<1>4. Stored' = [k \in Keys |-> Stored'[k]] /\ Pending' = Pending /\ Known' = Known
  BY <1>1 DEF Stored, Pending, Known
<1>5. WB!Keys = Keys
  BY DEF WB!Keys, Keys
<1> QED
  BY <1>1, <1>3, <1>4, <1>5 DEF WB!Remove, WB!AtMost, WB!Moved

\* What the process loses: the batch of a failed transaction, or all of its memory.
LEMMA LossLoses ==
  ASSUME TypeOK, FlushFails \/ Restart
  PROVE  WB!Lose \/ WB!Crash
<1>1. UNCHANGED <<rows, accepted, ledger, announced>>
  BY DEF FlushFails, Restart, tables
<1>2. Stored' = Stored /\ Known' = Known /\ WB!Keys = Keys
  BY <1>1 DEF Stored, Known, WB!Keys, Keys
<1>3. \A k \in Keys : batch'[k].count = 0 /\ buffer'[k].count \in {0, buffer[k].count}
  BY DEF FlushFails, Restart, NoEntry
<1>4. /\ \A k \in Keys : Pending'[k] = buffer'[k].count + batch'[k].count
      /\ Pending' = [k \in Keys |-> Pending'[k]]
  BY DEF Pending
<1>n. \A k \in Keys : buffer[k].count \in Nat /\ batch[k].count \in Nat /\ gone[k] \in Nat
  BY DEF TypeOK, Entry
<1>5. CASE FlushFails
  <2>1. \A k \in Keys : Pending'[k] = buffer[k].count
    BY <1>3, <1>4, <1>5, <1>n DEF FlushFails
  <2>2. \A k \in Keys : /\ Pending'[k] <= Pending[k]
                        /\ gone[k] + batch[k].count = gone[k] + (Pending[k] - Pending'[k])
    BY <1>n, <2>1, PendingAt
  <2>3. gone' = [k \in Keys |-> gone[k] + (Pending[k] - Pending'[k])]
    BY <1>5, <2>2 DEF FlushFails
  <2> QED
    BY <1>1, <1>2, <1>4, <1>5, <2>2, <2>3 DEF FlushFails, WB!Lose, WB!AtMost, WB!Moved
<1>6. CASE Restart
  <2>1. \A k \in Keys : Pending'[k] = 0
    BY <1>3, <1>4, <1>6 DEF Restart, NoEntry
  <2>2. Pending' = [k \in Keys |-> 0]
    BY <1>4, <2>1
  <2>3. \A k \in Keys : gone[k] + buffer[k].count + batch[k].count = gone[k] + (Pending[k] - 0)
    BY <1>n, PendingAt
  <2>4. gone' = [k \in Keys |-> gone[k] + (Pending[k] - 0)]
    BY <1>6, <2>3 DEF Restart
  <2>5. gone' = WB!Moved(gone, Pending, WB!None)
    BY <1>2, <2>4 DEF WB!Moved, WB!None
  <2> QED
    BY <1>1, <1>2, <1>6, <2>2, <2>5 DEF Restart, WB!Crash, WB!None
<1> QED
  BY <1>5, <1>6

LEMMA StepBehind ==
  ASSUME TypeOK, TypeOK', CountInv, FreshInv, [Next]_vars
  PROVE  [WB!Next]_(WB!vars)
<1> USE DEF memory, enrichment, tables, bounds, history
<1>1. CASE UNCHANGED <<accepted, buffer, batch, rows, ledger, fresh, gone, announced>>
  BY <1>1 DEF WB!vars, Pending, Stored, Known
<1>2. ASSUME NEW w \in Writers, (\E k \in Keys, n \in Deltas : Arrive(w, k, n)) \/ WriterStep(w)
      PROVE  [WB!Next]_(WB!vars)
  <2>1. CASE \E k \in Keys, n \in Deltas : Arrive(w, k, n)
    BY <1>1, <2>1 DEF Arrive
  <2>2. CASE MarkInflight(w) \/ Put(w) \/ Unmark(w)
    BY <1>1, <2>2 DEF MarkInflight, Put, Unmark
  <2>3. CASE Write(w)
    BY <2>3, WriteTakes
  <2> QED
    BY <1>2, <2>1, <2>2, <2>3 DEF WriterStep
<1>3. CASE Swap
  <2>1. UNCHANGED <<accepted, rows, ledger, fresh, gone, announced>>
    BY <1>3 DEF Swap
  <2>2. \A k \in Keys : buffer'[k].count + batch'[k].count = buffer[k].count + batch[k].count
    <3>1. CASE Held(buffer) = {}
      BY <1>3, <3>1 DEF Swap
    <3>2. CASE Held(buffer) # {}
      <4>1. \A k \in Keys : batch[k].count = 0 /\ buffer[k].count \in Nat
        <5>1. \A k \in Keys : buffer[k].count \in Nat
          BY DEF TypeOK, Entry
        <5>2. \A k \in Keys : batch[k] = NoEntry
          BY <1>3 DEF Swap, CountInv, BatchDiscipline
        <5> QED
          BY <5>1, <5>2 DEF NoEntry
      <4>2. \A k \in Keys : batch'[k] = buffer[k] /\ buffer'[k].count = 0
        BY <1>3, <3>2 DEF Swap, NoEntry
      <4> QED
        BY <4>1, <4>2
    <3> QED
      BY <3>1, <3>2
  <2>3. Pending' = Pending
    BY <2>2, PendingSame
  <2> QED
    BY <2>1, <2>3 DEF WB!vars, Stored, Known
<1>4. CASE Commit
  BY <1>4, CommitStores DEF WB!Next
<1>5. CASE FlushFails \/ Restart
  BY <1>5, LossLoses DEF WB!Next
<1>6. CASE Broadcast
  <2>1. UNCHANGED <<accepted, gone, buffer, batch, rows, ledger>>
    BY <1>6 DEF Broadcast
  <2>2. UNCHANGED <<Pending, Stored, Known>>
    BY <2>1 DEF Pending, Stored, Known
  <2> QED
    BY <1>6, <2>1, <2>2 DEF Broadcast, WB!Tell, WB!Next
<1>7. ASSUME NEW g \in GeoWorkers, GeoStep(g) PROVE [WB!Next]_(WB!vars)
  <2>1. CASE GeoTake(g) \/ GeoLookup(g) \/ GeoFinish(g)
    BY <1>1, <2>1 DEF GeoTake, GeoLookup, GeoFinish
  <2>2. CASE GeoPatch(g)
    <3>1. \A k \in Keys : buffer'[k].count = buffer[k].count
      BY <2>2 DEF GeoPatch, TypeOK, Entry
    <3>2. UNCHANGED <<accepted, batch, rows, ledger, fresh, gone, announced>>
      BY <2>2 DEF GeoPatch
    <3> QED
      BY <3>1, <3>2, PendingSame DEF WB!vars, Stored, Known
  <2>3. CASE GeoStore(g)
    <3>1. \A k \in Keys : rows'[k].count = rows[k].count
      <4>1. \A k \in Keys : [rows[k] EXCEPT !.geo = geoWorker[g].geo].count = rows[k].count
        BY RowCount DEF TypeOK
      <4> QED
        BY <2>3, <4>1 DEF GeoStore
    <3>2. UNCHANGED <<accepted, buffer, batch, ledger, fresh, gone, announced>>
      BY <2>3 DEF GeoStore
    <3> QED
      BY <3>1, <3>2, StoredSame DEF WB!vars, Pending, Known
  <2> QED
    BY <1>7, <2>1, <2>2, <2>3 DEF GeoStep
<1>8. CASE \E ip \in Ips : ForgetGeo(ip) \/ Pin(ip)
  BY <1>1, <1>8 DEF ForgetGeo, Pin
<1>9. CASE Cleanup \/ (\E d \in Devices : DeleteDevice(d)) \/ \E ip \in Ips : ResetCount(ip)
  BY <1>9, RemovalRemoves DEF WB!Next
<1>10. CASE Tick \/ UNCHANGED vars
  BY <1>1, <1>10 DEF Tick, vars
<1> QED
  BY <1>2, <1>3, <1>4, <1>5, <1>6, <1>7, <1>8, <1>9, <1>10 DEF Next, FlusherStep

\* The write path implements WriteBehind: whatever the writers, the flusher, the geo
\* workers, retention and the handlers interleave, an accepted packet is stored once
\* or lost, and an address is known, and told as new, exactly when its first packet
\* is stored (buffer_ip_write and flush_ip_writes, app.py:2034-2200).
THEOREM StoresAreBehind == Spec => StoresBehind
<1>1. Init => WB!Init
  <2> SUFFICES ASSUME Init PROVE WB!Init
    OBVIOUS
  <2>1. WB!Keys = Keys
    BY DEF WB!Keys, Keys
  <2>2. Pending = [k \in Keys |-> 0] /\ Stored = [k \in Keys |-> 0] /\ Known = {}
    BY DEF Init, Pending, Stored, Known, NoEntry, NoRow, NotSeen
  <2> QED
    BY <2>1, <2>2 DEF Init, WB!Init, WB!None
<1> QED
  BY <1>1, StepBehind, TypeCorrect, CountInvariant, FreshInvariant, PTL DEF Spec, StoresBehind, WB!Spec
-------------------------------------------------------------------------------
\* Whatever order writes are buffered and flushed in, and whatever retention, a
\* reset or an enrichment does to the rows, the ledger knows every address of the
\* table and was never last seen before the row says (LedgerCoversRows).
THEOREM LedgerCovers == Spec => []LedgerCoversRows
<1>1. Init => LedgerCoversRows
  BY KeyParts DEF Init, LedgerCoversRows, NoRow
<1>2. TypeOK /\ LedgerCoversRows /\ [Next]_vars => LedgerCoversRows'
  <2> SUFFICES ASSUME TypeOK, LedgerCoversRows, [Next]_vars, NEW k \in Keys, rows'[k].held
               PROVE  ledger'[IpOf(k)].held /\ ledger'[IpOf(k)].last >= rows'[k].seen
    BY DEF LedgerCoversRows
  <2> USE DEF memory, enrichment, tables, bounds, history
  <2> DEFINE ip == IpOf(k)
  <2>k. ip \in Ips /\ ledger[ip] \in Seen /\ rows[k] \in Row
    BY KeyParts DEF TypeOK
  <2>c. rows[k].held => ledger[ip].held /\ ledger[ip].last >= rows[k].seen
    BY DEF LedgerCoversRows
  <2>s. ASSUME ledger' = ledger, rows[k].held, rows'[k].seen = rows[k].seen
        PROVE  ledger'[ip].held /\ ledger'[ip].last >= rows'[k].seen
    BY <2>c, <2>s
  <2>1. CASE Commit
    <3>1. PICK lead, latest \in [BatchIps -> Devices] :
            /\ \A j \in Held(batch) : batch[j].seen <= batch[<<latest[IpOf(j)], IpOf(j)>>].seen
            /\ ledger' = [i \in Ips |->
                 IF i \in BatchIps
                 THEN Sighting(i, batch[<<lead[i], i>>], batch[<<latest[i], i>>])
                 ELSE ledger[i]]
      BY <2>1 DEF Commit
    <3>2. CASE ip \notin BatchIps
      <4>1. rows'[k] = rows[k] /\ ledger'[ip] = ledger[ip]
        BY <2>1, <2>k, <3>1, <3>2 DEF Commit, BatchIps, Held
      <4> QED BY <2>c, <4>1
    <3>3. CASE ip \in BatchIps
      <4> DEFINE newest == batch[<<latest[ip], ip>>]
      <4>1. newest \in Entry
        BY <2>k, <3>1, <3>3 DEF TypeOK, Keys
      <4>2. newest.seen \in Nat /\ ledger[ip].last \in Nat /\ rows[k].seen \in Nat
        BY <2>k, <4>1 DEF Entry, Seen, Row
      <4>3. ledger'[ip] = Sighting(ip, batch[<<lead[ip], ip>>], newest)
        BY <2>k, <3>1, <3>3
      <4>4. /\ ledger'[ip].held /\ ledger'[ip].last \in Nat
            /\ ledger'[ip].last >= newest.seen
            /\ ledger[ip].held => ledger'[ip].last >= ledger[ip].last
        BY <4>2, <4>3 DEF Sighting
      <4>5. CASE batch[k].held
        <5>1. rows'[k].seen = batch[k].seen
          BY <2>1, <4>5, CommitColumns
        <5>2. batch[k].seen <= newest.seen /\ batch[k].seen \in Nat
          BY <3>1, <4>5 DEF Held, TypeOK, Entry
        <5> QED BY <4>2, <4>4, <5>1, <5>2
      <4>6. CASE ~batch[k].held
        <5>1. rows'[k] = rows[k]
          BY <2>1, <4>6 DEF Commit
        <5> QED BY <2>c, <4>2, <4>4, <5>1
      <4> QED BY <4>5, <4>6
    <3> QED BY <3>2, <3>3
  <2>2. CASE Cleanup \/ \E d \in Devices : DeleteDevice(d)
    <3>1. PICK deleted : Remove(deleted)
      BY <2>2 DEF Cleanup, DeleteDevice
    <3>2. rows'[k] = rows[k]
      BY <3>1 DEF Remove, NoRow
    <3> QED BY <2>2, <2>s, <3>2 DEF Cleanup, DeleteDevice
  <2>3. CASE \E i \in Ips : ResetCount(i)
    <3>1. rows'[k].held = rows[k].held /\ rows'[k].seen = rows[k].seen
      BY <2>3, <2>k DEF ResetCount, Row
    <3> QED BY <2>3, <2>s, <3>1 DEF ResetCount
  <2>4. ASSUME NEW g \in GeoWorkers, GeoStore(g)
        PROVE  ledger'[ip].held /\ ledger'[ip].last >= rows'[k].seen
    <3>1. rows'[k].held = rows[k].held /\ rows'[k].seen = rows[k].seen
      BY <2>4, <2>k DEF GeoStore, Row
    <3> QED BY <2>4, <2>s, <3>1 DEF GeoStore
  <2>5. CASE UNCHANGED <<rows, ledger>>
    BY <2>5, <2>c
  <2>6. CASE \E w \in Writers : \/ \E j \in Keys, n \in Deltas : Arrive(w, j, n)
                                \/ WriterStep(w)
    BY <2>5, <2>6 DEF Arrive, WriterStep, MarkInflight, Put, Unmark, Write
  <2>7. CASE Swap \/ FlushFails \/ Broadcast
    BY <2>5, <2>7 DEF Swap, FlushFails, Broadcast
  <2>8. ASSUME NEW g \in GeoWorkers, GeoStep(g)
        PROVE  ledger'[ip].held /\ ledger'[ip].last >= rows'[k].seen
    BY <2>4, <2>5, <2>8 DEF GeoStep, GeoTake, GeoLookup, GeoPatch, GeoFinish
  <2>9. CASE \E i \in Ips : ForgetGeo(i) \/ Pin(i)
    BY <2>5, <2>9 DEF ForgetGeo, Pin
  <2>10. CASE Restart \/ Tick \/ UNCHANGED vars
    BY <2>5, <2>10 DEF Restart, Tick, vars
  <2> QED
    BY <2>1, <2>2, <2>3, <2>6, <2>7, <2>8, <2>9, <2>10 DEF Next, FlusherStep
<1> QED BY <1>1, <1>2, TypeCorrect, PTL DEF Spec

-------------------------------------------------------------------------------
\* A row's location changes only through the flush, an enrichment or its removal.
LEMMA LocationWrites ==
  ASSUME TypeOK, [Next]_vars, NEW k \in Keys, rows[k].geo = "resolved", rows'[k].held
  PROVE  \/ rows'[k].geo = "resolved"
         \/ \E g \in GeoWorkers : /\ geoWorker[g].pc = "store" /\ geoWorker[g].ip = IpOf(k)
                                  /\ geoWorker[g].geo = "placeholder"
<1> USE DEF memory, enrichment, tables, bounds, history
<1>r. rows[k] \in Row
  BY DEF TypeOK
<1>1. CASE Commit
  BY <1>1, CommitColumns
<1>2. ASSUME NEW g \in GeoWorkers, GeoStore(g)
      PROVE  rows'[k].geo = "resolved" \/ /\ geoWorker[g].pc = "store"
                                          /\ geoWorker[g].ip = IpOf(k)
                                          /\ geoWorker[g].geo = "placeholder"
  <2>1. geoWorker[g].pc = "store" /\ geoWorker[g].geo \in Geo
    BY <1>2 DEF GeoStore, TypeOK, Idle, GeoWorker
  <2>2. [rows[k] EXCEPT !.geo = geoWorker[g].geo].geo = geoWorker[g].geo
    BY <1>r DEF Row
  <2>3. \/ rows'[k] = rows[k]
        \/ rows'[k].geo = geoWorker[g].geo /\ geoWorker[g].ip = IpOf(k)
    BY <1>2, <2>2 DEF GeoStore
  <2> QED
    BY <2>1, <2>3 DEF Geo
<1>3. CASE Cleanup \/ \E d \in Devices : DeleteDevice(d)
  <2>1. PICK deleted : Remove(deleted)
    BY <1>3 DEF Cleanup, DeleteDevice
  <2> QED
    BY <2>1 DEF Remove, NoRow
<1>4. CASE \E ip \in Ips : ResetCount(ip)
  BY <1>4, <1>r DEF ResetCount, Row
<1>5. ASSUME rows' = rows PROVE rows'[k].geo = "resolved"
  BY <1>5
<1>6. CASE \E w \in Writers : \/ \E j \in Keys, n \in Deltas : Arrive(w, j, n)
                              \/ WriterStep(w)
  BY <1>5, <1>6 DEF Arrive, WriterStep, MarkInflight, Put, Unmark, Write
<1>7. CASE Swap \/ FlushFails \/ Broadcast
  BY <1>5, <1>7 DEF Swap, FlushFails, Broadcast
<1>8. CASE \E g \in GeoWorkers : GeoStep(g)
  BY <1>2, <1>5, <1>8 DEF GeoStep, GeoTake, GeoLookup, GeoPatch, GeoFinish
<1>9. CASE (\E ip \in Ips : ForgetGeo(ip) \/ Pin(ip)) \/ Restart \/ Tick \/ UNCHANGED vars
  BY <1>5, <1>9 DEF ForgetGeo, Pin, Restart, Tick, vars
<1> QED
  BY <1>1, <1>3, <1>4, <1>6, <1>7, <1>8, <1>9 DEF Next, FlusherStep

\* A located row keeps its location until it goes, or a lookup of its address
\* failed: no placeholder that was buffered before the enrichment, by whatever
\* writer and for however long, undoes it (LocationSticks; app.py:2120-2135).
THEOREM LocationIsKept == Spec => LocationSticks
<1> DEFINE Sticks ==
      \A k \in Keys : rows[k].geo = "resolved" /\ rows'[k].held =>
        \/ rows'[k].geo = "resolved"
        \/ \E g \in GeoWorkers : geoWorker[g].pc = "store" /\ geoWorker[g].ip = IpOf(k)
                                 /\ geoWorker[g].geo = "placeholder"
<1>1. TypeOK /\ [Next]_vars => [Sticks]_rows
  BY LocationWrites
<1> QED
  BY <1>1, TypeCorrect, PTL DEF Spec, LocationSticks

-------------------------------------------------------------------------------
(* What holds of the two promises cleanup_expired_ips does not keep (see the    *)
(* runs ip_threat and ip_trim).                                                 *)

\* A pass of retention takes no row of a pinned address, and a flagged one only through
\* the cap, when another device's row of the address is not protected.
LEMMA CleanupTakes ==
  ASSUME Cleanup, NEW k \in Keys, rows'[k] # rows[k], Protected(k)
  PROVE  /\ IpOf(k) \notin pinned
         /\ Cardinality(Held(rows) \ Expired) > MaxRows
         /\ \E j \in Held(rows) \ Expired : IpOf(j) = IpOf(k) /\ ~Protected(j)
<1> DEFINE live == Held(rows) \ Expired
           open == {j \in live : ~Protected(j)}
<1>1. PICK trim \in TrimSets(live) \cup {{}} : Remove(Expired \cup trim)
  BY DEF Cleanup
<1>2. k \notin Expired
  BY DEF Expired
<1>3. k \in trim
  BY <1>1, <1>2 DEF Remove
<1>4. Cardinality(live) > MaxRows
  BY <1>1, <1>3 DEF TrimSets
<1>5. PICK keep \in KeepSets(open) :
        trim = {j \in live : IpOf(j) \in {IpOf(i) : i \in open \ keep}}
  BY <1>1, <1>3, <1>4 DEF TrimSets
<1>6. PICK i \in open : IpOf(i) = IpOf(k)
  BY <1>3, <1>5
<1>7. IpOf(k) \notin pinned
  BY <1>6 DEF Protected
<1> QED
  BY <1>4, <1>6, <1>7

\* "so the record of a threat is never silently lost" (cleanup_expired_ips), made exact:
\* a flagged row loses its flag or goes only in one of three named ways, whatever the
\* threat lists become meanwhile (ThreatLossNamed; app.py:2143, 2794-2814).
THEOREM ThreatLossIsNamed == Spec => ThreatLossNamed
<1> DEFINE Loss(k) ==
      \/ rows'[k].threat
      \/ DeleteDevice(k[1])
      \/ /\ flusher = "commit" /\ batch[k].held /\ rows'[k].held
         /\ \E listed \in ListedSets, risky \in RiskySets :
               ~ThreatOf(IpOf(k), batch[k].geo, listed, risky)
      \/ /\ Cleanup /\ Cardinality(Held(rows) \ Expired) > MaxRows
         /\ \E j \in Held(rows) \ Expired : IpOf(j) = IpOf(k) /\ ~Protected(j)
<1>1. ASSUME TypeOK, [Next]_vars, NEW k \in Keys, rows[k].threat
      PROVE  Loss(k)
  <2> USE DEF memory, enrichment, tables, bounds, history
  <2>r. rows[k] \in Row
    BY <1>1 DEF TypeOK
  <2>1. CASE Cleanup
    <3>1. CASE rows'[k] = rows[k]
      BY <1>1, <3>1
    <3>2. CASE rows'[k] # rows[k]
      <4>1. Protected(k)
        BY <1>1 DEF Protected
      <4> QED
        BY <2>1, <3>2, <4>1, CleanupTakes
    <3> QED
      BY <3>1, <3>2
  <2>2. ASSUME NEW d \in Devices, DeleteDevice(d) PROVE Loss(k)
    <3>1. CASE d = k[1]
      BY <2>2, <3>1
    <3>2. CASE d # k[1]
      BY <1>1, <2>2, <3>2 DEF DeleteDevice, Remove
    <3> QED
      BY <3>1, <3>2
  <2>3. CASE Commit
    <3>1. flusher = "commit"
      BY <2>3 DEF Commit
    <3>2. CASE ~batch[k].held
      BY <1>1, <2>3, <3>2, CommitColumns
    <3>3. CASE batch[k].held
      <4>1. PICK listed \in ListedSets, risky \in RiskySets :
              rows'[k] = IF batch[k].held
                         THEN Upsert(rows[k], batch[k],
                                     ThreatOf(IpOf(k), batch[k].geo, listed, risky))
                         ELSE rows[k]
        BY <2>3, CommitRow
      <4>2. rows'[k].held /\ rows'[k].threat = ThreatOf(IpOf(k), batch[k].geo, listed, risky)
        BY <3>3, <4>1 DEF Upsert
      <4> QED
        BY <3>1, <3>3, <4>2
    <3> QED
      BY <3>2, <3>3
  <2>4. ASSUME NEW g \in GeoWorkers, GeoStore(g) PROVE rows'[k].threat
    <3>1. rows'[k] = rows[k] \/ rows'[k] = [rows[k] EXCEPT !.geo = geoWorker[g].geo]
      BY <2>4 DEF GeoStore
    <3>2. LET q == [rows[k] EXCEPT !.geo = geoWorker[g].geo] IN q.threat = rows[k].threat
      BY <2>r, RowVerdict
    <3> QED
      BY <1>1, <3>1, <3>2
  <2>5. ASSUME NEW ip \in Ips, ResetCount(ip) PROVE rows'[k].threat
    <3>1. rows'[k] = rows[k] \/ rows'[k] = [rows[k] EXCEPT !.count = 0]
      BY <2>5 DEF ResetCount
    <3> QED
      BY <1>1, <2>r, <3>1, RowVerdict
  <2>6. ASSUME rows' = rows PROVE rows'[k].threat
    BY <1>1, <2>6
  <2>7. CASE \E w \in Writers : \/ \E j \in Keys, n \in Deltas : Arrive(w, j, n)
                                \/ WriterStep(w)
    BY <2>6, <2>7 DEF Arrive, WriterStep, MarkInflight, Put, Unmark, Write
  <2>8. CASE Swap \/ FlushFails \/ Broadcast
    BY <2>6, <2>8 DEF Swap, FlushFails, Broadcast
  <2>9. CASE \E g \in GeoWorkers : GeoStep(g)
    BY <2>4, <2>6, <2>9 DEF GeoStep, GeoTake, GeoLookup, GeoPatch, GeoFinish
  <2>10. CASE (\E ip \in Ips : ForgetGeo(ip) \/ Pin(ip)) \/ Restart \/ Tick \/ UNCHANGED vars
    BY <2>6, <2>10 DEF ForgetGeo, Pin, Restart, Tick, vars
  <2> HIDE DEF Loss
  <2>11. rows'[k].threat => Loss(k)
    BY DEF Loss
  <2> QED
    BY <1>1, <2>1, <2>2, <2>3, <2>4, <2>5, <2>7, <2>8, <2>9, <2>10, <2>11 DEF Next, FlusherStep
<1>2. TypeOK /\ [Next]_vars => [\A k \in Keys : rows[k].threat => Loss(k)]_rows
  BY <1>1
<1> QED
  BY <1>2, TypeCorrect, PTL DEF Spec, ThreatLossNamed

\* "never the pinned or threat-flagged ones" (cleanup_expired_ips), as far as it holds:
\* a pass, expiry and cap together, changes no row of a pinned address on any device.
PassSparesPins ==
  [][Cleanup => \A k \in Keys : IpOf(k) \in pinned => rows'[k] = rows[k]]_rows

THEOREM PassesSparePins == Spec => PassSparesPins
<1>1. ASSUME Cleanup, NEW k \in Keys, IpOf(k) \in pinned
      PROVE  rows'[k] = rows[k]
  <2>1. Protected(k)
    BY <1>1 DEF Protected
  <2> QED
    BY <1>1, <2>1, CleanupTakes
<1>2. [Next]_vars =>
        [Cleanup => \A k \in Keys : IpOf(k) \in pinned => rows'[k] = rows[k]]_rows
  BY <1>1
<1> QED
  BY <1>2, PTL DEF Spec, PassSparesPins

-------------------------------------------------------------------------------
(* Ownership of marks: who has an address that is in flight.               *)

\* Writers between the two critical sections, and geo workers with an address.
Marking == {w \in Writers : writer[w].pc \in {"put", "unmark"}}
Working == {g \in GeoWorkers : geoWorker[g].pc # "idle"}
marker == [w \in Marking |-> IpOf(writer[w].key)]
worked == [g \in Working |-> geoWorker[g].ip]

\* InflightExact, hand by hand: q is the queue, h and t say what each writer and
\* each geo worker holds.
Apart(f, g) == \A x \in DOMAIN f, y \in DOMAIN g : f[x] # g[y]
Single(f) == \A x, y \in DOMAIN f : f[x] = f[y] => x = y
Within(f, marked) == \A x \in DOMAIN f : f[x] \in marked
Covered(marked, q, h, t) ==
  \A ip \in marked : \/ \E x \in DOMAIN q : q[x] = ip
                     \/ \E x \in DOMAIN h : h[x] = ip
                     \/ \E x \in DOMAIN t : t[x] = ip
Owned(q, marked, h, t) ==
  /\ Single(q) /\ Single(h) /\ Single(t)
  /\ Apart(q, h) /\ Apart(q, t) /\ Apart(h, t)
  /\ Within(q, marked) /\ Within(h, marked) /\ Within(t, marked)
  /\ Covered(marked, q, h, t)
Own == Owned(geoQueue, inflight, marker, worked)

\* g is f with one more point x, which it maps to v.
Extends(g, f, x, v) ==
  /\ x \notin DOMAIN f /\ DOMAIN g = DOMAIN f \cup {x} /\ g[x] = v
  /\ \A y \in DOMAIN f : g[y] = f[y]

\* An address nobody has is marked by a writer.
LEMMA OwnMarked ==
  ASSUME NEW q, NEW marked, NEW h, NEW t, Owned(q, marked, h, t), NEW x, NEW ip, ip \notin marked,
         NEW g, Extends(g, h, x, ip)
  PROVE  Owned(q, marked \cup {ip}, g, t)
<1>1. Single(g) /\ Within(g, marked \cup {ip})
  BY DEF Owned, Single, Within, Extends
<1>2. Apart(q, g) /\ Apart(g, t)
  BY DEF Owned, Apart, Within, Extends
<1>3. Within(q, marked \cup {ip}) /\ Within(t, marked \cup {ip})
  BY DEF Owned, Within
<1>4. Covered(marked \cup {ip}, q, g, t)
  BY DEF Owned, Covered, Extends
<1> QED
  BY <1>1, <1>2, <1>3, <1>4 DEF Owned

\* What one hand gives goes to another: of f, with x, to e, with y.
LEMMA OwnPassed ==
  ASSUME NEW marked, NEW f, NEW e, NEW r, Owned(f, marked, e, r), NEW x, NEW y, NEW ip,
         NEW fx, Extends(f, fx, x, ip), NEW ey, Extends(ey, e, y, ip)
  PROVE  Owned(fx, marked, ey, r)
<1>0. f[x] = ip /\ x \in DOMAIN f /\ \A z \in DOMAIN fx : z \in DOMAIN f /\ z # x /\ f[z] = fx[z]
  BY DEF Extends
<1>1. Single(fx) /\ Within(fx, marked) /\ \A z \in DOMAIN fx : fx[z] # ip
  BY <1>0 DEF Owned, Single, Within
<1>2. ip \in marked /\ (\A z \in DOMAIN e : e[z] # ip) /\ (\A z \in DOMAIN r : r[z] # ip)
  BY <1>0 DEF Owned, Apart, Within
<1>3. Single(ey) /\ Within(ey, marked)
  BY <1>2 DEF Owned, Single, Within, Extends
<1>4. Apart(fx, ey)
  BY <1>0, <1>1 DEF Owned, Apart, Extends
<1>5. Apart(fx, r)
  BY <1>0 DEF Owned, Apart
<1>6. Apart(ey, r)
  BY <1>2 DEF Owned, Apart, Extends
<1>7. Covered(marked, fx, ey, r)
  BY <1>0 DEF Owned, Covered, Extends
<1> QED
  BY <1>1, <1>3, <1>4, <1>5, <1>6, <1>7 DEF Owned

\* A mark goes with the hand that had it.
LEMMA OwnDropped ==
  ASSUME NEW marked, NEW f, NEW e, NEW r, Owned(f, marked, e, r), NEW x, NEW ip,
         NEW fx, Extends(f, fx, x, ip)
  PROVE  Owned(fx, marked \ {ip}, e, r)
<1>0. f[x] = ip /\ x \in DOMAIN f /\ \A z \in DOMAIN fx : z \in DOMAIN f /\ z # x /\ f[z] = fx[z]
  BY DEF Extends
<1>1. Single(fx) /\ Within(fx, marked \ {ip})
  BY <1>0 DEF Owned, Single, Within
<1>2. Within(e, marked \ {ip}) /\ Within(r, marked \ {ip})
  BY <1>0 DEF Owned, Apart, Within
<1>3. Apart(fx, e) /\ Apart(fx, r)
  BY <1>0 DEF Owned, Apart
<1>4. Covered(marked \ {ip}, fx, e, r)
  BY <1>0 DEF Owned, Covered, Extends
<1> QED
  BY <1>1, <1>2, <1>3, <1>4 DEF Owned

\* The three hands may be named in any order.
LEMMA OwnTurned ==
  ASSUME NEW q, NEW marked, NEW h, NEW t, Owned(q, marked, h, t)
  PROVE  Owned(h, marked, q, t) /\ Owned(t, marked, q, h) /\ Owned(q, marked, t, h)
BY DEF Owned, Apart, Covered

\* The queue with an element at its end, or without its head.
LEMMA Appended ==
  ASSUME NEW q \in Seq(Ips), NEW ip \in Ips
  PROVE  Extends(Append(q, ip), q, Len(q) + 1, ip)
BY DEF Extends

LEMMA Shifted ==
  ASSUME NEW q \in Seq(Ips), q # << >>, NEW marked, NEW h, NEW t, Owned(q, marked, h, t),
         NEW g, NEW y, Extends(g, t, y, Head(q))
  PROVE  Owned(Tail(q), marked, h, g)
<1> DEFINE r == Tail(q)
           v == Head(q)
<1>1. /\ 1 \in DOMAIN q /\ v = q[1]
      /\ \A i \in DOMAIN r : i + 1 \in DOMAIN q /\ r[i] = q[i + 1] /\ i + 1 # 1
      /\ \A i, j \in DOMAIN r : i + 1 = j + 1 => i = j
      /\ \A i \in DOMAIN q : i # 1 => i - 1 \in DOMAIN r /\ r[i - 1] = q[i]
  OBVIOUS
<1> HIDE DEF r, v
<1>2. Single(r) /\ Within(r, marked) /\ Apart(r, h) /\ Apart(r, t)
  BY <1>1 DEF Owned, Single, Within, Apart
<1>3. v \in marked /\ (\A x \in DOMAIN r : r[x] # v) /\ (\A x \in DOMAIN h : h[x] # v)
      /\ (\A x \in DOMAIN t : t[x] # v)
  BY <1>1 DEF Owned, Single, Within, Apart
<1>4. Extends(g, t, y, v)
  BY DEF v
<1>5. Single(g) /\ Within(g, marked) /\ Apart(r, g) /\ Apart(h, g)
  BY <1>2, <1>3, <1>4 DEF Owned, Single, Within, Apart, Extends
<1>6. Covered(marked, r, h, g)
  <2> SUFFICES ASSUME NEW ip \in marked, ip # v, \A x \in DOMAIN h : h[x] # ip,
                      \A x \in DOMAIN t : t[x] # ip
               PROVE  \E x \in DOMAIN r : r[x] = ip
    BY <1>4 DEF Covered, Extends
  <2>1. PICK i \in DOMAIN q : q[i] = ip
    BY DEF Owned, Covered
  <2> QED
    BY <1>1, <2>1
<1>7. Owned(r, marked, h, g)
  BY <1>2, <1>5, <1>6 DEF Owned
<1> QED
  BY <1>7 DEF r

\* Hands that stay as they are.
LEMMA MarkersStay ==
  ASSUME \A w \in Writers : (w \in Marking)' = (w \in Marking),
         \A w \in Marking : writer'[w].key = writer[w].key
  PROVE  marker' = marker
BY DEF marker, Marking

LEMMA WorkedStays ==
  ASSUME \A g \in GeoWorkers : (g \in Working)' = (g \in Working),
         \A g \in Working : geoWorker'[g].ip = geoWorker[g].ip
  PROVE  worked' = worked
BY DEF worked, Working

LEMMA OwnInit == Init => Own
BY DEF Init, Own, Owned, Single, Apart, Within, Covered, marker, worked, Marking, Working, Idle

\* A writer's steps.
LEMMA OwnWriter ==
  ASSUME TypeOK, Own, NEW w \in Writers,
         WriterStep(w) \/ \E k \in Keys, n \in Deltas : Arrive(w, k, n)
  PROVE  Own'
<1> DEFINE ip == IpOf(writer[w].key)
<1> USE DEF enrichment, memory
<1>0. /\ \A v \in Writers : v # w => writer'[v] = writer[v]
      /\ writer[w].pc # "idle" => writer[w] \in Writer /\ ip \in Ips
  <2>1. writer[w].pc # "idle" => writer[w] \in Writer
    BY DEF TypeOK, Idle
  <2>2. \A v \in Writers : v # w => writer'[v] = writer[v]
    BY DEF TypeOK, WriterStep, MarkInflight, Mark, Put, PutNowait, Unmark, Write, Arrive
  <2> QED
    BY <2>1, <2>2, KeyParts DEF Writer
<1>k. writer[w].pc \in {"mark", "put", "unmark"} /\ (\E p \in {"put", "unmark", "write"} :
        writer' = [writer EXCEPT ![w].pc = p]) => writer'[w].key = writer[w].key
  BY <1>0 DEF TypeOK, Writer
<1>w. WriterStep(w) \/ (\E k \in Keys, n \in Deltas : Arrive(w, k, n)) => worked' = worked
  BY DEF WriterStep, MarkInflight, Put, Unmark, Write, Arrive, worked, Working
<1>1. CASE /\ writer[w].pc \notin {"put", "unmark"} /\ writer'[w].pc \notin {"put", "unmark"}
           /\ UNCHANGED <<geoQueue, inflight>>
  <2>1. \A v \in Writers : (v \in Marking)' = (v \in Marking)
    BY <1>0, <1>1 DEF Marking
  <2>2. \A v \in Marking : writer'[v].key = writer[v].key
    BY <1>0, <1>1 DEF Marking
  <2> QED
    BY <1>1, <1>w, <2>1, <2>2, MarkersStay DEF Own
<1>2. CASE \E k \in Keys, n \in Deltas : Arrive(w, k, n)
  <2>1. writer[w].pc = "idle" /\ writer'[w].pc \in {"mark", "write"}
    BY <1>2 DEF Arrive, Idle, TypeOK
  <2> QED
    BY <1>1, <1>2, <2>1 DEF Arrive
<1>3. CASE Write(w)
  <2>1. writer[w].pc = "write" /\ writer'[w].pc = "idle"
    BY <1>3 DEF Write, Idle, TypeOK
  <2> QED
    BY <1>1, <1>3, <2>1 DEF Write
<1>4. CASE MarkInflight(w)
  <2>0. writer[w].pc = "mark" /\ writer[w] \in Writer /\ geoQueue' = geoQueue
    BY <1>0, <1>4 DEF MarkInflight
  <2>1. CASE ip \in inflight
    <3>1. writer'[w].pc = "write" /\ inflight' = inflight
      BY <1>4, <2>0, <2>1 DEF MarkInflight, Mark, TypeOK, Writer
    <3> QED
      BY <1>1, <2>0, <3>1
  <2>2. CASE ip \notin inflight
    <3>1. /\ writer' = [writer EXCEPT ![w].pc = "put"] /\ inflight' = inflight \cup {ip}
      BY <1>4, <2>2 DEF MarkInflight, Mark
    <3>2. writer'[w].pc = "put" /\ writer'[w].key = writer[w].key
      BY <2>0, <3>1 DEF TypeOK, Writer
    <3>3. Marking' = Marking \cup {w} /\ w \notin Marking
      BY <1>0, <2>0, <3>2 DEF Marking
    <3>4. Extends(marker', marker, w, ip)
      BY <1>0, <3>2, <3>3 DEF Extends, marker, Marking
    <3> QED
      BY <1>4, <1>w, <2>0, <2>2, <3>1, <3>4, OwnMarked DEF Own, WriterStep
  <2> QED
    BY <2>1, <2>2
<1>5. ASSUME writer[w].pc \in {"put", "unmark"}, writer' = [writer EXCEPT ![w].pc = "write"]
      PROVE  Extends(marker, marker', w, ip)
  <2>1. writer'[w].pc = "write"
    BY <1>0, <1>5 DEF TypeOK, Writer
  <2>2. Marking' = Marking \ {w} /\ w \in Marking
    BY <1>0, <1>5, <2>1 DEF Marking
  <2> QED
    BY <1>0, <2>2 DEF Extends, marker, Marking
<1>6. CASE Put(w)
  <2>0. writer[w].pc = "put" /\ inflight' = inflight
    BY <1>6 DEF Put
  <2>1. CASE Len(geoQueue) < GeoQueueMax
    <3>1. geoQueue' = Append(geoQueue, ip) /\ writer' = [writer EXCEPT ![w].pc = "write"]
      BY <1>6, <2>1 DEF Put, PutNowait
    <3>2. Extends(geoQueue', geoQueue, Len(geoQueue) + 1, ip)
      BY <1>0, <2>0, <3>1, Appended DEF TypeOK
    <3>3. Extends(marker, marker', w, ip)
      BY <1>5, <2>0, <3>1
    <3>4. Owned(marker', inflight, geoQueue', worked)
      BY <3>2, <3>3, OwnTurned, OwnPassed DEF Own
    <3> QED
      BY <1>6, <1>w, <2>0, <3>4, OwnTurned DEF Own, WriterStep
  <2>2. CASE ~(Len(geoQueue) < GeoQueueMax)
    <3>1. geoQueue' = geoQueue /\ writer' = [writer EXCEPT ![w].pc = "unmark"]
      BY <1>6, <2>2 DEF Put, PutNowait
    <3>2. writer'[w].pc = "unmark" /\ writer'[w].key = writer[w].key
      BY <1>0, <2>0, <3>1 DEF TypeOK, Writer
    <3>3. /\ \A v \in Writers : (v \in Marking)' = (v \in Marking)
          /\ \A v \in Marking : writer'[v].key = writer[v].key
      BY <1>0, <2>0, <3>2 DEF Marking
    <3> QED
      BY <1>6, <1>w, <2>0, <3>1, <3>3, MarkersStay DEF Own, WriterStep
  <2> QED
    BY <2>1, <2>2
<1>7. CASE Unmark(w)
  <2>1. /\ writer[w].pc = "unmark" /\ inflight' = inflight \ {ip} /\ geoQueue' = geoQueue
        /\ writer' = [writer EXCEPT ![w].pc = "write"]
    BY <1>7 DEF Unmark, DiscardMark
  <2>2. Extends(marker, marker', w, ip)
    BY <1>5, <2>1
  <2>3. Owned(marker', inflight', geoQueue, worked)
    BY <2>1, <2>2, OwnTurned, OwnDropped DEF Own
  <2> QED
    BY <1>7, <1>w, <2>1, <2>3, OwnTurned DEF Own, WriterStep
<1> QED
  BY <1>2, <1>3, <1>4, <1>6, <1>7 DEF WriterStep

\* A geo worker's steps.
LEMMA OwnGeoWorker ==
  ASSUME TypeOK, Own, NEW g \in GeoWorkers, GeoStep(g)
  PROVE  Own'
<1> USE DEF enrichment, memory
<1>0. /\ \A h \in GeoWorkers : h # g => geoWorker'[h] = geoWorker[h]
      /\ geoWorker[g].pc # "idle" => geoWorker[g] \in GeoWorker
  <2>1. geoWorker[g].pc # "idle" => geoWorker[g] \in GeoWorker
    BY DEF TypeOK, Idle
  <2>2. \E r : geoWorker' = [geoWorker EXCEPT ![g] = r]
    <3>1. GeoTake(g) \/ GeoFinish(g) => \E r : geoWorker' = [geoWorker EXCEPT ![g] = r]
      BY DEF GeoTake, GeoFinish
    <3>2. GeoLookup(g) => \E r : geoWorker' = [geoWorker EXCEPT ![g] = r]
      BY DEF GeoLookup
    <3>3. GeoPatch(g) => \E r : geoWorker' = [geoWorker EXCEPT ![g] = r]
      BY DEF GeoPatch
    <3>4. GeoStore(g) => \E r : geoWorker' = [geoWorker EXCEPT ![g] = r]
      BY DEF GeoStore
    <3> QED
      BY <3>1, <3>2, <3>3, <3>4 DEF GeoStep
  <2> QED
    BY <2>1, <2>2 DEF TypeOK
<1>m. marker' = marker
  BY DEF GeoStep, GeoTake, GeoLookup, GeoPatch, GeoStore, GeoFinish, marker, Marking
<1>1. CASE GeoTake(g)
  <2>1. /\ geoWorker[g].pc = "idle" /\ geoQueue # << >> /\ geoQueue' = Tail(geoQueue)
        /\ geoWorker'[g].pc = "lookup" /\ geoWorker'[g].ip = Head(geoQueue)
        /\ inflight' = inflight
    BY <1>1 DEF GeoTake, Idle, TypeOK
  <2>2. Working' = Working \cup {g} /\ g \notin Working
    BY <1>0, <2>1 DEF Working
  <2>3. Extends(worked', worked, g, Head(geoQueue))
    BY <1>0, <2>1, <2>2 DEF Extends, worked, Working
  <2> QED
    BY <1>m, <2>1, <2>3, Shifted DEF Own, TypeOK
<1>2. CASE GeoLookup(g) \/ GeoPatch(g) \/ GeoStore(g)
  <2>1. /\ geoWorker[g].pc \in {"lookup", "patch", "store"} /\ geoWorker[g] \in GeoWorker
        /\ UNCHANGED <<geoQueue, inflight>>
    BY <1>0, <1>2 DEF GeoLookup, GeoPatch, GeoStore
  <2>2. geoWorker'[g].pc # "idle" /\ geoWorker'[g].ip = geoWorker[g].ip
    <3>1. CASE GeoLookup(g)
      <4>1. PICK geo \in Geo : geoWorker' = [geoWorker EXCEPT ![g] =
                                     [@ EXCEPT !.pc = "patch", !.geo = geo]]
        BY <3>1 DEF GeoLookup
      <4>2. geoWorker'[g] = [geoWorker[g] EXCEPT !.pc = "patch", !.geo = geo]
        BY <4>1 DEF TypeOK
      <4> QED
        BY <2>1, <4>2 DEF GeoWorker
    <3>2. CASE GeoPatch(g) \/ GeoStore(g)
      <4>1. PICK p \in {"store", "finish"} : geoWorker'[g] = [geoWorker[g] EXCEPT !.pc = p]
        BY <3>2 DEF GeoPatch, GeoStore, TypeOK
      <4> QED
        BY <2>1, <4>1 DEF GeoWorker
    <3> QED
      BY <1>2, <3>1, <3>2
  <2>3. worked' = worked
    BY <1>0, <2>1, <2>2, WorkedStays DEF Working
  <2> QED
    BY <1>m, <2>1, <2>3 DEF Own
<1>3. CASE GeoFinish(g)
  <2> DEFINE ip == geoWorker[g].ip
  <2>1. /\ geoWorker[g].pc = "finish" /\ geoWorker'[g].pc = "idle" /\ geoQueue' = geoQueue
        /\ inflight' = inflight \ {ip}
    BY <1>3 DEF GeoFinish, Idle, TypeOK, DiscardMark
  <2>2. Working' = Working \ {g} /\ g \in Working
    BY <1>0, <2>1 DEF Working
  <2>3. Extends(worked, worked', g, ip)
    BY <1>0, <2>2 DEF Extends, worked, Working
  <2>4. Owned(worked', inflight', geoQueue, marker)
    BY <2>1, <2>3, OwnTurned, OwnDropped DEF Own
  <2> QED
    BY <1>m, <2>1, <2>4, OwnTurned DEF Own
<1> QED
  BY <1>1, <1>2, <1>3 DEF GeoStep

LEMMA OwnStep == TypeOK /\ Own /\ [Next]_vars => Own'
<1> SUFFICES ASSUME TypeOK, Own, [Next]_vars PROVE Own'
  OBVIOUS
<1> USE DEF memory, enrichment, tables, bounds, history
<1>1. ASSUME UNCHANGED <<writer, geoQueue, inflight, geoWorker>> PROVE Own'
  BY <1>1 DEF Own, marker, Marking, worked, Working
<1>2. CASE FlusherStep
  BY <1>1, <1>2 DEF FlusherStep, Swap, Commit, FlushFails, Broadcast
<1>3. CASE \E ip \in Ips : ForgetGeo(ip) \/ Pin(ip) \/ ResetCount(ip)
  BY <1>1, <1>3 DEF ForgetGeo, Pin, ResetCount
<1>4. CASE (\E d \in Devices : DeleteDevice(d)) \/ Cleanup \/ Tick \/ UNCHANGED vars
  BY <1>1, <1>4 DEF DeleteDevice, Cleanup, Tick, vars
<1>5. CASE Restart
  <2>1. /\ geoQueue' = << >> /\ inflight' = {}
        /\ \A w \in Writers : writer'[w].pc = "idle"
        /\ \A g \in GeoWorkers : geoWorker'[g].pc = "idle"
    BY <1>5 DEF Restart, Idle
  <2>2. DOMAIN marker' = {} /\ DOMAIN worked' = {} /\ DOMAIN geoQueue' = {}
    BY <2>1 DEF marker, Marking, worked, Working
  <2> QED
    BY <2>1, <2>2 DEF Own, Owned, Single, Apart, Within, Covered
<1> QED
  BY <1>2, <1>3, <1>4, <1>5, OwnWriter, OwnGeoWorker DEF Next

\* A mark in geo_enrich_inflight is in exactly one pair of hands, for any number of
\* writers and geo workers and any bound of the queue: an address is never looked up
\* by two workers at once, nor marked with nobody to enrich it (app.py:1853-1923).
THEOREM MarksAreExact == Spec => []InflightExact
<1>1. Own => InflightExact
  <2> SUFFICES ASSUME Own, NEW ip \in Ips
               PROVE  /\ ip \in inflight <=> Holders(ip) # {}
                      /\ \A h, j \in Holders(ip) : h = j
    BY DEF InflightExact
  <2> DEFINE A == {<<"writer", w>> : w \in {v \in Writers :
                       writer[v].pc \in {"put", "unmark"} /\ IpOf(writer[v].key) = ip}}
             B == {<<"queue", i>> : i \in {j \in DOMAIN geoQueue : geoQueue[j] = ip}}
             C == {<<"worker", g>> : g \in {h \in GeoWorkers :
                       geoWorker[h].pc # "idle" /\ geoWorker[h].ip = ip}}
  <2>1. /\ DOMAIN marker = Marking /\ \A w \in Marking : marker[w] = IpOf(writer[w].key)
        /\ DOMAIN worked = Working /\ \A g \in Working : worked[g] = geoWorker[g].ip
    BY DEF marker, worked
  <2>2. /\ A # {} <=> \E w \in DOMAIN marker : marker[w] = ip
        /\ B # {} <=> \E i \in DOMAIN geoQueue : geoQueue[i] = ip
        /\ C # {} <=> \E g \in DOMAIN worked : worked[g] = ip
    <3>1. A # {} <=> \E w \in Marking : IpOf(writer[w].key) = ip
      BY DEF Marking
    <3>2. C # {} <=> \E g \in Working : geoWorker[g].ip = ip
      BY DEF Working
    <3>3. B # {} <=> \E i \in DOMAIN geoQueue : geoQueue[i] = ip
      OBVIOUS
    <3> QED
      BY <2>1, <3>1, <3>2, <3>3
  <2>3. ip \in inflight <=> A # {} \/ B # {} \/ C # {}
    BY <2>2 DEF Own, Owned, Within, Covered
  <2>4. /\ \A h, j \in A : h = j
        /\ \A h, j \in B : h = j
        /\ \A h, j \in C : h = j
    <3>1. \A w, v \in Marking : IpOf(writer[w].key) = IpOf(writer[v].key) => w = v
      BY <2>1 DEF Own, Owned, Single
    <3>2. \A i, j \in DOMAIN geoQueue : geoQueue[i] = geoQueue[j] => i = j
      BY DEF Own, Owned, Single
    <3>3. \A f, g \in Working : geoWorker[f].ip = geoWorker[g].ip => f = g
      BY <2>1 DEF Own, Owned, Single
    <3> QED
      BY <3>1, <3>2, <3>3 DEF Marking, Working
  <2>5. /\ A = {} \/ B = {}
        /\ A = {} \/ C = {}
        /\ B = {} \/ C = {}
    BY <2>2 DEF Own, Owned, Apart
  <2>6. Holders(ip) = A \cup B \cup C
    BY DEF Holders
  <2> HIDE DEF A, B, C
  <2> QED
    BY <2>3, <2>4, <2>5, <2>6
<1> QED
  BY <1>1, OwnInit, OwnStep, TypeCorrect, PTL DEF Spec
==============================================================================
