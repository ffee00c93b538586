------------------------------- MODULE IpStore -------------------------------
(***************************************************************************)
(* The hub's write path: packet workers and ingest handlers look an IP up  *)
(* in the geo cache, queue it for enrichment and buffer the write; one     *)
(* flusher swaps the buffer and upserts it in a transaction; geo workers   *)
(* patch the buffer and the table behind it; the retention loop deletes    *)
(* rows.  Steps are cut where app.py takes or releases a lock.             *)
(*                                                                         *)
(* Abstractions.  A location is "placeholder" (0,0 / Unknown / Not         *)
(* available) or "resolved"; incoming and outgoing deltas are one count;   *)
(* a threat level is a Boolean (Low, Medium and High are all protected     *)
(* from retention).  Column values no property reads are left out.         *)
(* A definition named after another one, with a suffix or prefix saying    *)
(* what is wrong with it (MarkWithoutDedup, UpsertUngated), is a faulty    *)
(* variant: no specification uses it, and each shows that some property    *)
(* would notice that fault.                                                *)
(***************************************************************************)
EXTENDS Naturals, FiniteSets, Sequences

CONSTANTS
  Devices,      \* device ids
  Ips,          \* remote addresses
  Private,      \* the addresses is_private_ip accepts
  ListedSets,   \* what threat_list may hold: each refresh replaces it as a whole
  RiskySets,    \* the addresses flagged once located (org lists, threat_list,
                \* country), by what those lists may hold
  Writers,      \* threads that run update_ip or ingest_events
  GeoWorkers,   \* GEO_WORKERS threads
  Deltas,       \* packet counts one write can carry (0: direction "other")
  BufferMax,    \* IP_WRITE_BUFFER_MAX
  GeoQueueMax,  \* maxsize of geo_enrich_queue
  MaxRows,      \* MAX_IP_ROWS
  Retention,    \* RETENTION_SECONDS
  MaxNow,       \* model bound: clock
  MaxWrites,    \* model bound: writes offered
  MaxRestarts   \* model bound: hub restarts

ASSUME IpStoreAssumption ==
  /\ Private \subseteq Ips
  /\ ListedSets \subseteq SUBSET Ips /\ RiskySets \subseteq SUBSET Ips
  /\ Deltas \subseteq Nat
  /\ BufferMax \in Nat \ {0} /\ GeoQueueMax \in Nat \ {0} /\ MaxRows \in Nat
  /\ Retention \in Nat /\ MaxNow \in Nat /\ MaxWrites \in Nat /\ MaxRestarts \in Nat

VARIABLES
  now,        \* time.time()
  buffer,     \* ip_write_buffer
  dropped,    \* _ip_write_buffer_dropped
  writer,     \* where each writer is in update_ip / ingest_events
  flusher,    \* where flush_ip_writes is
  batch,      \* its local: the swapped-out buffer
  fresh,      \* its local: the IPs whose ledger row this flush inserted
  rows,       \* table ip_data
  ledger,     \* table ip_seen
  pinned,     \* table pinned_ips
  geoCache,   \* geo_cache
  geoQueue,   \* geo_enrich_queue
  inflight,   \* geo_enrich_inflight
  geoWorker,  \* where each geo_enrichment_worker is
  offered, restarts,            \* counters for the model bounds
  accepted, gone, drops, logged, announced   \* history

memory == <<buffer, dropped, writer, flusher, batch, fresh>>
enrichment == <<geoCache, geoQueue, inflight, geoWorker>>
tables == <<rows, ledger, pinned>>
bounds == <<offered, restarts>>
history == <<accepted, gone, drops, logged, announced>>
vars == <<now, memory, enrichment, tables, bounds, history>>

Keys == Devices \X Ips
IpOf(k) == k[2]
Geo == {"placeholder", "resolved"}

\* A pending write.  An absent key is NoEntry.
Entry == [held: BOOLEAN, count: Nat, seen: Nat, geo: Geo]
NoEntry == [held |-> FALSE, count |-> 0, seen |-> 0, geo |-> "placeholder"]

\* A row of ip_data.  An absent row is NoRow.
Row == [held: BOOLEAN, count: Nat, seen: Nat, geo: Geo, threat: BOOLEAN]
NoRow == [held |-> FALSE, count |-> 0, seen |-> 0, geo |-> "placeholder", threat |-> FALSE]

Seen == [held: BOOLEAN, first: Nat, last: Nat]
NotSeen == [held |-> FALSE, first |-> 0, last |-> 0]

\* "mark", "put" and "unmark" are the three places of queue_geo_enrichment,
\* "write" is the call of buffer_ip_write.
Writer == [pc: {"mark", "put", "unmark", "write"}, key: Keys,
           count: Nat, seen: Nat, geo: Geo]

\* "lookup", "patch", "store" and "finish" are the four parts of the loop body.
GeoWorker == [pc: {"lookup", "patch", "store", "finish"}, ip: Ips, geo: Geo]

Idle == [pc |-> "idle"]

Held(f) == {k \in Keys : f[k].held}

TypeOK ==
  /\ now \in Nat
  /\ buffer \in [Keys -> Entry]
  /\ dropped \in Nat
  /\ writer \in [Writers -> Writer \cup {Idle}]
  /\ flusher \in {"idle", "commit", "broadcast"}
  /\ batch \in [Keys -> Entry]
  /\ fresh \subseteq Ips
  /\ rows \in [Keys -> Row]
  /\ ledger \in [Ips -> Seen]
  /\ pinned \subseteq Ips
  /\ geoCache \in [Ips -> Geo \cup {"none"}]
  /\ geoQueue \in Seq(Ips) /\ Len(geoQueue) <= GeoQueueMax
  /\ inflight \subseteq Ips
  /\ geoWorker \in [GeoWorkers -> GeoWorker \cup {Idle}]
  /\ offered \in Nat /\ restarts \in Nat
  /\ accepted \in [Keys -> Nat] /\ gone \in [Keys -> Nat]
  /\ drops \in Nat /\ logged \in Nat
  /\ announced \in [Ips -> Nat]

Init ==
  /\ now = 0
  /\ buffer = [k \in Keys |-> NoEntry]
  /\ dropped = 0
  /\ writer = [w \in Writers |-> Idle]
  /\ flusher = "idle"
  /\ batch = [k \in Keys |-> NoEntry]
  /\ fresh = {}
  /\ rows = [k \in Keys |-> NoRow]
  /\ ledger = [ip \in Ips |-> NotSeen]
  /\ pinned = {}
  /\ geoCache = [ip \in Ips |-> "none"]
  /\ geoQueue = <<>>
  /\ inflight = {}
  /\ geoWorker = [g \in GeoWorkers |-> Idle]
  /\ offered = 0 /\ restarts = 0
  /\ accepted = [k \in Keys |-> 0]
  /\ gone = [k \in Keys |-> 0]
  /\ drops = 0 /\ logged = 0
  /\ announced = [ip \in Ips |-> 0]

-------------------------------------------------------------------------------
(* The writers: update_ip and ingest_events up to the buffered write.      *)

\* get_geo_data_cached: a cached or private address answers at once.
CachedGeo(ip) == IF geoCache[ip] = "none" /\ ip \in Private THEN "resolved" ELSE geoCache[ip]

\* A packet (or a sensor event) for key k arrives at an idle writer.
Arrive(w, k, n) ==
  LET geo == CachedGeo(IpOf(k)) IN
  /\ offered < MaxWrites
  /\ writer[w] = Idle
  /\ writer' = [writer EXCEPT ![w] =
        [pc |-> IF geo = "none" THEN "mark" ELSE "write", key |-> k, count |-> n,
         seen |-> now, geo |-> IF geo = "none" THEN "placeholder" ELSE geo]]
  /\ geoCache' = [geoCache EXCEPT ![IpOf(k)] = geo]
  /\ offered' = offered + 1
  /\ UNCHANGED <<now, buffer, dropped, flusher, batch, fresh, geoQueue, inflight,
                 geoWorker, tables, restarts, history>>

\* queue_geo_enrichment, first critical section.
MarkWithoutDedup(w) ==
  LET ip == IpOf(writer[w].key) IN
  /\ inflight' = inflight \cup {ip}
  /\ writer' = [writer EXCEPT ![w].pc = "put"]

Mark(w) ==
  LET ip == IpOf(writer[w].key) IN
  IF ip \in inflight
  THEN /\ writer' = [writer EXCEPT ![w].pc = "write"]
       /\ UNCHANGED inflight
  ELSE /\ inflight' = inflight \cup {ip}
       /\ writer' = [writer EXCEPT ![w].pc = "put"]

MarkInflight(w) ==
  /\ writer[w].pc = "mark"
  /\ Mark(w)
  /\ UNCHANGED <<now, buffer, dropped, flusher, batch, fresh, geoCache, geoQueue,
                 geoWorker, tables, bounds, history>>

\* put_nowait: Full sends the writer to the second critical section.
PutNowait(w) ==
  IF Len(geoQueue) < GeoQueueMax
  THEN /\ geoQueue' = Append(geoQueue, IpOf(writer[w].key))
       /\ writer' = [writer EXCEPT ![w].pc = "write"]
  ELSE /\ writer' = [writer EXCEPT ![w].pc = "unmark"]
       /\ UNCHANGED geoQueue

Put(w) ==
  /\ writer[w].pc = "put"
  /\ PutNowait(w)
  /\ UNCHANGED <<now, buffer, dropped, flusher, batch, fresh, geoCache, inflight,
                 geoWorker, tables, bounds, history>>

\* Full: the address is no longer in flight, a later packet may queue it again.
KeepMark(ip) == inflight
DiscardMark(ip) == inflight \ {ip}

Unmark(w) ==
  /\ writer[w].pc = "unmark"
  /\ inflight' = DiscardMark(IpOf(writer[w].key))
  /\ writer' = [writer EXCEPT ![w].pc = "write"]
  /\ UNCHANGED <<now, buffer, dropped, flusher, batch, fresh, geoCache, geoQueue,
                 geoWorker, tables, bounds, history>>

\* buffer_ip_write: the latest fields win, counts accumulate, private
\* addresses are not counted.
Counted(k, n) == IF IpOf(k) \in Private THEN 0 ELSE n

MergedResetting(e, k, n, seen, geo) ==
  [held |-> TRUE, count |-> Counted(k, n), seen |-> seen, geo |-> geo]
Merged(e, k, n, seen, geo) ==
  [held |-> TRUE, count |-> e.count + Counted(k, n), seen |-> seen, geo |-> geo]

BufferFull == Cardinality(Held(buffer)) >= BufferMax

Write(w) ==
  LET k == writer[w].key
      n == writer[w].count
      e == Merged(buffer[k], k, n, writer[w].seen, writer[w].geo)
  IN
  /\ writer[w].pc = "write"
  /\ writer' = [writer EXCEPT ![w] = Idle]
  /\ IF ~buffer[k].held /\ BufferFull
     THEN /\ dropped' = dropped + 1
          /\ drops' = drops + 1
          /\ UNCHANGED <<buffer, accepted>>
     ELSE /\ buffer' = [buffer EXCEPT ![k] = e]
          /\ accepted' = [accepted EXCEPT ![k] = @ + Counted(k, n)]
          /\ UNCHANGED <<dropped, drops>>
  /\ UNCHANGED <<now, flusher, batch, fresh, enrichment, tables, bounds,
                 gone, logged, announced>>

-------------------------------------------------------------------------------
(* The flusher: flush_ip_writes.                                           *)

\* The swap, under ip_write_buffer_lock.  An interval with nothing buffered
\* only reports what was dropped.
ReportDropped ==
  /\ dropped' = 0
  /\ logged' = logged + dropped

Swap ==
  /\ flusher = "idle"
  /\ ReportDropped
  /\ IF Held(buffer) = {}
     THEN /\ dropped > 0
          /\ UNCHANGED <<buffer, batch, flusher>>
     ELSE /\ batch' = buffer
          /\ buffer' = [k \in Keys |-> NoEntry]
          /\ flusher' = "commit"
  /\ UNCHANGED <<now, writer, fresh, enrichment, tables, bounds,
                 accepted, gone, drops, announced>>

\* The verdict on an address, from the columns the batch holds for it and the
\* lists of the moment: org lists and country once located, threat_list otherwise.
ThreatOf(ip, geo, listed, risky) == ip \in IF geo = "resolved" THEN risky ELSE listed

\* INSERT INTO ip_data ... ON CONFLICT (device_id, ip) DO UPDATE: a placeholder
\* never overwrites the location columns, counts add up, the rest is replaced.
UpsertReplacing(row, e, threat) ==
  [held |-> TRUE, count |-> e.count, seen |-> e.seen,
   geo |-> IF e.geo = "resolved" THEN e.geo ELSE row.geo, threat |-> threat]
UpsertUngated(row, e, threat) ==
  [held |-> TRUE, count |-> row.count + e.count, seen |-> e.seen,
   geo |-> e.geo, threat |-> threat]
Upsert(row, e, threat) ==
  [held |-> TRUE, count |-> row.count + e.count, seen |-> e.seen,
   geo |-> IF e.geo = "resolved" THEN e.geo ELSE row.geo, threat |-> threat]

\* INSERT INTO ip_seen ... ON CONFLICT (ip) DO UPDATE, over all batch entries of
\* one address: `lead` is the entry the loop meets first, `latest` the entry with
\* the greatest last_seen.
BatchIps == {IpOf(k) : k \in Held(batch)}

SightingOverwriting(ip, lead, latest) ==
  [held |-> TRUE, first |-> lead.seen, last |-> latest.seen]
Sighting(ip, lead, latest) ==
  LET old == ledger[ip] IN
  [held  |-> TRUE,
   first |-> IF old.held THEN old.first ELSE lead.seen,
   last  |-> IF old.held /\ old.last > latest.seen THEN old.last ELSE latest.seen]

\* RETURNING (xmax = 0): the addresses this transaction inserts.
FreshPerDevice == BatchIps
FreshIps == {ip \in BatchIps : ~ledger[ip].held}

Commit ==
  /\ flusher = "commit"
  /\ \E lead, latest \in [BatchIps -> Devices] :
       /\ \A ip \in BatchIps : batch[<<lead[ip], ip>>].held
       /\ \A k \in Held(batch) : batch[k].seen <= batch[<<latest[IpOf(k)], IpOf(k)>>].seen
       /\ ledger' = [ip \in Ips |->
             IF ip \in BatchIps
             THEN Sighting(ip, batch[<<lead[ip], ip>>], batch[<<latest[ip], ip>>])
             ELSE ledger[ip]]
  /\ \E listed \in ListedSets, risky \in RiskySets :
       rows' = [k \in Keys |->
             IF batch[k].held
             THEN Upsert(rows[k], batch[k], ThreatOf(IpOf(k), batch[k].geo, listed, risky))
             ELSE rows[k]]
  /\ fresh' = FreshIps
  /\ batch' = [k \in Keys |-> NoEntry]
  /\ flusher' = "broadcast"
  /\ UNCHANGED <<now, buffer, dropped, writer, enrichment, pinned, bounds, history>>

\* A database error rolls the transaction back; the batch is dropped, not retried.
FlushKillsThread ==
  /\ flusher = "commit"
  /\ flusher' = "dead"
  /\ UNCHANGED <<now, buffer, dropped, writer, batch, fresh, enrichment, tables, bounds, history>>

FlushFails ==
  /\ flusher = "commit"
  /\ gone' = [k \in Keys |-> gone[k] + batch[k].count]
  /\ batch' = [k \in Keys |-> NoEntry]
  /\ flusher' = "idle"
  /\ UNCHANGED <<now, buffer, dropped, writer, fresh, enrichment, tables, bounds,
                 accepted, drops, logged, announced>>

\* ip_update_batch, after db_lock is released: is_new for the inserted addresses.
Broadcast ==
  /\ flusher = "broadcast"
  /\ announced' = [ip \in Ips |-> IF ip \in fresh THEN announced[ip] + 1 ELSE announced[ip]]
  /\ fresh' = {}
  /\ flusher' = "idle"
  /\ UNCHANGED <<now, buffer, dropped, writer, batch, enrichment, tables, bounds,
                 accepted, gone, drops, logged>>

-------------------------------------------------------------------------------
(* The geo workers: geo_enrichment_worker.                                 *)

GeoTake(g) ==
  /\ geoWorker[g] = Idle /\ geoQueue # <<>>
  /\ geoWorker' = [geoWorker EXCEPT ![g] =
        [pc |-> "lookup", ip |-> Head(geoQueue), geo |-> "placeholder"]]
  /\ geoQueue' = Tail(geoQueue)
  /\ UNCHANGED <<now, memory, geoCache, inflight, tables, bounds, history>>

\* get_geo_data: the cache, else the providers.  When they all fail it answers,
\* and caches, the default location.
GeoLookup(g) ==
  /\ geoWorker[g].pc = "lookup"
  /\ \E geo \in Geo :
       /\ geoCache[geoWorker[g].ip] \in {"none", geo}
       /\ geoCache' = [geoCache EXCEPT ![geoWorker[g].ip] = geo]
       /\ geoWorker' = [geoWorker EXCEPT ![g] = [@ EXCEPT !.pc = "patch", !.geo = geo]]
  /\ UNCHANGED <<now, memory, geoQueue, inflight, tables, bounds, history>>

\* Every buffered entry of the address, whatever its device.
GeoPatch(g) ==
  /\ geoWorker[g].pc = "patch"
  /\ buffer' = [k \in Keys |->
        IF buffer[k].held /\ IpOf(k) = geoWorker[g].ip
        THEN [buffer[k] EXCEPT !.geo = geoWorker[g].geo] ELSE buffer[k]]
  /\ geoWorker' = [geoWorker EXCEPT ![g].pc = "store"]
  /\ UNCHANGED <<now, dropped, writer, flusher, batch, fresh, geoCache, geoQueue,
                 inflight, tables, bounds, history>>

\* Every row of the address, under db_lock; a database error leaves them alone.
GeoStore(g) ==
  /\ geoWorker[g].pc = "store"
  /\ \/ rows' = [k \in Keys |->
           IF rows[k].held /\ IpOf(k) = geoWorker[g].ip
           THEN [rows[k] EXCEPT !.geo = geoWorker[g].geo] ELSE rows[k]]
     \/ UNCHANGED rows
  /\ geoWorker' = [geoWorker EXCEPT ![g].pc = "finish"]
  /\ UNCHANGED <<now, memory, geoCache, geoQueue, inflight, ledger, pinned,
                 bounds, history>>

\* The emits, then the finally clause.
GeoFinish(g) ==
  /\ geoWorker[g].pc = "finish"
  /\ inflight' = DiscardMark(geoWorker[g].ip)
  /\ geoWorker' = [geoWorker EXCEPT ![g] = Idle]
  /\ UNCHANGED <<now, memory, geoCache, geoQueue, tables, bounds, history>>

\* A cached location passes CACHE_TIMEOUT, or the size limit evicts it.
ForgetGeo(ip) ==
  /\ geoCache[ip] # "none"
  /\ geoCache' = [geoCache EXCEPT ![ip] = "none"]
  /\ UNCHANGED <<now, memory, geoQueue, inflight, geoWorker, tables, bounds, history>>

-------------------------------------------------------------------------------
(* Retention, pins, counter reset, restart.                                *)

Protected(k) == IpOf(k) \in pinned \/ rows[k].threat

ExpiredUnpinned == {k \in Held(rows) : rows[k].seen + Retention < now /\ IpOf(k) \notin pinned}
Expired == {k \in Held(rows) : rows[k].seen + Retention < now /\ ~Protected(k)}

\* ORDER BY last_seen DESC OFFSET MAX_IP_ROWS: what the subquery skips, whichever
\* way ties fall.
NewestSets(open, n) ==
  {s \in SUBSET open : /\ Cardinality(s) = IF Cardinality(open) < n THEN Cardinality(open) ELSE n
                      /\ \A k \in s, j \in open \ s : rows[k].seen >= rows[j].seen}

KeepSets(open) == NewestSets(open, MaxRows)

\* The rows the cap may remove: beyond the MaxRows most recent unprotected ones.
\* The inner SELECT names addresses, so the DELETE takes every device's row.
TrimSets(live) ==
  LET open == {k \in live : ~Protected(k)} IN
  IF Cardinality(live) > MaxRows
  THEN {{j \in live : IpOf(j) \in {IpOf(k) : k \in open \ keep}} : keep \in KeepSets(open)}
  ELSE {{}}

Remove(deleted) ==
  /\ rows' = [k \in Keys |-> IF k \in deleted THEN NoRow ELSE rows[k]]
  /\ gone' = [k \in Keys |-> IF k \in deleted THEN gone[k] + rows[k].count ELSE gone[k]]

\* One pass of cleanup_expired_ips over the table.  An error after the first
\* commit skips the cap.
Cleanup ==
  /\ \E trim \in TrimSets(Held(rows) \ Expired) \cup {{}} :
       /\ Expired \cup trim # {}
       /\ Remove(Expired \cup trim)
  /\ UNCHANGED <<now, memory, enrichment, ledger, pinned, bounds,
                 accepted, drops, logged, announced>>

\* handle_pin_ip, the table's side.
Pin(ip) ==
  /\ pinned' = IF ip \in pinned THEN pinned \ {ip} ELSE pinned \cup {ip}
  /\ UNCHANGED <<now, memory, enrichment, rows, ledger, bounds, history>>

\* handle_reset_packet_count: every device's row of the address.
ResetCount(ip) ==
  /\ \E d \in Devices : rows[<<d, ip>>].count > 0
  /\ rows' = [k \in Keys |-> IF IpOf(k) = ip THEN [rows[k] EXCEPT !.count = 0] ELSE rows[k]]
  /\ gone' = [k \in Keys |-> IF IpOf(k) = ip THEN gone[k] + rows[k].count ELSE gone[k]]
  /\ UNCHANGED <<now, memory, enrichment, ledger, pinned, bounds,
                 accepted, drops, logged, announced>>

\* api_device, DELETE: the device's rows go; what is buffered for it stays, and the
\* next flush stores it again.
DeleteDevice(d) ==
  /\ \E ip \in Ips : rows[<<d, ip>>].held
  /\ Remove({k \in Held(rows) : k[1] = d})
  /\ UNCHANGED <<now, memory, enrichment, ledger, pinned, bounds,
                 accepted, drops, logged, announced>>

\* The process ends and starts again: memory is lost, the tables are not.
Restart ==
  /\ restarts < MaxRestarts
  /\ restarts' = restarts + 1
  /\ buffer' = [k \in Keys |-> NoEntry]
  /\ batch' = [k \in Keys |-> NoEntry]
  /\ gone' = [k \in Keys |-> gone[k] + buffer[k].count + batch[k].count]
  /\ dropped' = 0 /\ drops' = 0 /\ logged' = 0
  /\ writer' = [w \in Writers |-> Idle]
  /\ flusher' = "idle" /\ fresh' = {}
  /\ geoCache' = [ip \in Ips |-> "none"]
  /\ geoQueue' = <<>> /\ inflight' = {}
  /\ geoWorker' = [g \in GeoWorkers |-> Idle]
  /\ UNCHANGED <<now, tables, offered, accepted, announced>>

Tick == now < MaxNow /\ now' = now + 1
        /\ UNCHANGED <<memory, enrichment, tables, bounds, history>>

WriterStep(w) == MarkInflight(w) \/ Put(w) \/ Unmark(w) \/ Write(w)
FlusherStep == Swap \/ Commit \/ FlushFails \/ Broadcast
GeoStep(g) == GeoTake(g) \/ GeoLookup(g) \/ GeoPatch(g) \/ GeoStore(g) \/ GeoFinish(g)

Next ==
  \/ \E w \in Writers : \/ \E k \in Keys, n \in Deltas : Arrive(w, k, n)
                        \/ WriterStep(w)
  \/ FlusherStep
  \/ \E g \in GeoWorkers : GeoStep(g)
  \/ \E ip \in Ips : ForgetGeo(ip) \/ Pin(ip) \/ ResetCount(ip)
  \/ \E d \in Devices : DeleteDevice(d)
  \/ Cleanup
  \/ Restart
  \/ Tick

Spec == Init /\ [][Next]_vars

\* Each thread runs; nothing else is owed a step.
Fairness ==
  /\ \A w \in Writers : WF_vars(WriterStep(w))
  /\ WF_vars(FlusherStep)
  /\ \A g \in GeoWorkers : WF_vars(GeoStep(g))

FairSpec == Spec /\ Fairness

-------------------------------------------------------------------------------
(* Properties.                                                             *)

\* buffer_ip_write and flush_ip_writes account for every counted packet: it is
\* in the buffer, in the batch being flushed, in the row, or was removed by a
\* failed transaction, a restart, retention or a reset.  What the full buffer
\* turned away is in the counter or in the log ("dropped (logged, never silently)").
PacketsAccounted ==
  /\ \A k \in Keys : accepted[k] = buffer[k].count + batch[k].count + rows[k].count + gone[k]
  /\ drops = logged + dropped

\* What makes PacketsAccounted inductive: the flusher holds a batch only between
\* the swap and the end of the transaction, and an absent entry counts nothing.
BatchDiscipline ==
  /\ flusher # "commit" => \A k \in Keys : batch[k] = NoEntry
  /\ \A k \in Keys : /\ ~batch[k].held => batch[k].count = 0
                     /\ ~buffer[k].held => buffer[k].count = 0
CountInv == PacketsAccounted /\ BatchDiscipline

\* Where an address in flight is: with a writer between its two critical
\* sections, in the queue, or with a geo worker.
Holders(ip) ==
  {<<"writer", w>> : w \in {v \in Writers :
                              writer[v].pc \in {"put", "unmark"} /\ IpOf(writer[v].key) = ip}}
  \cup {<<"queue", i>> : i \in {j \in DOMAIN geoQueue : geoQueue[j] = ip}}
  \cup {<<"worker", g>> : g \in {h \in GeoWorkers :
                              geoWorker[h].pc # "idle" /\ geoWorker[h].ip = ip}}

\* geo_enrich_inflight is exact: an address is in it when exactly one writer,
\* queue slot or worker carries it, so no address is looked up twice at once and
\* none is left marked with nobody to enrich it.
InflightExact ==
  \A ip \in Ips :
    /\ ip \in inflight <=> Holders(ip) # {}
    /\ \A h, j \in Holders(ip) : h = j

\* "is_new" reaches the clients at most once for an address, over all devices,
\* retention passes and restarts: the ledger row outlives the ip_data rows.
NewAnnouncedOnce ==
  \A ip \in Ips :
    /\ announced[ip] <= 1
    /\ ip \in fresh => announced[ip] = 0
    /\ announced[ip] > 0 => ledger[ip].held

\* What makes it inductive: a pending announcement is of an address in the ledger.
NewInv == NewAnnouncedOnce /\ \A ip \in fresh : ledger[ip].held

\* ip_seen is permanent: an entry never goes, its first sighting never changes
\* and its last sighting never moves back, although batches of several writers
\* reach it out of order.
LedgerPermanent ==
  [][\A ip \in Ips : ledger[ip].held =>
       /\ ledger'[ip].held
       /\ ledger'[ip].first = ledger[ip].first
       /\ ledger'[ip].last >= ledger[ip].last]_ledger

\* The whole write path does no more than WriteBehind allows: the buffer and the
\* batch are one set of pending counts that a flush moves to the table as a whole,
\* an address is known from its ledger row on, and is told as new only between two
\* flushes.  Whatever the writers, workers, retention and handlers do in between is
\* a step of it or none.
Pending == [k \in Keys |-> buffer[k].count + batch[k].count]
Stored == [k \in Keys |-> rows[k].count]
Known == {ip \in Ips : ledger[ip].held}

WB == INSTANCE WriteBehind WITH taken <- accepted, pending <- Pending, stored <- Stored,
                                known <- Known, news <- fresh, told <- announced

StoresBehind == WB!Spec

\* The ledger covers the table: every row's address is in it, last seen no earlier
\* than the row says, whatever order the writes of several devices arrive in.
LedgerCoversRows ==
  \A k \in Keys : rows[k].held =>
    ledger[IpOf(k)].held /\ ledger[IpOf(k)].last >= rows[k].seen

\* A row that has a location loses it only with the row, or to a lookup that
\* failed: no buffered placeholder, however late, undoes an enrichment.
LocationSticks ==
  [][\A k \in Keys : rows[k].geo = "resolved" /\ rows'[k].held =>
       \/ rows'[k].geo = "resolved"
       \/ \E g \in GeoWorkers : geoWorker[g].pc = "store" /\ geoWorker[g].ip = IpOf(k)
                                /\ geoWorker[g].geo = "placeholder"]_rows

\* What is left of "the record of a threat is never silently lost" (app.py:2796):
\* a row loses its flag only with its device, to a flush of a later write of it that
\* the lists of the moment find harmless, which keeps the row, or to the row cap, and
\* to that only beside another device's unprotected row of the same unpinned address.
\* Expiry, enrichment, resets and other devices' writes never take it.
ThreatLossNamed ==
  [][\A k \in Keys : rows[k].threat =>
       \/ rows'[k].threat
       \/ DeleteDevice(k[1])
       \/ /\ flusher = "commit" /\ batch[k].held /\ rows'[k].held
          /\ \E listed \in ListedSets, risky \in RiskySets :
                ~ThreatOf(IpOf(k), batch[k].geo, listed, risky)
       \/ /\ Cleanup /\ Cardinality(Held(rows) \ Expired) > MaxRows
          /\ \E j \in Held(rows) \ Expired : IpOf(j) = IpOf(k) /\ ~Protected(j)]_rows

\* Every buffered write is taken by the flusher, or lost with the process.
BufferDrains ==
  \A k \in Keys : buffer[k].held ~> ~buffer[k].held

\* No address stays in flight: enrichment of a later packet is never locked out.
EnrichmentEnds ==
  \A ip \in Ips : ip \in inflight ~> ip \notin inflight

\* "those are kept indefinitely so the record of a threat is never silently lost"
\* (cleanup_expired_ips): a threat-flagged row stays, and stays flagged, until
\* its device is deleted.
ThreatRecordKept ==
  [][\A k \in Keys : rows[k].threat => rows'[k].threat \/ DeleteDevice(k[1])]_rows

\* "never the pinned or threat-flagged ones" (cleanup_expired_ips, row cap): a
\* pass removes no protected row.
TrimSparesProtected ==
  [][Cleanup => \A k \in Keys : rows[k].held /\ ~rows'[k].held => ~Protected(k)]_rows
==============================================================================
