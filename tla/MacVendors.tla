------------------------------ MODULE MacVendors ------------------------------
(***************************************************************************)
(* MAC vendor enrichment: the capture threads look a vendor up in the hot  *)
(* cache and in mac_cache, a packet worker schedules a background lookup   *)
(* for an item that has none, mac_enrichment_worker asks the providers and *)
(* patches ip_data, and the flusher upserts what the packet workers wrote. *)
(* Steps are cut where app.py takes or releases a lock or goes to the      *)
(* network or to the database.                                             *)
(*                                                                         *)
(* Abstractions.  The vendor of a MAC is named by the MAC itself, so that  *)
(* a row showing another device's vendor can be told; a frame carries one  *)
(* MAC (the code handles source and destination in turn).  The two         *)
(* providers are one question: the second is asked when the first gives no *)
(* usable answer.  Which addresses are stored is the subject of Capture:   *)
(* here a packet worker may or may not write.                              *)
(* MayScheduleAgain, MayScheduleParked, RoomForOneMore, NotReleased and    *)
(* PatchesAny are faulty variants of the definition that follows them: no  *)
(* specification uses them, each shows that some property would notice     *)
(* that fault.                                                             *)
(***************************************************************************)
EXTENDS Naturals, Sequences

CONSTANTS
  Ips,            \* the (device, address) keys of ip_data
  Macs,           \* well-formed MAC addresses
  Capturers,      \* threads that run parse_ip_packet
  PacketWorkers,  \* PACKET_WORKERS threads
  QueueMax,       \* maxsize of mac_enrich_queue
  HotTTL,         \* MAC_VENDOR_CACHE_TTL
  MissTTL,        \* MAC_VENDOR_MISS_TTL
  NegativeTTL,    \* MAC_NEGATIVE_TTL
  MaxNow,         \* model bound: clock
  MaxFrames,      \* model bound: frames captured
  MaxItems        \* model bound: items between capture and the packet workers

Unknown == "Unknown"   \* the placeholder vendor
None == "none"         \* Python's None, and an absent row or entry

ASSUME MacVendorsAssumption ==
  /\ QueueMax \in Nat \ {0} /\ HotTTL \in Nat /\ MissTTL \in Nat
  /\ NegativeTTL \in Nat \ {0}
  /\ MaxNow \in Nat /\ MaxFrames \in Nat /\ MaxItems \in Nat
  /\ Unknown \notin Macs /\ None \notin Macs

VARIABLES
  now,        \* time.time()
  hot,        \* mac_vendor_hot_cache
  table,      \* table mac_cache
  negative,   \* mac_negative_cache
  inflight,   \* mac_enrich_inflight
  queue,      \* mac_enrich_queue
  lookup,     \* where each capture thread is in get_mac_vendor_cached
  items,      \* the packet queue, of captured items
  worker,     \* where each packet worker is with its item
  enricher,   \* where mac_enrichment_worker is
  buffer,     \* ip_write_buffer, its mac and vendor fields
  rows,       \* table ip_data, its mac and vendor columns
  frames,     \* counter for the model bound
  quiet,      \* history: until when a parked MAC is not to be asked about
  moved       \* history: rows whose MAC a placeholder write replaced

caches == <<hot, table, negative>>
pipeline == <<lookup, items, worker, frames>>
store == <<buffer, rows, moved>>
vars == <<now, caches, inflight, queue, pipeline, enricher, store, quiet>>

Vendors == Macs \cup {Unknown}

HotEntry == [vendor: Vendors \cup {None}, expiry: Nat]
NoEntry == [vendor |-> None, expiry |-> 0]

Item == [ip: Ips, mac: Macs, vendor: Vendors]

\* "read" and "remember" are the two unlocked sections after the hot cache.
Lookup == [pc: {"hot", "read", "remember"}, ip: Ips, mac: Macs, vendor: Vendors \cup {None}]

\* "mark", "put" and "unmark" are the three places of queue_mac_enrichment.
Worker == [pc: {"mark", "put", "unmark", "write"}, item: Item]

\* "ask" is the network, "remember" to "update" follow a known vendor,
\* "park" follows an unknown one, "discard" is the finally clause.
Enricher == [pc: {"cached", "ask", "learn", "save", "remember", "update", "park", "discard"},
             mac: Macs, vendor: Vendors]

Idle == [pc |-> "idle"]

Row == [mac: Macs, vendor: Vendors]
NoRow == [mac |-> None, vendor |-> Unknown]

TypeOK ==
  /\ now \in Nat
  /\ hot \in [Macs -> HotEntry]
  /\ table \in [Macs -> Vendors \cup {None}]
  /\ negative \in [Macs -> Nat]
  /\ inflight \subseteq Macs
  /\ queue \in Seq(Macs) /\ Len(queue) <= QueueMax
  /\ lookup \in [Capturers -> Lookup \cup {Idle}]
  /\ items \in Seq(Item)
  /\ worker \in [PacketWorkers -> Worker \cup {Idle}]
  /\ enricher \in Enricher \cup {Idle}
  /\ buffer \in [Ips -> Row \cup {NoRow}]
  /\ rows \in [Ips -> Row \cup {NoRow}]
  /\ frames \in Nat
  /\ quiet \in [Macs -> Nat]
  /\ moved \subseteq Ips

Init ==
  /\ now = 0
  /\ hot = [m \in Macs |-> NoEntry]
  /\ table = [m \in Macs |-> None]
  /\ negative = [m \in Macs |-> 0]
  /\ inflight = {}
  /\ queue = <<>>
  /\ lookup = [c \in Capturers |-> Idle]
  /\ items = <<>>
  /\ worker = [w \in PacketWorkers |-> Idle]
  /\ enricher = Idle
  /\ buffer = [ip \in Ips |-> NoRow]
  /\ rows = [ip \in Ips |-> NoRow]
  /\ frames = 0
  /\ quiet = [m \in Macs |-> 0]
  /\ moved = {}

\* _remember_mac_vendor.
Remembered(m, vendor, ttl) == [hot EXCEPT ![m] = [vendor |-> vendor, expiry |-> now + ttl]]

-------------------------------------------------------------------------------
(* The capture side: get_mac_vendor_cached, then the item's queue.put.     *)

\* A frame the callback looks up.
Frame(c, ip, m) ==
  /\ lookup[c] = Idle /\ frames < MaxFrames
  /\ frames' = frames + 1
  /\ lookup' = [lookup EXCEPT ![c] = [pc |-> "hot", ip |-> ip, mac |-> m, vendor |-> None]]
  /\ UNCHANGED <<now, caches, inflight, queue, items, worker, enricher, store, quiet>>

\* A full packet queue drops the item.
Emit(ip, m, vendor) ==
  items' = IF Len(items) < MaxItems
           THEN Append(items, [ip |-> ip, mac |-> m, vendor |-> IF vendor = None THEN Unknown ELSE vendor])
           ELSE items

\* A frame no vendor is looked up for: FritzDump's, and a private address of
\* the live capture (lookup_private_macs=False).
FrameUnresolved(ip, m) ==
  /\ frames < MaxFrames
  /\ frames' = frames + 1
  /\ Emit(ip, m, Unknown)
  /\ UNCHANGED <<now, caches, inflight, queue, lookup, worker, enricher, store, quiet>>

\* Under mac_vendor_hot_cache_lock: a live entry answers, an expired one goes.
HotCheck(c) ==
  LET m == lookup[c].mac IN
  /\ lookup[c].pc = "hot"
  /\ IF hot[m].expiry > now
     THEN /\ Emit(lookup[c].ip, m, hot[m].vendor)
          /\ lookup' = [lookup EXCEPT ![c] = Idle]
          /\ UNCHANGED hot
     ELSE /\ hot' = [hot EXCEPT ![m] = NoEntry]
          /\ lookup' = [lookup EXCEPT ![c].pc = "read"]
          /\ UNCHANGED items
  /\ UNCHANGED <<now, table, negative, inflight, queue, worker, frames, enricher, store, quiet>>

\* The SELECT on mac_cache.  A database error answers None and caches nothing.
TableRead(c) ==
  LET m == lookup[c].mac IN
  /\ lookup[c].pc = "read"
  /\ \/ /\ lookup' = [lookup EXCEPT ![c] = [@ EXCEPT !.pc = "remember", !.vendor = table[m]]]
        /\ UNCHANGED items
     \/ /\ Emit(lookup[c].ip, m, None)
        /\ lookup' = [lookup EXCEPT ![c] = Idle]
  /\ UNCHANGED <<now, caches, inflight, queue, worker, frames, enricher, store, quiet>>

HotFill(c) ==
  LET l == lookup[c] IN
  /\ l.pc = "remember"
  /\ hot' = Remembered(l.mac, l.vendor, IF l.vendor = None THEN MissTTL ELSE HotTTL)
  /\ Emit(l.ip, l.mac, l.vendor)
  /\ lookup' = [lookup EXCEPT ![c] = Idle]
  /\ UNCHANGED <<now, table, negative, inflight, queue, worker, frames, enricher, store, quiet>>

-------------------------------------------------------------------------------
(* The packet workers: process_*_packet_item and queue_mac_enrichment.     *)

TakeItem(w) ==
  /\ worker[w] = Idle /\ items # <<>>
  /\ worker' = [worker EXCEPT ![w] =
        [pc |-> IF Head(items).vendor = Unknown THEN "mark" ELSE "write", item |-> Head(items)]]
  /\ items' = Tail(items)
  /\ UNCHANGED <<now, caches, inflight, queue, lookup, frames, enricher, store, quiet>>

\* Whether a lookup may be scheduled: not one under way, and none parked.
Parked(m) == negative[m] > now
MayScheduleAgain(m) == ~Parked(m)
MayScheduleParked(m) == m \notin inflight
MaySchedule(m) == m \notin inflight /\ ~Parked(m)

\* Under mac_enrich_lock; an expired negative entry is deleted.
Mark(w) ==
  LET m == worker[w].item.mac IN
  /\ worker[w].pc = "mark"
  /\ IF MaySchedule(m)
     THEN /\ inflight' = inflight \cup {m}
          /\ negative' = [negative EXCEPT ![m] = 0]
          /\ worker' = [worker EXCEPT ![w].pc = "put"]
     ELSE /\ worker' = [worker EXCEPT ![w].pc = "write"]
          /\ UNCHANGED <<inflight, negative>>
  /\ UNCHANGED <<now, hot, table, queue, lookup, items, frames, enricher, store, quiet>>

\* put_nowait on a bounded queue.
RoomForOneMore == Len(queue) <= QueueMax
Room == Len(queue) < QueueMax

Put(w) ==
  /\ worker[w].pc = "put"
  /\ IF Room
     THEN /\ queue' = Append(queue, worker[w].item.mac)
          /\ worker' = [worker EXCEPT ![w].pc = "write"]
     ELSE /\ worker' = [worker EXCEPT ![w].pc = "unmark"]
          /\ UNCHANGED queue
  /\ UNCHANGED <<now, caches, inflight, lookup, items, frames, enricher, store, quiet>>

\* Full: the mark goes, so that a later packet may schedule the MAC again.
NotReleased(m) == inflight
Released(m) == inflight \ {m}

Unmark(w) ==
  /\ worker[w].pc = "unmark"
  /\ inflight' = Released(worker[w].item.mac)
  /\ worker' = [worker EXCEPT ![w].pc = "write"]
  /\ UNCHANGED <<now, caches, queue, lookup, items, frames, enricher, store, quiet>>

\* update_ip: the buffered entry takes the packet's MAC and vendor together.
Write(w) ==
  LET i == worker[w].item IN
  /\ worker[w].pc = "write"
  /\ \/ buffer' = [buffer EXCEPT ![i.ip] = [mac |-> i.mac, vendor |-> i.vendor]]
     \/ UNCHANGED buffer
  /\ worker' = [worker EXCEPT ![w] = Idle]
  /\ UNCHANGED <<now, caches, inflight, queue, lookup, items, frames, enricher, rows, moved, quiet>>

\* The upsert of flush_ip_writes: mac = EXCLUDED.mac always, vendor only when the
\* buffer holds one.  A failed flush drops the batch.
Upsert(row, e) ==
  [mac |-> e.mac, vendor |-> IF e.vendor # Unknown THEN e.vendor ELSE row.vendor]

Misnamed(row) == row.vendor \notin {Unknown, row.mac}

Flush(ip) ==
  LET row == Upsert(rows[ip], buffer[ip]) IN
  /\ buffer[ip] # NoRow
  /\ buffer' = [buffer EXCEPT ![ip] = NoRow]
  /\ \/ /\ rows' = [rows EXCEPT ![ip] = row]
        /\ moved' = IF buffer[ip].vendor = Unknown /\ row.mac # rows[ip].mac /\ Misnamed(row)
                    THEN moved \cup {ip}
                    ELSE IF Misnamed(row) THEN moved ELSE moved \ {ip}
     \/ UNCHANGED <<rows, moved>>
  /\ UNCHANGED <<now, caches, inflight, queue, pipeline, enricher, quiet>>

-------------------------------------------------------------------------------
(* The background worker: mac_enrichment_worker and get_mac_vendor.        *)

At(pc) == enricher.pc = pc
Goto(pc) == enricher' = [enricher EXCEPT !.pc = pc]
Answer(pc, vendor) == enricher' = [enricher EXCEPT !.pc = pc, !.vendor = vendor]

Take ==
  /\ enricher = Idle /\ queue # <<>>
  /\ enricher' = [pc |-> "cached", mac |-> Head(queue), vendor |-> Unknown]
  /\ queue' = Tail(queue)
  /\ UNCHANGED <<now, caches, inflight, pipeline, store, quiet>>

\* The SELECT on mac_cache: a stored vendor answers, and a database error
\* answers "Unknown", which parks the MAC although nobody was asked.
Cached ==
  LET vendor == table[enricher.mac] IN
  /\ At("cached")
  /\ \/ vendor = None /\ Goto("ask")
     \/ vendor \in Macs /\ Answer("remember", vendor)
     \/ vendor = Unknown /\ Goto("park")
     \/ Goto("park")
  /\ UNCHANGED <<now, caches, inflight, queue, pipeline, store, quiet>>

\* The providers: a vendor, an empty 200 (stored as "Unknown"), no answer, or an
\* answer that raises out of get_mac_vendor.
Ask ==
  /\ At("ask")
  /\ \/ Answer("learn", enricher.mac)
     \/ Answer("save", Unknown)
     \/ Goto("park")
     \/ Goto("discard")
  /\ UNCHANGED <<now, caches, inflight, queue, pipeline, store, quiet>>

\* get_mac_vendor remembers a vendor before it stores it.
Learn ==
  /\ At("learn")
  /\ hot' = Remembered(enricher.mac, enricher.vendor, HotTTL)
  /\ Goto("save")
  /\ UNCHANGED <<now, table, negative, inflight, queue, pipeline, store, quiet>>

\* The upsert of mac_cache.  A database error is logged and the vendor returned.
Save ==
  /\ At("save")
  /\ \/ table' = [table EXCEPT ![enricher.mac] = enricher.vendor]
     \/ UNCHANGED table
  /\ Goto(IF enricher.vendor = Unknown THEN "park" ELSE "remember")
  /\ UNCHANGED <<now, hot, negative, inflight, queue, pipeline, store, quiet>>

Remember ==
  /\ At("remember")
  /\ hot' = Remembered(enricher.mac, enricher.vendor, HotTTL)
  /\ Goto("update")
  /\ UNCHANGED <<now, table, negative, inflight, queue, pipeline, store, quiet>>

\* The rows the UPDATE touches: this MAC's, if they have no vendor.
PatchesAny(row, m) == row.mac # None /\ row.vendor = Unknown
Patches(row, m) == row.mac = m /\ row.vendor = Unknown

Update ==
  /\ At("update")
  /\ \/ rows' = [ip \in Ips |-> IF Patches(rows[ip], enricher.mac)
                                THEN [rows[ip] EXCEPT !.vendor = enricher.vendor] ELSE rows[ip]]
     \/ UNCHANGED rows
  /\ Goto("discard")
  /\ UNCHANGED <<now, caches, inflight, queue, pipeline, buffer, moved, quiet>>

\* The negative cache, under mac_enrich_lock.
Park ==
  /\ At("park")
  /\ negative' = [negative EXCEPT ![enricher.mac] = now + NegativeTTL]
  /\ quiet' = [quiet EXCEPT ![enricher.mac] = now + NegativeTTL]
  /\ Goto("discard")
  /\ UNCHANGED <<now, hot, table, inflight, queue, pipeline, store>>

\* The finally clause.
Discard ==
  /\ At("discard")
  /\ inflight' = Released(enricher.mac)
  /\ enricher' = Idle
  /\ UNCHANGED <<now, caches, queue, pipeline, store, quiet>>

Tick ==
  /\ now < MaxNow
  /\ now' = now + 1
  /\ UNCHANGED <<caches, inflight, queue, pipeline, enricher, store, quiet>>

-------------------------------------------------------------------------------
Capture(c) ==
  \/ \E ip \in Ips, m \in Macs : Frame(c, ip, m)
  \/ HotCheck(c) \/ TableRead(c) \/ HotFill(c)

Process(w) == TakeItem(w) \/ Mark(w) \/ Put(w) \/ Unmark(w) \/ Write(w)

Enrich == Take \/ Cached \/ Ask \/ Learn \/ Save \/ Remember \/ Update \/ Park \/ Discard

Next ==
  \/ Tick
  \/ \E c \in Capturers : Capture(c)
  \/ \E ip \in Ips, m \in Macs : FrameUnresolved(ip, m)
  \/ \E w \in PacketWorkers : Process(w)
  \/ \E ip \in Ips : Flush(ip)
  \/ Enrich

Spec == Init /\ [][Next]_vars

\* Every thread keeps running; requests time out, so Ask is always answered.
Fairness ==
  /\ \A w \in PacketWorkers : WF_vars(Process(w))
  /\ WF_vars(Enrich)

FairSpec == Spec /\ Fairness

-------------------------------------------------------------------------------
\* A MAC marked in flight is in exactly one pair of hands: a queue entry, a
\* packet worker between the mark and the put or the unmark, or the enrichment
\* worker; and nobody handles a MAC that is not marked.  So one lookup per MAC
\* is under way, and no mark is left behind (app.py:431-483).
Scheduling == {w \in PacketWorkers : worker[w].pc \in {"put", "unmark"}}
Holders(m) ==
  {<<"queue", i>> : i \in {j \in DOMAIN queue : queue[j] = m}}
  \cup {<<"worker", w>> : w \in {v \in Scheduling : worker[v].item.mac = m}}
  \cup (IF enricher # Idle /\ enricher.mac = m THEN {<<"enricher", m>>} ELSE {})
OneHolder ==
  \A m \in Macs :
    /\ m \in inflight <=> Holders(m) # {}
    /\ \A h, g \in Holders(m) : h = g

\* A MAC whose lookup was parked is not asked about again before
\* MAC_NEGATIVE_TTL has passed, however many workers see its packets: the
\* promise of the comment at app.py:411-413.
QuietAfterPark == At("ask") => quiet[enricher.mac] <= now

\* A row shows its own MAC's vendor or the placeholder, except one a placeholder
\* write moved to another MAC while it named the old one's vendor: such a row
\* stays so until an item brings the new vendor, as the worker's UPDATE only
\* fills rows without one (app.py:464-469, 2139-2141).
VendorIsTheMacs == \A ip \in Ips : Misnamed(rows[ip]) => ip \in moved

\* Every mark ends: a scheduled lookup is carried out and its MAC may be
\* scheduled again, also when the queue was full or the lookup raised.
MarksEnd == \A m \in Macs : m \in inflight ~> m \notin inflight
===============================================================================
