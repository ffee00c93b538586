# Verification of GDEF-L1NK

TLA+ models of the hub (`app.py`), its packet queue (`packet_pipeline.py`), its capture
files (`capture_sources.py`), the classification of frames (`capture_core.py`), the remote
sensors (`sensor/sensor.py`), the key files (`secret_files.py`) and what a page of the
dashboard shows (`static/globe/socket.js`), checked with TLC on small instances and, for most
of them, proved in part with TLAPS for every instance. Line numbers are those of the sources under `src/`.

Contents: [1 The system](#1-the-system) · [2 Modules](#2-modules-and-the-code-they-model) ·
[3 Runs](#3-runs-and-bounds) · [4 Fairness](#4-fairness) · [5 Proofs](#5-proofs) ·
[6 Disagreements](#6-where-the-code-and-its-documents-disagree) ·
[7 Not modelled](#7-what-is-not-modelled) · [8 Plan](#8-plan) · [9 Running it](#9-running-it)

## 1 The system

A hub process captures packets (Scapy, a forked LAN scanner, FritzDump capture
files), resolves each remote address to a place and a verdict, stores one row per
device and address in PostgreSQL, and shows the rows live on a globe in the browser.
Remote sensors capture elsewhere and push encrypted batches to the hub.

```
 sniffer, scanner, pcap reader --put--> PacketQueue --get--> process_packets --+
                                        (two lanes)          (gate: stopped    |
 sensor --POST /api/ingest--> api_ingest --> ingest_events    devices)         |
   ^  (seq, retry)              (registry row, seq)   |                        |
   +--- status -----------------+                     v                        v
                                   geo cache -> geo_enrich_queue    buffer_ip_write
                                                  |  (in-flight set)     |
                                             geo workers --patch-->  ip_write_buffer
                                                  |                      | swap
                                                  v                      v
                                   ip_data, ip_seen  <--transaction-- flush_ip_writes
                                        ^                                |
                          retention, pins, reset                  ip_update_batch --> browsers
```

### Inventory

| component | state it keeps | operations | interacts with | what is hard | what makes it correct |
|---|---|---|---|---|---|
| Sensor worker (`sensor.py`) | `_buffer`, `_dropped`, `_seq` | `_record`, `_swap_buffer`, `flush`, `_requeue` | capture thread and flush loop share `_buffer`; HTTP to the hub | a batch away while packets arrive; unknown outcome of a POST; restart; clock set back | every packet in one place or lost for a known cause; nothing acknowledged that was not ingested |
| Ingest endpoint (`app.py:2605`) | `devices.seq`, rate windows | admit, `ingest_events`, `update_device_after_ingest` | registry row, key file, write buffer | several threads serve one sensor; the stored number is read early and written late | the number advances; no batch is ingested twice |
| Device registry, Start/Stop (`app.py:2476-2603`) | table `devices`, set `disabled_devices` | register, start/stop, delete, rotate key, refresh | key files, packet gate, ingest | requests interleave between statements; database failures; crash | a sensor has a key; a stopped device's traffic is not processed |
| Secret files (`secret_files.py`) | key, token and seed files | `write_secret_file` | registry | threads share a temporary name | never observed half-written |
| Packet queue (`packet_pipeline.py`) | two lanes, `_turn`, shared counters | `put`, `get` | all capture sources, worker threads | the lock a blocking `get` holds; a flooded lane | no lane starved |
| Frame classification (`capture_core.py`, `app.py:2852-3040`) | protocol and fragment counters | `classify_packet`, `classify_direction`, the three packet callbacks | queue lanes, settings | two processes see the same frame of the LAN | no endpoint once too often, none of ours, none lost |
| Packet processing (`app.py:3353-3468`) | `_processed_local` | `process_packets`, `process_*_packet_item` | queue, gate, write buffer, vendor lookup | batched counter; stop racing with a packet | counter catches up; gate; the right addresses stored |
| IP write buffer and flusher (`app.py:2025-2199`) | `ip_write_buffer`, `_ip_write_buffer_dropped` | `buffer_ip_write`, `flush_ip_writes` | every writer, both tables, browsers | swap against writers, failed transaction, out-of-order batches | every packet accounted for; "new" announced once; ledger permanent |
| Geo enrichment (`app.py:1817-1923`) | `geo_cache`, `geo_enrich_queue`, `geo_enrich_inflight` | look up, queue, worker loop | buffer, tables, providers | three critical sections per address; stale placeholders | the in-flight set is exact; a location is not undone |
| Retention (`app.py:2783`) | - | expire, cap | table `ip_data`, pins | ranks rows, deletes addresses | protected rows stay; the cap is kept |
| Pins and counter reset (`app.py:485-519`, `3669-3708`) | table `pinned_ips`, in-memory cache, each page's pins | pin, unpin, reset, load | retention, packet workers, pages | cache changes before commit; a load without the lock | cache, table and pages agree |
| MAC vendors (`app.py:314-483`) | hot cache, table `mac_cache`, negative cache, in-flight set, queue | look up, schedule, worker loop | capture threads, packet workers, flusher, providers | as geo enrichment, with expiries; rows that move to another MAC | one lookup per MAC, parked MACs left alone, no lost mark, no foreign vendor |
| Threat lists (`app.py:1455-1519`) | table `threat_list` | fetch, replace | verdicts | some sources fail | table is one generation; a flag goes only by a later verdict |
| Pcap tail, FritzDump source (`capture_sources.py`) | offset per file | poll, discover | pcap reader thread | rotation, truncation, partial records | every record once, in order |
| FritzDump worker (`app.py:3211-3351`) | handle of the leader, back-off | spawn, supervise, stop | registry, exit | start, stop and exit race; a kill that fails; children the leader leaves behind | one leader, always held; none after stop |
| Login limiter, session (`app.py:142-176`) | failures, lock-outs | fail, succeed, check | web requests | old counts, expiry | lock-out only after the limit |
| Socket limiter, settings (`app.py:263-310`, `1429-1453`, `1521-1567`) | windows, shared values, table `settings` | check, apply, save, broadcast | web sockets, capture processes, pages | three copies updated without a common lock | the copies agree |
| Stats and health | shared counters | persist, load | all threads | crash | monotone totals |
| mDNS listener | name cache | add, prune | packet threads | size limit | bounded |
| Database access (`db.py`) | connection pool | statement, transaction | all | failure of a statement | - |
| Dashboard stores (`static/globe/*.js`) | rows by key, pins, settings | initial load, batch, patch | socket messages | initial load against live updates, reconnects | a joining page misses nothing |
| Rendering, history APIs, configuration | none of their own | - | - | - | - |

## 2 Modules and the code they model

| module | models | proved about in |
|---|---|---|
| `IpStore` | write path, enrichment, retention, pins, reset, device deletion, restart | `IpStoreProofs` |
| `WriteBehind` | abstract: what the write path promises a reader of its tables; implemented by `IpStore` | `IpStoreProofs` |
| `SensorIngest` | a sensor and the hub's ingest threads | `SensorIngestProofs` |
| `Delivery` | abstract: what sensor and hub promise together; implemented by `SensorIngest` | `SensorIngestProofs` |
| `Capture` | from a frame to the addresses stored: callbacks, lanes, gate, packet workers | `CaptureProofs` |
| `MacVendors` | vendor caches, scheduling, the enrichment worker, the vendor of a row | `MacVendorsProofs` |
| `Operator` | settings, pins and rows: table, shared memory and pages | `OperatorProofs` |
| `PacketQueue` | the two lanes, the worker pool, the processed counter | `PacketQueueProofs` |
| `DeviceControl` | registry, cache of stopped devices, key files, gate | `DeviceControlProofs` |
| `FritzCapture` | the FritzDump reader thread: capture worker and capture files | `FritzCaptureProofs` |
| `MC*` | small instances: model values and symmetry | |

The modules meet at the calls the code makes: `Capture` ends at the call of `update_ip`
that `IpStore` begins with (`Arrive`), `SensorIngest`'s `Ingest` is the same for a batch,
`PacketQueue` is the inside of the lanes that `Capture` keeps as short sequences,
`MacVendors` takes items from those lanes and writes to the buffer `IpStore` flushes, and
`Operator` holds the settings and pins `Capture` and `IpStore` let change at any time.

Some definitions have a faulty sibling (`MarkWithoutDedup` beside `Mark`). No
specification uses it. Substituted for the original, it must break the property
listed with it in `PROJECT.json`; that is the evidence that the property says
something about the code.

### IpStore

Steps end where `app.py` takes or releases a lock. A writer (a packet worker in
`update_ip`, an ingest handler in `ingest_events`) is `Arrive` (cache lookup), then
for an unknown address the critical sections of `queue_geo_enrichment`
(`MarkInflight`, `Put`, `Unmark`), then `Write` (`buffer_ip_write`). The flusher is
`Swap` (under the buffer's lock), `Commit` or `FlushFails` (under `db_lock`),
`Broadcast`. A geo worker is `GeoTake`, `GeoLookup`, `GeoPatch` (buffer's lock),
`GeoStore` (`db_lock`), `GeoFinish` (the `finally` clause). `Cleanup` is a pass of
`cleanup_expired_ips`, with the possibility that only its first deletion commits.
`DeleteDevice`, `Pin`, `ResetCount` are the tables' side of their handlers;
`Restart` loses memory and keeps tables.

`accepted`, `gone`, `drops`, `logged` and `announced` are history variables. A count
is the sum of both directions. A location is a placeholder or resolved; a threat
level is a Boolean. Which addresses are flagged with and without a location changes
under the flusher, by the threat lists' refresh and edits of the organisation lists
(`app.py:1455-1513`, `1130`): each `Commit` reads any of the contents they may have
(`RiskySets`, `ListedSets`). A batch's entries are written in one step,
because the transaction is; the order the loop meets them in matters only for the
first sighting, and there every choice is allowed (`lead`).

`WriteBehind` is the promise without buffer, batch, locks, enrichment and clock: a packet
taken for a device and an address is pending, a pending packet is stored once or gone, an
address is known from its first stored packet for good, and becomes news that is told once
or, if the process ends first, never. The refinement maps `taken` to `accepted`, `pending` to
the counts of buffer plus batch, `stored` to those of the rows, `known` to the addresses of
the ledger, `news` to `fresh` and `told` to `announced`. `Write` takes, `Commit` stores,
`FlushFails` loses, `Broadcast` tells, `Restart` crashes, retention, the reset and a deletion
remove; `Swap` and all of the enrichment are stutters.

### SensorIngest

The sensor: `Capture` (`_record`), `Swap` (`_swap_buffer` and the batch), `Post`,
then `Receive`, `PostFails` or `GiveUp` (an exception before or after the hub had the
request). `Outcome` is the table of `flush`: 200 forgets, 401 and 403 drop, 409
resynchronises and requeues, everything else requeues. The hub: each thread does
`Admit`, `Ingest`, `Persist`, and answers; a request nobody waits for any more goes on
to the end. `SetClock` sets the sensor's clock to anything: the sequence number is
built from it. An exception of `flush` outside its `try`
or of another kind than a request's (`sensor.py:216`, `248-249`) loses the batch that was
swapped out. The history variable `lost` says for each packet lost which of five causes took
it; `abandoned` counts requests given up on after the hub had them.

`Delivery` is the promise in four variables: what the sensor still owes the hub, the copies
under way, what was delivered and what was confirmed. Steps capture, send a copy of something
owed, deliver a copy whole and once, confirm what was delivered, or forget. The refinement
maps `owed` to buffer plus batch, `copies` to the events of handlers that have not ingested
yet, `delivered` to `ingested`, `confirmed` to `settled`; a swap, a requeue and everything the
hub does but `Ingest` are stutters or forget what is listed in `lost`.

### Capture

A frame is its endpoints, its protocol, whether its ports are those of the UDP filter or of
the web, and whether it is a fragment; every such frame is tried, one from a host to itself
included, whose remote address the code stores twice (`app.py:3405-3408`). Both
local capture processes see a frame of the LAN: the sniffer queues one item with both
endpoints, the internal scanner one item for each private endpoint. A frame of the FRITZ!Box
mirror is seen by its reader alone. `Parse` is `parse_ip_packet` and the callback after it,
which leaves its items in `todo`; `Put` puts them one at a time, as the callback does, and
workers may take between. `Take`, `CheckStopped` and `ProcessItem` are `process_packets`, and
`Calls` counts how often the two `process_*_packet_item` functions hand an address to `update_ip`. `Toggle` changes a
setting, a pin or Start/Stop between any two steps. `updates` counts calls of `update_ip`
for the present frame; `parsed`, `kept` and `steady` are history.

### MacVendors

Steps end where a lock is taken or released and at the network and database calls. A capture
thread does `HotCheck`, `TableRead`, `HotFill` (`get_mac_vendor_cached`); a packet worker does
`Mark`, `Put`, `Unmark` (`queue_mac_enrichment`) and `Write`; the enrichment worker does
`Take`, `Cached`, `Ask`, `Learn`, `Save` (`get_mac_vendor`), `Remember`, `Update` or `Park`,
and `Discard` (the `finally` clause). The vendor of a MAC is named by the MAC, so a row that
shows another device's vendor can be told. The forked scanner has a hot cache of its own: the items
it yields, with the vendor or without, are among those of a capture thread here and of
`FrameUnresolved`. `quiet` and `moved` are history: until when a MAC is parked, and which rows
took a new MAC from a packet that brought no vendor.

### Operator

A setting or a pin is a key with a truth value, held in a table (`stored`), in the memory the
capture side reads (`shared`) and in each page (`view`). An event thread does `Receive`,
`Apply` (a setting's shared Value), `Write` and `Commit` (under `db_lock`; a pin changes the
cache between the two), `Tell` (the broadcast), with `WriteFails` and `CommitFails` beside them
because both saves swallow a database error and broadcast all the same. A reader thread is
`handle_connect` or `handle_request_initial_data`: it reads and sends settings, rows and pins
in turn, each read without a lock. `QueryPins` and `AssignPins` are the pin load that
`start_sniffing` repeats while events are already served. `Flush` and `Broadcast` are the
flusher as the rows see it: one row, its version the number of flushes. A page that
reconnects keeps what it shows, a page that loads starts empty; the page overwrites a row with
whatever arrives (`applyIpUpdate`) and adds the pins it is sent without taking any away
(`pinned_ips_update`). `doubt` and `putBack` are history: for which keys, and for which pages, a
difference has a named cause.

### PacketQueue

A lane is a `multiprocessing.Queue`, external code modelled from its use: a
semaphore (`slots`), packets on their way through the feeder thread (`feed`), packets in
the pipe (`pipe`), a read lock (`rlock`). `get` is cut into its two `get_nowait`
probes and the blocking wait, each with and without the lock, because a worker
waiting on the high lane holds that lane's lock and makes it look empty to the others.
`_turn` is kept modulo `_LOW_EVERY`. `Take` includes what `process_packets` does
with its counter.

### DeviceControl

Each request thread moves through `pc` steps: one per statement and one per system call
of `write_secret_file`. Statements fail where the code catches the error. A key is
the number of the write that produced it, so that "whose data is in this file" can be
asked: `file` and `tmp` say which inode each name has, `written` which inodes have
their data. `Select` and `Assign` are the two halves of `refresh_disabled_devices`,
the query outside the lock and the assignment inside. `forced` is what the set holds besides
the rows: with `FRITZDUMP_ENABLED` off the FritzDump device, enabled or not; a restart of the hub
may change it. `trust` and `clashed` are history.

### FritzCapture

One thread of the hub does both halves in turn. A worker is a process tree: a leader
(`run.sh`), which is all the hub polls and waits for, and the captures in its group; `LeaderEnds`
ends the one, `TreeEnds` all of it. `Pause` and `Stop` are the stop: a signal, a wait for the
leader, SIGKILL if it is still there, either of which may fail, and the handle dropped in every
case. `Resume`, `Manage` and `Launch` are the rest of the top of `fritzdump_reader`'s loop: a
worker launched or not (back-off, `Popen`), its leader found ended, or left alone.
`List` and `Read` are `FritzDumpSource.poll`: the listing drops the
readers of files it did not find, then each file is read once. `Read` is the whole of
`read_new`: shrunk file, header, window of `byte_budget`, at most `max_packets` records,
the half-written one left. A file is a sequence of cells (global header, record headers,
bodies), so an offset can point into a record; what a cell that is no record header says
of its length is any number. `Cleanup` is the atexit handler, during which the reader
still runs; `HubEnds` comes after it or without it, and a worker, being a session of its
own, may outlive the hub. `lost` is history too: the leaders whose hub ended or failed to kill
them. `got`, `bad` and `doubt` are history: how many
records of a file's present generation were handed on, whether anything but the next one
ever was, and whether the offset could be trusted.

## 3 Runs and bounds

| run | instance | shows |
|---|---|---|
| `ip_store` | 2 devices, 2 addresses, 2 writers, 1 geo worker, buffer 1, queue 1, cap 1, 2 writes, clock 0..1 | accounting, exact marks, one announcement, permanent ledger that covers the rows, locations that stick, threat flags that go in named ways only |
| `ip_store_live` | 1 device, 2 addresses, 1 writer, 1 geo worker, queue 1, 2 writes, 1 restart | buffered writes leave the buffer, marks end, the refinement of `WriteBehind` |
| `ip_threat`, `ip_trim` | 2 devices | see section 6 |
| `mac_vendors` | 1 address, 2 MACs, 1 capture thread, 2 packet workers, queue 1, lifetimes 1, clock 0..1, 2 frames, 1 item from elsewhere | a mark has one holder, a parked MAC is left alone, no foreign vendor, marks end |
| `capture` | 6 hosts (both of our own addresses, 2 of the LAN, 2 remote), 1 packet worker, lanes of 2, 1 frame, 2 changes of a setting, a pin or Start/Stop | which endpoints of a frame are stored and how often, which counters count |
| `operator` | 1 setting, 1 pin, 2 event threads, 2 initial loads at a time, 1 page, 1 version of a row, 4 incidents | memory follows the table, pages agree with it, a joining page misses no row |
| `sensor_ingest` | 3 addresses, 2 hub threads, buffer 2, batch 1, 3 packets, 2 posts, 1 restart, clock 0..1 | accounting of packets, acknowledgements, repetition, sequence, stale refusals only after a fault, the refinement of `Delivery` |
| `sensor_outage` | same, no restart | see section 6 |
| `packet_queue` | 2 workers, lanes of 2, `_LOW_EVERY` 4, `_PROCESSED_FLUSH` 2 | starvation, the counter's lag and its tail |
| `device_control` | 2 request threads, a sensor and the FritzDump device, switched on or off, 3 keys, crashes | keys, and the set of stopped devices the gate reads |
| `fritz_capture` | 1 file of up to 2 records of 2 or 3 cells, window 3, 2 workers, 2 faults (rotations, removals, failed listings, ends of the hub) | order and completeness of the records read, one leader, stop |

Why the bounds are enough to make the interesting cases happen:

* A buffer of one entry and a queue of one slot are full after one write, so refusal,
  `Full` and the withdrawal of a mark occur with two writers. Two devices with the same
  address are what separates per-address from per-row reasoning (ledger, announcement,
  cap). Two writes suffice for a stale entry to meet a fresh row; `ip_threat` needs four
  for its counterexample and has them.
* Two MACs and one address are what a row that moves to another MAC needs; two packet
  workers race for a mark, and a queue of one makes the second `put_nowait` raise `Full`.
  Lifetimes of one and a clock of two values let every cache expire once.
* Nothing is kept between two frames but counters that only grow, so frames are tried
  one at a time, every frame between any two of the hosts. Two hosts of each kind give
  third-party traffic; two changes let a setting change and change back between the parse
  and the processing of a frame; the endpoints of a frame may be equal. A lane of two holds both items of one LAN frame.
* Two event threads on one key give every order of two saves and two broadcasts; two
  initial loads of the same page overlap in the same way. One page is enough, because
  pages share nothing but the hub and each is compared with the table, not with another
  page. An incident is an event, an initial load, a restart of the hub or a failed
  statement; the broadcasts, commits and flushes these lead to are free.
* A batch of one event and a buffer of two addresses are the smallest sizes at which
  a buffer exceeds a batch, and three addresses the smallest number at which a requeue
  finds too little room. Two hub threads and two posts give the abandoned request
  and its retry.
* Two workers are needed for a held lock to hide a lane; a lane of two holds more than
  one packet. `_LOW_EVERY` keeps its value, `_PROCESSED_FLUSH` becomes two so that a batch
  is completed.
* A window of three cells is exactly the largest record and less than two records; records
  of two sizes make an offset of an earlier generation fall inside a record. Two faults
  allow a rotation that goes unnoticed and one that is seen, and an end of the hub with a
  worker running before the next one's; a second worker is what the first can be mistaken for. One file, since readers share
  nothing but the loop that visits each.
* Two request threads overlap in every way two can, on one device or on two. Three keys are a
  registration and two rotations. The FritzDump device is the one whose membership does not
  follow from its row alone.
* The threat lists of `ip_store` change between any two flushes, so a flagged row can be
  written again under lists that no longer name it.

`MaxNow`, `MaxWrites`, `MaxRestarts`, `MaxClock`, `MaxCaptured`, `MaxPosts`, `MaxKeys`,
`MaxRecords`, `MaxFaults`, `MaxFrames`, `MaxItems`, `MaxToggles`, `MaxRow` and
`MaxIncidents` are bounds of the models, not of the program; in the proofs they are
arbitrary naturals. `IpStore`, `SensorIngest`, `MacVendors`, `Capture` and `Operator` are
checked with `CHECK_DEADLOCK FALSE`, since they stop when these bounds are used up; the
other modules are checked for deadlock. Threads, devices (in `IpStore`), addresses (in
`SensorIngest`) and hosts of one kind (in `Capture`) are symmetric in the safety runs;
runs with a liveness property use no symmetry.

## 4 Fairness

* `IpStore`: weak fairness of each writer between arrivals, of the flusher and of
  each geo worker. They are threads in loops that catch every exception
  (`app.py:1912`, `2176`, `2198`), started once at start-up (`app.py:3515-3556`).
  Arrivals, retention, pins and restarts are owed nothing. `Commit` against
  `FlushFails` is not fair: the database may fail each time, and `BufferDrains` holds
  all the same, because a failed batch leaves the buffer too.
* `MacVendors`: weak fairness of each packet worker in the middle of an item and of the
  enrichment worker, whose requests have a timeout and whose `finally` clause discards the mark
  whatever happened. Nothing is owed by capture, the clock, the flusher or the providers'
  answers.
* `PacketQueue`: weak fairness of the feeder threads and of each worker's loop. Nothing
  is assumed of the producers, so a lane may be flooded for ever, and nothing about
  which worker gets a lock: weak fairness of the whole worker step lets another worker
  always win it. `NoLaneStarves` does not need more.
* `FritzCapture`: weak fairness of the reader's loop, whose body catches every exception.
  Nothing is owed by the worker, the operator or the hub's end; `StopKillsWorker` and
  `AllRead` are about a device that stays stopped or started from some time on.
* `SensorIngest`, `Capture`, `Operator` and `DeviceControl` state safety only.

## 5 Proofs

Assumptions are the named `ASSUME`s of the component modules: types of the
constants, disjointness, positive capacities. A theorem that needs more says so in an
`ASSUME` of its own.

`IpStoreProofs` (for any sets of devices, addresses and threads):

* `TypeCorrect`: `Spec => []TypeOK`, one step per action. The queue's bound is part
  of it, so `Put` needs the guard of `PutNowait`.
* `PacketsAreAccounted`: the accounting equation is not inductive. `Commit` adds the batch
  to the rows and empties it, so it must be known that absent entries count
  nothing and that the flusher holds no batch outside a transaction, else `Swap`
  would overwrite one. `BatchDiscipline` says both; `CountInv` is the conjunction that is
  preserved.
* `LedgerIsPermanent`: an action property. Only `Commit` writes the ledger; the
  new `last` is the greater of both, the new `first` is the old.
* `LedgerCovers`: inductive together with `TypeOK`; in `Commit` the choice of `latest` as
  the batch's greatest `last_seen` does the work.
* `NewIsAnnouncedOnce`: inductive once strengthened by "a pending announcement is of an
  address in the ledger" (`NewInv`): `Commit` can then make an address fresh only if it
  was never announced.
* `LocationIsKept`: an action property from `TypeOK` alone. `LocationWrites` lists what
  writes a row (the flush, the geo worker, retention, the reset, a deletion); the flush
  keeps a row's location against a placeholder.
* `StoresAreBehind`: the refinement `Spec => StoresBehind`, that is `WriteBehind`'s
  specification under the mapping, action by action (`StepBehind`). It rests on `CountInv`,
  without which a `Commit` could lose what `Swap` overwrote, and on `FreshInv`: between two
  transactions no announcement is pending, so the news of a commit is exactly its own.
* `ThreatLossIsNamed` (`ThreatLossNamed`) and `PassesSparePins`: what is true of the two comments
  that section 6 refutes, at any contents of the threat and organisation lists at any time. Only
  `Commit` and retention can take a flag; `CommitRow` says what the former makes of a row, and
  `CleanupTakes` that retention takes a protected row through the cap alone, by an address that
  another device's unprotected row shares, hence never a pinned one.
* `MarksAreExact`: inductive as ownership (`Own`): the places of the queue, the writers between their
  two critical sections and the geo workers hold marked addresses, no two hold the
  same one, and every mark is held. Each step adds a hand with an unmarked address,
  passes one on, or drops one with its mark.

`SensorIngestProofs` (for any addresses, hub threads, sizes and bounds):

* `TypeCorrect` and `PacketsAccounted` from one invariant, `IInv`: a packet is in the
  buffer, in the batch, settled or lost, and a batch exists only while a request of
  the sensor is out.
* `AcknowledgedWereIngested`, if a batch is no longer than what the hub takes
  (`MaxEvents <= HubMaxEvents`; both default to 5000, `sensor.py:61`, `app.py:2207`):
  inductive once it says of a request under way what its answer will mean (`Acked`).
* `NeverRepeats` and `StoredNumberAdvances`: while nothing was abandoned at most one
  handler is busy, it carries the sensor's present batch, and its number is above the
  stored one (`Undisturbed`).
* `StaleAfterFaultOnly` (`StaleOnlyAfterFault`): without an abandoned request and a restart the
  sensor's number is never below the stored one and a request under way is above it (`Ahead`),
  however its clock is set: `_next_seq` takes the greater of the clock and the last number
  plus one. Only the answer to a 409 takes the clock alone.
* `OutagesWithinABatchLoseNothing`: `OutageLosesNothing`, which run `sensor_outage` refutes, of
  every behaviour in which the buffer never holds more addresses than a batch, at any limits: a
  batch then holds the whole buffer (`Whole`), so its cut takes nothing. With the defaults (20000
  and 5000, `sensor.py:60-61`) that is an outage in which no more than 5000 addresses wait at any time.
* `DeliversAtLeastOnce`: the refinement `Spec => AtLeastOnce`, that is `Delivery`'s
  specification under the mapping, under the same condition. Initial states map to
  initial states; each action is shown to be one named step of `Delivery` or a stutter.

`MacVendorsProofs` (for any addresses, MACs, threads and lifetimes):

* `TypeCorrect`, with the bound of the queue.
* `MarksHaveOneHolder` (`OneHolder`): inductive once it is stated by ownership, a mark
  is held by one packet worker, one place of the queue or the enrichment worker, and each of
  them holds a mark that is set; no cardinality is needed.
* `ParkedStaysQuiet` (`QuietAfterPark`): every step that asks a provider has been through the
  test of the negative cache while holding the mark, which nobody else can then pass.
* `VendorStaysWithMac` (`VendorIsTheMacs`): inductive once every place a vendor passes
  through (the hot cache, `mac_cache`, a lookup, an item, a worker, the enricher, the buffer)
  is shown to keep it with its own MAC (`SourcesTrue`).

`CaptureProofs` (for any hosts, workers and lanes):

* Which addresses a queued item stores. `NeverStoresUs`: never one of our own.
  `PublicAlwaysStored`, `PrivateStoredWhen`: of an item with both endpoints a remote one
  always, a private one exactly with internal search on and no remote destination.
  `SensorReportsRemote`: a sensor reports the remote end of a frame between its host and
  another.
* `TypeCorrect`: every item in a callback's hands, in a lane or at a worker is of a shape
  the callbacks make.
* `CountersCount` (`CountersExact`): a capturer that is not done has not counted the frame
  on the wire (`WireInv`).
* `StoredOnce` (`OncePerFrame`): a device makes one item with both endpoints of a frame;
  `OnceInv` says that it is yet to be made, in one place of one lane or at one worker, and that
  no public endpoint is stored before it is processed. The scanner's items never store one. An
  endpoint is stored as often as the frame has it, so twice if it is both of them.
* `DueIsStored` (`FrameStored`): while nothing disturbs, an endpoint due is owed
  (`NothingLost`): the capturer that will make its item has the frame still, or an item that
  stores it is on its way, or it is stored. `CarrierMakes` says which capturer that is, and that
  its item does.

`OperatorProofs` (for any settings, pins, threads and pages):

* `TypeCorrect`.
* `NoRowIsMissed` (`ConnectMissesNothing`): the page's row is the table's or one that a
  broadcast, or a load that has read and not yet sent, will replace (`RowInv`); a page
  in `putBack` is excepted.
* `MemoryFollowsTable` (`SharedTracksStored`): an event without another one on its key
  leaves both alike, `db_lock` excludes two writes of a pin, and a pin load that read
  before such a write is known to be stale (`MemoryInv`).
* `PagesShowTheTable` (`PagesAgree`): a step frees a key only by a broadcast, which reaches
  every page online and marks each load that has read and not yet sent (`PageInv`).

`DeviceControlProofs` (for any threads, devices and number of keys), in four layers:

* `TypeCorrect`, with what each place of a request says of its operation, and the fact that
  the key a request holds is nobody else's until it has an inode (`KeysFresh`), so that no inode
  ever has two names.
* `RegisteredHasKey` (`RowHasKey`): a registration is alone on its device and inserts the row
  only with the file there; a file is unlinked only for a row that is deleted or never was.
* `KeyFileIsWhole` (`KeyWholeUnlessClash`): without a clash a device has one writer, the
  temporary name is its inode's, and its data is written before the name changes.
* `CacheFollowsTable` (`CacheTracksRows`): while the set can be trusted at most one refresh is
  between its query and its assignment, and device by device the set holds what the table and
  the FritzDump switch say, unless a request that changed that device has yet to assign; other
  devices' requests may be anywhere.

`PacketQueueProofs` (for any workers, capacity, `_LOW_EVERY`, `_PROCESSED_FLUSH`):

* `TypeCorrect`, from an invariant that also says what the model of `multiprocessing.Queue` keeps
  (`SlotsExact`, `ReadLocksExact`): facts about the library, not claims about this code.
* `CounterCatchesUp` (`CounterLag`): `behind` is the sum of the workers' tails. A sum over a set
  is recursive, so the invariant `Tally` says instead that in some order of the workers
  there are partial sums that end at `behind`; a step of a worker shifts those from its place
  on (`TallyMoves`), and only what the sum implies needs an induction (`InductionTo`, as a
  statement about sets). The pool must be finite.

`FritzCaptureProofs` (for any files, process ids and bounds):

* `WorkerIsHeld` (`OneWorker`): a running leader that is no leftover of an earlier hub, nor one
  whose killing failed, is the one in `_fritzdump_worker`. Inductive with the type of `procs`,
  `leads` and `handle`. It says nothing of the captures a leader leaves behind.
* `RecordsOnceInOrder` (`OnceInOrder`): `FileInv`, file by file, says what an offset
  means: it ends record `got` of the present generation (`Ends`), or it is of an earlier one
  and nothing of the present one was handed on, or `doubt` says why nothing is
  known. What a read does with it is `WalkTakesRecords`: from the end of a record a walk over a
  formed file (`Formed`) takes headers only, of each of the next records once, and stops at
  the end of the last. Its inductions over a file and over the cuts are arguments by a
  least counterexample (`LeastExists`, from the well-foundedness of the library's strict
  subset ordering).

Every safety property of the passing runs is a theorem. The type invariants of `IpStore`,
`Operator` and `PacketQueue` are theorems only: the runs check what rests on
them. Only model-checked is liveness: `BufferDrains`, `EnrichmentEnds`, `MarksEnd`, `NoLaneStarves`,
`TailCounted`, `StopKillsWorker` and `AllRead` rest on fairness, which TLAPS does not handle here.

## 6 Where the code and its documents disagree

Each of these is a run that TLC refutes.

| run | statement | what happens |
|---|---|---|
| `ip_threat` | `app.py:2794`: rows with a threat level "are kept indefinitely so the record of a threat is never silently lost" | the geo cache expires, the next packet is buffered with a placeholder, its flush sets the row's `threat_level` to the verdict on no location, and retention deletes it |
| `ip_trim` | `app.py:2806`: the cap trims "never the pinned or threat-flagged ones" | the subquery picks addresses, the `DELETE` takes every device's row of them |
| `sensor_outage` | `sensor/README.md:77`: "no data loss for short outages" | the buffer outgrows one batch while the hub is away; the first 200 forgets the part that was not sent |

What holds instead is checked and proved beside it: `CapturedAccounted` names the five causes a
packet can be lost for (the cut of a batch, a full buffer, a refusal, a restart, an exception of
`flush`), `OutagesWithinABatchLoseNothing` says how short an outage must be, and `ThreatLossNamed`
and `PassesSparePins` say in which ways a threat record still goes and a pinned one does not.

Other disagreements appear as the exceptions, by name, of properties that hold:

* `app.py:2630`, "the sequence number must strictly advance": a request the sensor gave
  up on may finish after its retry and store the lower number
  (`SeqAdvancesUnlessAbandoned`, `abandoned`).
* `app.py:209`, "while a device is stopped, NONE of its traffic may be processed": two
  refreshes may assign in the opposite order of their queries (`CacheTracksRows`, `trust`).
* `secret_files.py:21`, "the destination is never observed half-written": two rotations
  of one device share the temporary name, and an empty file is published
  (`KeyWholeUnlessClash`, `clashed`).
* `capture_sources.py:21` calls the tail reader robust to rotation: not for a file that was
  rotated and had grown past the old offset before the next poll (`OnceInOrder`, `doubt`).
* During the atexit cleanup (`app.py:3560`) the reader may take the worker's end for a failure
  and launch another, which then outlives the hub (`OneWorker`, `lost`).
* `app.py:3212`: the worker has a process group "so we can later kill the whole tree"; the hub
  polls and waits for its leader only, so captures of a leader that ended by itself, or on the
  first signal, are not killed and may run on beside the next worker's (`LeaderEnds`). No property
  says anything of them.

And these are facts about the code a reader of the models should know:

* `app.py:3385`: "when internal search is on, private endpoints that aren't us are stored
  too"; on the FRITZ!Box mirror the private source of a frame to a public destination is
  not, since its branch is the `elif` of the destination's (`PrivateStoredWhen`, `Due`).
* A LAN frame is seen by the sniffer and by the scanner, and both count it; the scanner goes
  on counting while the local device is stopped. `CountersExact` counts sightings. Third-party
  web traffic is reported by a sensor with one of its ends only.
* A row that takes another MAC from a packet without a vendor keeps the old one's vendor, and the
  enrichment worker's `UPDATE` skips a row that has one (`VendorIsTheMacs`, `moved`). A miss read
  before the worker learned the vendor may overwrite its hot-cache entry for up to
  `MAC_VENDOR_MISS_TTL`. An empty answer of a provider stores "Unknown" for good; a database error
  before the request parks the MAC for a day without anyone asked, while an exception after it does
  not park it.
* `save_setting` and `update_pinned_ips` swallow a database error and the handlers
  broadcast all the same; memory and pages then show what the table does not have. The second
  `load_pinned_ips` may replace the cache by what it read before a pin was committed.
  The fallback of `load_settings` has the internal search on, the table's default is off.
  Each is a cause named in `doubt`.
* Every page sends its own idea of the internal search when it connects (`socket.js:74`,
  on by default in `store.js:101`), so loading a page turns it on for the hub. It is one of
  the events of `Operator`.
* A page that reconnects keeps showing a pin removed while it was away, because the pins it
  is sent are added to those it has. An initial load that crosses a broadcast puts the page
  back to the older row until the next flush (`ConnectMissesNothing`, `putBack`).

## 7 What is not modelled

* Of the write path: an announcement that `build_ip_message` or an exception drops
  (`app.py:2197-2199`, `3042-3049`), which "at most once" allows, and a commit whose answer is
  lost, so that the code takes for failed what was stored (in the flush, where the counts of a
  batch would be taken for gone, and in registration, which then deletes the key of a row,
  `app.py:2535`). A statement that fails is one that changed nothing.
* Of the packet queue: a process that dies with items in its feeder or with a lane's read lock. A
  packet that was past the gate when its device was stopped is still processed.
* Of the capture files: records longer than `_MAX_SNAPLEN`, at which `read_new` stops for good
  (`capture_sources.py:138`); `AllRead` is about files without one.
* Inside modelled components: device names, colours and coordinates; columns of
  `ip_data` no property reads; `tcp_connections`; the order of geo and vendor providers; the
  drop counter and gauges of the packet queue; encryption and token age (a 401 that any
  request may get); the rate limit's windows (a 429 likewise); of the dashboard's stores, the
  eviction of rows at their limit.
* Planned: the components of section 8.
* Out of scope: drawing and formatting code of the dashboard, start-up scripts,
  configuration, read-only history and CSV queries, the smoke tests.
* External: PostgreSQL (a transaction is atomic and may fail), `multiprocessing.Queue`,
  the HTTP stack, the vendor and geo providers, the file system's rename.

## 8 Plan

Done, in the order of how much of the hub's behaviour depends on them: `IpStore`,
`SensorIngest`, `PacketQueue`, `DeviceControl`, `FritzCapture`, then `Delivery`, `MacVendors`,
`Capture`, `Operator`, `WriteBehind`.

Next, modules:

1. `Access`: the login limiter and the windows of both rate limits.
2. The threat lists' fetch, as an action of its own beside `IpStore`'s choice of contents.
3. `Dashboard`: the stores' eviction at their limits.

Next, theorems:

1. `PacketQueue` as two bounded bags with an atomic `put` and `get`: the refinement.
2. The marks of `MacVendors` and of `IpStore` as one abstract ownership, refined by both.
3. `DeviceControl`: a registry whose stop is one atomic step, refined while `trust` holds.
4. `IpStore`: which rows a device may have after its deletion (`app.py:2530`), as a property
   of the write path that names the buffered write as its only cause.

## 9 Running it

```
tlc -workers 2 -config IpStore.cfg MCIpStore      # each run: its cfg and its MC module
tlapm IpStoreProofs.tla                           # each proof module
```

`capture`, `ip_store` and `ip_store_live` take about a minute and a half each, `operator` and
`fritz_capture` somewhat more than one, each other run less. `PROJECT.json` lists runs, the map
from definitions to source lines, faulty variants, findings, hazards and theorems.
