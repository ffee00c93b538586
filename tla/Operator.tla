------------------------------ MODULE Operator ------------------------------
(***************************************************************************)
(* What an operator of the dashboard decides and what every dashboard      *)
(* shows: settings and pins (app.py 485-521, 1429-1453, 1521-1567,         *)
(* 3663-3686), and the first load of a client beside the live updates      *)
(* (app.py 2081-2196, 3104-3194, 3613-3659).                               *)
(*                                                                         *)
(* A setting or a pin is a key with a truth value.  It is kept three       *)
(* times: in its table (`stored'), in the memory the capture side reads    *)
(* (`shared': the two manager Values and the pin cache), and in the view   *)
(* of each client.  The threads that move it between the three hold no     *)
(* common lock: event handlers, the loading of pins that the capture       *)
(* thread repeats at start-up, and the threads that serve a client's       *)
(* initial load.  Socket.IO runs every event in a thread of its own        *)
(* (async_mode='threading') and delivers to one client in the order of the *)
(* emits, so an emit is the moment a connected client learns of it.        *)
(*                                                                         *)
(* One row of the address table stands for them all; its version is the    *)
(* number of flushes that wrote it.  Rows, settings and pins that a failed *)
(* statement loses are failed statements here too.                         *)
(***************************************************************************)
EXTENDS Integers

CONSTANTS
    Settings,     \* the settings the capture side reads (register_bool_setting with on_change)
    Pins,         \* the addresses an operator may pin
    Seeded,       \* what init_db writes into an empty settings table
    Fallback,     \* what load_settings answers when the table cannot be read
    Handlers,     \* threads serving set_* and pin_ip events
    Readers,      \* threads serving connect and request_initial_data
    Clients,      \* browsers
    Hub,          \* the hub itself, among those that remember a key
    Nobody,
    MaxRow, MaxIncidents   \* bounds of the model

ASSUME KeysAssumption ==
    /\ Settings \cap Pins = {}
    /\ Seeded \in [Settings -> BOOLEAN]
    /\ Fallback \in [Settings -> BOOLEAN]
    /\ MaxRow \in Nat
    /\ Hub \notin Clients /\ Nobody \notin Clients \cup Handlers

Keys == Settings \cup Pins

\* old, but for the keys in new's domain ks.
Over(new, ks, old) == [k \in Keys |-> IF k \in ks THEN new[k] ELSE old[k]]

VARIABLES
    stored,    \* the settings and pinned_ips tables
    shared,    \* is_internal_search_active, showAllUDPPackets, pinned_ips_cache
    dbLock,    \* the handler inside db_lock, or Nobody
    handler,   \* each event thread
    loader,    \* the capture thread's load_pinned_ips
    online,    \* clients with a connected socket
    view,      \* what each client shows
    reader,    \* each thread sending a client its initial data
    row,       \* version of the row in ip_data
    unsent,    \* version the flusher has committed and not yet emitted, or 0
    shown,     \* version each client shows: what it was sent last
    waiting,   \* clients whose initial rows have not reached them
    putBack,   \* history: clients an initial load put back to an older version
    doubt,     \* history: keys a holder may show wrongly, and why (see Doubtful)
    incidents  \* events, initial loads, restarts and failed statements so far

tables  == <<stored, shared, dbLock, loader>>
clients == <<online, view, reader>>
rows    == <<row, unsent, shown, waiting, putBack>>
vars    == <<tables, handler, clients, rows, doubt, incidents>>

Unpinned == [p \in Pins |-> FALSE]
Idle     == [pc |-> "idle"]
Event    == [pc : {"apply", "save", "commit", "tell"}, key : Keys, value : BOOLEAN,
             lone : BOOLEAN, saved : BOOLEAN]
Reading  == [pc : {"settings", "rows", "pins"}, client : Clients]
Telling(what, read) == [pc : {what}, client : Clients, read : read, dirty : SUBSET Keys]
Load     == Reading \cup Telling("tell settings", [Settings -> BOOLEAN])
                    \cup Telling("tell pins", [Pins -> BOOLEAN])
                    \cup [pc : {"tell rows"}, client : Clients, version : 0 .. MaxRow]
PinLoad  == [pc : {"query", "done"}]
            \cup [pc : {"assign"}, read : [Pins -> BOOLEAN], dirty : SUBSET Pins]

TypeOK ==
    /\ stored \in [Keys -> BOOLEAN] /\ shared \in [Keys -> BOOLEAN]
    /\ dbLock \in Handlers \cup {Nobody}
    /\ handler \in [Handlers -> Event \cup {Idle}]
    /\ loader \in PinLoad
    /\ online \in SUBSET Clients
    /\ view \in [Clients -> [Keys -> BOOLEAN]]
    /\ reader \in [Readers -> Load \cup {Idle}]
    /\ row \in 0 .. MaxRow /\ unsent \in 0 .. MaxRow
    /\ shown \in [Clients -> 0 .. MaxRow]
    /\ waiting \in SUBSET Clients /\ putBack \in SUBSET Clients
    /\ doubt \in [Clients \cup {Hub} -> SUBSET Keys]

Busy(h) == handler[h].pc # "idle"
Serves(r, c) == reader[r].pc # "idle" /\ reader[r].client = c
BusyWith(k) == {h \in Handlers : Busy(h) /\ handler[h].key = k}
Incident == incidents < MaxIncidents /\ incidents' = incidents + 1

StatementFails == Incident

Init ==
    /\ stored = Over(Seeded, Settings, Unpinned) /\ shared = stored
    /\ dbLock = Nobody
    /\ handler = [h \in Handlers |-> Idle]
    /\ loader = [pc |-> "query"]
    /\ online = {} /\ view = [c \in Clients |-> Over(Fallback, Settings, Unpinned)]
    /\ reader = [r \in Readers |-> Idle]
    /\ row = 0 /\ unsent = 0
    /\ shown = [c \in Clients |-> 0] /\ waiting = {} /\ putBack = {}
    /\ doubt = [x \in Clients \cup {Hub} |-> {}]
    /\ incidents = 0

-----------------------------------------------------------------------------
(***************************************************************************)
(* A set_* or pin_ip event.  A setting is applied, saved and broadcast,    *)
(* the save alone under db_lock; a pin changes the cache inside the        *)
(* transaction.  The save swallows a database error, so the broadcast goes *)
(* out whatever became of it.                                              *)
(***************************************************************************)
Receive(h, k, v) ==
    /\ handler[h].pc = "idle"
    /\ Incident
    /\ handler' = [g \in Handlers |->
          IF g = h THEN [pc |-> IF k \in Settings THEN "apply" ELSE "save",
                         key |-> k, value |-> v, lone |-> BusyWith(k) = {}, saved |-> FALSE]
          ELSE IF g \in BusyWith(k) THEN [handler[g] EXCEPT !.lone = FALSE]
          ELSE handler[g]]
    /\ UNCHANGED <<tables, clients, rows, doubt>>

Step(h, pc) == handler' = [handler EXCEPT ![h].pc = pc]

Apply(h) ==
    /\ handler[h].pc = "apply"
    /\ shared' = [shared EXCEPT ![handler[h].key] = handler[h].value]
    /\ Step(h, "save")
    /\ UNCHANGED <<stored, dbLock, loader, clients, rows, doubt, incidents>>

NotCached(k, v) == IF k \in Pins /\ v THEN [shared EXCEPT ![k] = v] ELSE shared
Cached(k, v)    == IF k \in Pins THEN [shared EXCEPT ![k] = v] ELSE shared

\* The statement of save_setting or update_pinned_ips, db_lock taken first.
Write(h) ==
    LET k == handler[h].key IN
    /\ handler[h].pc = "save" /\ dbLock = Nobody
    /\ dbLock' = h
    /\ shared' = Cached(k, handler[h].value)
    /\ doubt' = [doubt EXCEPT ![Hub] = @ \ (Pins \cap {k})]
    /\ Step(h, "commit")
    /\ UNCHANGED <<stored, loader, clients, rows, incidents>>

WriteFails(h) ==
    /\ handler[h].pc = "save" /\ dbLock = Nobody
    /\ StatementFails
    /\ Step(h, "tell")
    /\ UNCHANGED <<tables, clients, rows, doubt>>

Commit(h) ==
    LET k == handler[h].key IN
    /\ handler[h].pc = "commit"
    /\ stored' = [stored EXCEPT ![k] = handler[h].value]
    /\ dbLock' = Nobody
    /\ handler' = [handler EXCEPT ![h].pc = "tell", ![h].saved = TRUE]
    /\ loader' = IF loader.pc = "assign" THEN [loader EXCEPT !.dirty = @ \cup (Pins \cap {k})]
                 ELSE loader
    /\ UNCHANGED <<shared, clients, rows, doubt, incidents>>

CommitFails(h) ==
    /\ handler[h].pc = "commit"
    /\ StatementFails
    /\ dbLock' = Nobody
    /\ doubt' = [doubt EXCEPT ![Hub] = @ \cup {handler[h].key}]
    /\ Step(h, "tell")
    /\ UNCHANGED <<stored, shared, loader, clients, rows>>

AudienceLoaded == online \ waiting
Audience       == online

\* The initial loads that read k before this broadcast and send it after.
Overtaken(k, loads) ==
    [r \in Readers |-> IF loads[r].pc \in {"tell settings", "tell pins"}
                       THEN [loads[r] EXCEPT !.dirty = @ \cup {k}] ELSE loads[r]]

Tell(h) ==
    LET k == handler[h].key
        clean == handler[h].lone /\ handler[h].saved
    IN
    /\ handler[h].pc = "tell"
    /\ view' = [c \in Clients |-> IF c \in Audience THEN [view[c] EXCEPT ![k] = handler[h].value]
                                  ELSE view[c]]
    /\ reader' = Overtaken(k, reader)
    /\ doubt' = [x \in Clients \cup {Hub} |->
          IF x = Hub /\ k \in Pins THEN doubt[x]
          ELSE IF ~clean THEN doubt[x] \cup {k}
          ELSE IF x \in online \cup {Hub} THEN doubt[x] \ {k}
          ELSE doubt[x]]
    /\ handler' = [handler EXCEPT ![h] = Idle]
    /\ UNCHANGED <<tables, online, rows, incidents>>

HandlerStep(h) ==
    \/ \E k \in Keys, v \in BOOLEAN : Receive(h, k, v)
    \/ Apply(h) \/ Write(h) \/ WriteFails(h) \/ Commit(h) \/ CommitFails(h) \/ Tell(h)

-----------------------------------------------------------------------------
(***************************************************************************)
(* load_pinned_ips as start_sniffing repeats it (init_db runs twice): a    *)
(* query without db_lock, then an assignment of the whole cache.           *)
(***************************************************************************)
PinsStored == [p \in Pins |-> stored[p]]

QueryPins ==
    /\ loader.pc = "query"
    /\ \/ loader' = [pc |-> "assign", read |-> PinsStored, dirty |-> {}] /\ UNCHANGED incidents
       \/ loader' = [pc |-> "done"] /\ StatementFails
    /\ UNCHANGED <<stored, shared, dbLock, handler, clients, rows, doubt>>

InTransaction == {handler[h].key : h \in {g \in Handlers : handler[g].pc = "commit"}} \cap Pins

AssignPins ==
    /\ loader.pc = "assign"
    /\ shared' = Over(loader.read, Pins, shared)
    /\ doubt' = [doubt EXCEPT ![Hub] = (@ \ Pins) \cup loader.dirty \cup InTransaction]
    /\ loader' = [pc |-> "done"]
    /\ UNCHANGED <<stored, dbLock, handler, clients, rows, incidents>>

\* The main thread's reads at start-up: load_pinned_ips and load_settings,
\* either of which may fail and leave an empty cache or the fallback.
Restart ==
    /\ Incident
    /\ \E settingsRead, pinsRead \in BOOLEAN :
          /\ shared' = Over(IF settingsRead THEN stored ELSE Fallback, Settings,
                            IF pinsRead THEN stored ELSE Unpinned)
          /\ doubt' = [doubt EXCEPT ![Hub] = (IF settingsRead THEN {} ELSE Settings)
                                             \cup (IF pinsRead THEN {} ELSE Pins)]
    /\ dbLock' = Nobody /\ loader' = [pc |-> "query"]
    /\ handler' = [h \in Handlers |-> Idle] /\ reader' = [r \in Readers |-> Idle]
    /\ online' = {} /\ waiting' = {} /\ unsent' = 0
    /\ UNCHANGED <<stored, view, row, shown, putBack>>

-----------------------------------------------------------------------------
(***************************************************************************)
(* Rows: flush_ip_writes commits a batch under db_lock and broadcasts it   *)
(* after releasing the lock.                                               *)
(***************************************************************************)
\* applyIpUpdate overwrites what the page shows, whatever it is.
Shown(audience, version) == [c \in Clients |-> IF c \in audience THEN version ELSE shown[c]]

Flush ==
    /\ unsent = 0 /\ row < MaxRow /\ dbLock = Nobody
    /\ row' = row + 1 /\ unsent' = row'
    /\ UNCHANGED <<tables, handler, clients, shown, waiting, putBack, doubt, incidents>>

Broadcast ==
    /\ unsent # 0
    /\ shown' = Shown(Audience, unsent) /\ putBack' = putBack \ online
    /\ unsent' = 0
    /\ UNCHANGED <<tables, handler, clients, row, waiting, doubt, incidents>>

-----------------------------------------------------------------------------
(***************************************************************************)
(* A client connects: from then on it receives every broadcast, while a    *)
(* thread reads and sends settings, rows and pins in turn.  A page that    *)
(* reconnects keeps what it shows; a page that loads starts empty.         *)
(***************************************************************************)
Connect(c, r, fresh) ==
    /\ c \notin online /\ reader[r].pc = "idle"
    /\ Incident
    /\ online' = online \cup {c} /\ waiting' = waiting \cup {c}
    /\ reader' = [reader EXCEPT ![r] = [pc |-> "settings", client |-> c]]
    /\ view' = [view EXCEPT ![c] = IF fresh THEN Over(Fallback, Settings, Unpinned) ELSE @]
    /\ shown' = [shown EXCEPT ![c] = IF fresh THEN 0 ELSE @] /\ putBack' = putBack \ {c}
    /\ doubt' = [doubt EXCEPT ![c] = Keys]
    /\ UNCHANGED <<tables, handler, row, unsent>>

\* What the threads of a closed connection still send reaches nobody.
Disconnect(c) ==
    /\ c \in online
    /\ online' = online \ {c} /\ waiting' = waiting \ {c}
    /\ reader' = [r \in Readers |-> IF Serves(r, c) THEN Idle
                                    ELSE reader[r]]
    /\ UNCHANGED <<tables, handler, view, row, unsent, shown, putBack, doubt, incidents>>

RequestInitialData(c, r) ==
    /\ c \in online /\ reader[r].pc = "idle"
    /\ Incident
    /\ reader' = [reader EXCEPT ![r] = [pc |-> "settings", client |-> c]]
    /\ UNCHANGED <<tables, handler, online, view, rows, doubt>>

Goes(r, to) == reader' = [reader EXCEPT ![r] = to]

\* load_settings: an unreadable table yields the fallback, which is sent.
ReadSettings(r) ==
    LET c == reader[r].client IN
    /\ reader[r].pc = "settings"
    /\ \/ Goes(r, [pc |-> "tell settings", client |-> c, read |-> [k \in Settings |-> stored[k]], dirty |-> {}])
          /\ UNCHANGED incidents
       \/ Goes(r, [pc |-> "tell settings", client |-> c, read |-> Fallback, dirty |-> Settings])
          /\ StatementFails
    /\ UNCHANGED <<tables, handler, online, view, rows, doubt>>

TellSettings(r) ==
    LET c == reader[r].client IN
    /\ reader[r].pc = "tell settings"
    /\ view' = [view EXCEPT ![c] = Over(reader[r].read, Settings, @)]
    /\ doubt' = [doubt EXCEPT ![c] = (@ \ Settings) \cup (reader[r].dirty \cap Settings)]
    /\ Goes(r, [pc |-> "rows", client |-> c])
    /\ UNCHANGED <<tables, handler, online, rows, incidents>>

\* send_all_ips_to_client: one read without db_lock; if it fails nothing is sent.
ReadRows(r) ==
    LET c == reader[r].client IN
    /\ reader[r].pc = "rows"
    /\ \/ Goes(r, [pc |-> "tell rows", client |-> c, version |-> row]) /\ UNCHANGED incidents
       \/ Goes(r, [pc |-> "pins", client |-> c]) /\ StatementFails
    /\ UNCHANGED <<tables, handler, online, view, rows, doubt>>

TellRows(r) ==
    LET c == reader[r].client
        v == reader[r].version
    IN
    /\ reader[r].pc = "tell rows"
    /\ shown' = Shown({c}, v)
    /\ putBack' = IF v < shown[c] THEN putBack \cup {c}
                  ELSE IF v = row THEN putBack \ {c} ELSE putBack
    /\ waiting' = waiting \ {c}
    /\ Goes(r, [pc |-> "pins", client |-> c])
    /\ UNCHANGED <<tables, handler, online, view, row, unsent, doubt, incidents>>

ReadPins(r) ==
    /\ reader[r].pc = "pins"
    /\ \/ Goes(r, [pc |-> "tell pins", client |-> reader[r].client, read |-> PinsStored, dirty |-> {}])
          /\ UNCHANGED incidents
       \/ Goes(r, Idle) /\ StatementFails
    /\ UNCHANGED <<tables, handler, online, view, rows, doubt>>

\* The page adds the pins it is sent and takes none away.
Pinned(old, read) == [k \in Keys |-> old[k] \/ (k \in Pins /\ read[k])]

TellPins(r) ==
    LET c == reader[r].client
        extra == {p \in Pins : view[c][p] /\ ~reader[r].read[p]}
    IN
    /\ reader[r].pc = "tell pins"
    /\ view' = [view EXCEPT ![c] = Pinned(@, reader[r].read)]
    /\ doubt' = [doubt EXCEPT ![c] = (@ \ (Pins \ extra)) \cup (reader[r].dirty \cap Pins)]
    /\ Goes(r, Idle)
    /\ UNCHANGED <<tables, handler, online, rows, incidents>>

ReaderStep(r) ==
    \/ ReadSettings(r) \/ TellSettings(r)
    \/ ReadRows(r) \/ TellRows(r)
    \/ ReadPins(r) \/ TellPins(r)

Next ==
    \/ \E h \in Handlers : HandlerStep(h)
    \/ \E r \in Readers : ReaderStep(r)
    \/ \E c \in Clients, r \in Readers :
          RequestInitialData(c, r) \/ \E fresh \in BOOLEAN : Connect(c, r, fresh)
    \/ \E c \in Clients : Disconnect(c)
    \/ QueryPins \/ AssignPins
    \/ Flush \/ Broadcast
    \/ Restart

Spec == Init /\ [][Next]_vars

-----------------------------------------------------------------------------
(***************************************************************************)
(* Doubtful keys.  doubt[x] holds the keys about which x may be wrong for  *)
(* a named reason: two events on the key at once, a save that failed       *)
(* although it was broadcast, an initial load or a pin load that crossed   *)
(* an event or could not read the table, and a pin removed while the page  *)
(* was away.  The next event on the key that runs alone and succeeds, or   *)
(* the next clean load, takes the key out again.                           *)
(***************************************************************************)

\* What the capture side reads is what the table says, once no event on the
\* key is under way: a setting switches capture, and a pin keeps an address
\* of the internal network recorded (app.py 3357-3362), only as stored.
SharedTracksStored ==
    \A k \in Keys \ doubt[Hub] : BusyWith(k) = {} => shared[k] = stored[k]

\* Every connected page shows what is stored, so all agree: neither
\* the fan-out of an event nor the three reads of the first load lets a
\* change slip between them.
PagesAgree ==
    \A c \in online : \A k \in Keys \ doubt[c] :
        BusyWith(k) = {} => view[c][k] = stored[k]

\* No client misses a row: once the initial rows have reached it, it shows the
\* latest version the flusher committed and broadcast, or an initial load that
\* crossed a broadcast put an older one over a newer, until the next.  The
\* read takes no lock; joining before reading is what closes the gap.
ConnectMissesNothing ==
    \A c \in online \ waiting : unsent = 0 => shown[c] = row \/ c \in putBack
=============================================================================
