---------------------------- MODULE DeviceControl ----------------------------
(***************************************************************************)
(* The device registry: the devices table, the in-memory set of stopped    *)
(* devices the packet workers consult, and the key file of each sensor.    *)
(* Web requests (register, start, stop, delete, rotate-key) run on threads *)
(* of their own and interleave between their database statements and file  *)
(* operations.                                                             *)
(*                                                                         *)
(* Abstractions.  Names and colours are left out (their PATCH changes      *)
(* nothing else); a key is the number of the write that stored it, so the  *)
(* inode a thread writes to and the key it holds share that number; ids    *)
(* are fresh, so a deleted device does not come back; traffic only reads   *)
(* the set.  Variants named after a definition (ReplaceFirst, SeenAdded)   *)
(* are faults no specification uses.                                       *)
(***************************************************************************)
EXTENDS Naturals, FiniteSets

CONSTANTS
  Admins,    \* threads serving the device API
  Sensors,   \* ids register can hand out
  BuiltIn,   \* the local and the FritzDump device: no key, never deleted
  FritzDump, \* the latter
  MaxKeys    \* model bound: keys generated

ASSUME DeviceControlAssumption ==
  /\ Sensors \cap BuiltIn = {} /\ IsFiniteSet(Sensors) /\ MaxKeys \in Nat
  /\ FritzDump \in BuiltIn

VARIABLES
  row,       \* table devices: absent, enabled, disabled, or deleted
  stopped,   \* disabled_devices
  forced,    \* devices this process holds stopped whatever their row says
  file,      \* the key file of a sensor: which write it is, 0 when absent
  tmp,       \* its temporary file, likewise
  written,   \* the writes whose data is in their inode
  admin,     \* where each request is
  keys,      \* keys generated
  trust,     \* history: how far the last refreshes can be relied on
  clashed    \* history: sensors whose key two requests wrote at once

requests == <<row, file, tmp, written, admin, keys, clashed>>
cache == <<stopped, forced, trust>>
vars == <<requests, cache>>

Devices == Sensors \cup BuiltIn

\* What a refresh finds stopped: the rows disabled, and the FritzDump device when
\* the module is switched off (not FRITZDUMP_ENABLED).
Off == {d \in Devices : row[d] = "disabled"} \cup forced
ForcedSets == {{}, {FritzDump}}

Steps == {"unlinkTmp", "open", "write", "replace", "cleanTmp", "chmod", "insert", "undo",
          "update", "delete", "unlinkKey", "select", "assign"}
Admin == [pc: Steps, op: {"register", "start", "stop", "delete", "rotate"},
          dev: Devices, key: Nat, seen: SUBSET Devices]
Idle == [pc |-> "idle"]

TypeOK ==
  /\ row \in [Devices -> {"absent", "enabled", "disabled", "deleted"}]
  /\ stopped \subseteq Devices /\ forced \in ForcedSets
  /\ file \in [Sensors -> 0..MaxKeys] /\ tmp \in [Sensors -> 0..MaxKeys]
  /\ written \subseteq 1..MaxKeys
  /\ admin \in [Admins -> Admin \cup {Idle}]
  /\ keys \in 0..MaxKeys
  /\ trust \in {"clean", "recovering", "overlapped", "failed"}
  /\ clashed \subseteq Sensors
  /\ \A d \in Sensors : tmp[d] # 0 => tmp[d] # file[d]   \* an inode has one name

Init ==
  /\ row \in [Devices -> {"absent", "enabled", "disabled"}]
  /\ \A d \in Sensors : row[d] = "absent"
  /\ \A d \in BuiltIn : row[d] # "absent"
  /\ forced \in ForcedSets /\ stopped = Off
  /\ file = [d \in Sensors |-> 0] /\ tmp = [d \in Sensors |-> 0]
  /\ written = {}
  /\ admin = [t \in Admins |-> Idle]
  /\ keys = 0
  /\ trust = "clean"
  /\ clashed = {}

At(t, pc) == admin[t].pc = pc
Goto(t, pc) == admin' = [admin EXCEPT ![t].pc = pc]
Done(t) == admin' = [admin EXCEPT ![t] = Idle]

-------------------------------------------------------------------------------
(* Requests.                                                               *)

\* A request passes its checks (for all but register, get_device) and goes to
\* its first statement.  generate_key draws a fresh key.
Enter(t, op, d, pc, key) ==
  /\ admin[t] = Idle
  /\ admin' = [admin EXCEPT ![t] = [pc |-> pc, op |-> op, dev |-> d, key |-> key, seen |-> {}]]

Known(d) == row[d] \in {"enabled", "disabled"}

\* History: two requests were writing the key file of a device at once.
Writing(d) == \E t \in Admins : admin[t].pc \in {"unlinkTmp", "open", "write", "replace", "cleanTmp", "chmod"}
                                /\ admin[t].dev = d
Clash(d) == clashed' = IF Writing(d) THEN clashed \cup {d} ELSE clashed

\* register: the key file first, the row second.
RowFirst == "insert"
KeyFirst == "unlinkTmp"

Register(t, d) ==
  /\ row[d] = "absent" /\ ~\E u \in Admins : admin[u] # Idle /\ admin[u].dev = d
  /\ file[d] = 0 /\ tmp[d] = 0 /\ keys < MaxKeys
  /\ keys' = keys + 1
  /\ Enter(t, "register", d, KeyFirst, keys + 1)
  /\ UNCHANGED <<row, file, tmp, written, clashed, cache>>

Rotate(t, d) ==
  /\ Known(d) /\ keys < MaxKeys
  /\ keys' = keys + 1
  /\ Enter(t, "rotate", d, "unlinkTmp", keys + 1)
  /\ Clash(d)
  /\ UNCHANGED <<row, file, tmp, written, cache>>

StartStop(t, d, op) ==
  /\ Known(d)
  /\ Enter(t, op, d, "update", 0)
  /\ UNCHANGED <<row, file, tmp, written, keys, clashed, cache>>

Delete(t, d) ==
  /\ Known(d)
  /\ Enter(t, "delete", d, "delete", 0)
  /\ UNCHANGED <<row, file, tmp, written, keys, clashed, cache>>

\* The statement of the row; a database error ends the request (after it removed
\* the key, when it was registering).
NextRow(op, d) ==
  CASE op = "register" -> "enabled"
    [] op = "delete"   -> "deleted"
    [] op \in {"start", "stop"} /\ ~Known(d) -> row[d]
    [] op = "start" /\ Known(d) -> "enabled"
    [] op = "stop" /\ Known(d)  -> "disabled"

AfterRow(op) == IF op = "delete" THEN "unlinkKey" ELSE "select"

ChangeRow(t) ==
  LET op == admin[t].op
      d == admin[t].dev
  IN
  /\ admin[t].pc \in {"insert", "update", "delete"}
  /\ \/ /\ row' = [row EXCEPT ![d] = NextRow(op, d)]
        /\ IF op = "register" THEN Done(t) ELSE Goto(t, AfterRow(op))
     \/ /\ IF op = "register" THEN Goto(t, "undo") ELSE Done(t)
        /\ UNCHANGED row
  /\ UNCHANGED <<file, tmp, written, keys, clashed, cache>>

\* delete_device_key, by DELETE or by a registration whose INSERT failed.
UnlinkKey(t) ==
  /\ admin[t].pc \in {"unlinkKey", "undo"}
  /\ file' = [file EXCEPT ![admin[t].dev] = 0]
  /\ IF At(t, "undo") THEN Done(t) ELSE Goto(t, "select")
  /\ UNCHANGED <<row, tmp, written, keys, clashed, cache>>

-------------------------------------------------------------------------------
(* write_secret_file.  The temporary name holds only the file's name and   *)
(* the process id, so threads of the hub share it.                         *)

UnlinkTmp(t) ==
  /\ At(t, "unlinkTmp")
  /\ tmp' = [tmp EXCEPT ![admin[t].dev] = 0]
  /\ Goto(t, "open")
  /\ UNCHANGED <<row, file, written, keys, clashed, cache>>

\* The data is written before the name is changed.
ReplaceFirst == "replace"
WriteFirst == "write"

\* O_CREAT|O_EXCL: FileExistsError when the name is taken again.
OpenTmp(t) ==
  LET d == admin[t].dev IN
  /\ At(t, "open")
  /\ IF tmp[d] # 0
     THEN Done(t) /\ UNCHANGED tmp
     ELSE /\ tmp' = [tmp EXCEPT ![d] = admin[t].key]
          /\ Goto(t, WriteFirst)
  /\ UNCHANGED <<row, file, written, keys, clashed, cache>>

\* The data goes to the inode the thread opened, whatever its name is by now;
\* or the disk is full.
WriteKey(t) ==
  /\ At(t, "write")
  /\ \/ written' = written \cup {admin[t].key} /\ Goto(t, "replace")
     \/ Goto(t, "cleanTmp") /\ UNCHANGED written
  /\ UNCHANGED <<row, file, tmp, keys, clashed, cache>>

Linked(d) == tmp
Renamed(d) == [tmp EXCEPT ![d] = 0]

\* os.replace: the temporary name, whoever's inode it is, becomes the key file.
\* FileNotFoundError when another thread has moved it.
ReplaceKey(t) ==
  LET d == admin[t].dev IN
  /\ At(t, "replace")
  /\ IF tmp[d] = 0
     THEN Goto(t, "cleanTmp") /\ UNCHANGED <<file, tmp>>
     ELSE /\ file' = [file EXCEPT ![d] = tmp[d]]
          /\ tmp' = Renamed(d)
          /\ Goto(t, "chmod")
  /\ UNCHANGED <<row, written, keys, clashed, cache>>

\* The except clause unlinks the temporary name and raises.
CleanTmp(t) ==
  /\ At(t, "cleanTmp")
  /\ tmp' = [tmp EXCEPT ![admin[t].dev] = 0]
  /\ Done(t)
  /\ UNCHANGED <<row, file, written, keys, clashed, cache>>

\* chmod fails when the file is gone: the request then ends here too.
ChmodKey(t) ==
  /\ At(t, "chmod")
  /\ IF admin[t].op = "register" /\ file[admin[t].dev] # 0 THEN Goto(t, "insert") ELSE Done(t)
  /\ UNCHANGED <<row, file, tmp, written, keys, clashed, cache>>

-------------------------------------------------------------------------------
(* refresh_disabled_devices.                                               *)

Refreshing == {t \in Admins : At(t, "assign")}

\* SELECT ... WHERE enabled = FALSE, and the FritzDump device when it is forced.  A
\* database error leaves the set alone.  History: a query that overlaps another
\* refresh, or fails, costs the set its trust until one runs alone to its end.
Alone == IF trust = "clean" THEN "clean" ELSE "recovering"

Select(t) ==
  /\ At(t, "select")
  /\ \/ /\ admin' = [admin EXCEPT ![t].pc = "assign", ![t].seen = Off]
        /\ trust' = IF Refreshing = {} THEN Alone ELSE "overlapped"
     \/ /\ Done(t)
        /\ trust' = "failed"
  /\ UNCHANGED <<row, stopped, forced, file, tmp, written, keys, clashed>>

\* with locked(disabled_devices_lock): disabled_devices = ids
SeenAdded(t) == stopped \cup admin[t].seen
Seen(t) == admin[t].seen

Assign(t) ==
  /\ At(t, "assign")
  /\ stopped' = Seen(t)
  /\ trust' = IF trust = "recovering" THEN "clean" ELSE trust
  /\ Done(t)
  /\ UNCHANGED <<row, forced, file, tmp, written, keys, clashed>>

-------------------------------------------------------------------------------
\* The process ends; the next one may be configured differently.  init_db primes
\* the set again, or finds no database: then nothing is stopped, forced or not.
Restart ==
  /\ UNCHANGED <<row, file, tmp, written, keys, clashed>>
  /\ admin' = [t \in Admins |-> Idle]
  /\ forced' \in ForcedSets
  /\ \/ stopped' = Off' /\ trust' = "clean"
     \/ stopped' = {} /\ trust' = "failed"

Request(t) ==
  \/ \E d \in Sensors : Register(t, d) \/ Rotate(t, d) \/ Delete(t, d)
  \/ \E d \in Devices, op \in {"start", "stop"} : StartStop(t, d, op)

RequestStep(t) ==
  \/ ChangeRow(t) \/ UnlinkKey(t) \/ Select(t) \/ Assign(t)
  \/ UnlinkTmp(t) \/ OpenTmp(t) \/ WriteKey(t) \/ ReplaceKey(t) \/ CleanTmp(t) \/ ChmodKey(t)

Next ==
  \/ \E t \in Admins : Request(t) \/ RequestStep(t)
  \/ Restart

Spec == Init /\ [][Next]_vars

-------------------------------------------------------------------------------
(* Properties.                                                             *)

\* The set in memory agrees with the table and the configuration on every device
\* no request is between its commit and the end of its refresh for, whatever other
\* requests are doing to other devices, unless refreshes overlapped or failed and
\* none has run alone to its end since (app.py:206-211).
Pending(d) == \E t \in Admins : admin[t].pc \in {"unlinkKey", "select", "assign"} /\ admin[t].dev = d
CacheTracksRows ==
  trust = "clean" => \A d \in Devices : ~Pending(d) => (d \in stopped <=> d \in Off)

\* A registered sensor always has a key file: register writes the file before the
\* row, delete removes the row before the file, through any crash in between.
RowHasKey == \A d \in Sensors : Known(d) => file[d] # 0

\* A key file is never seen half-written, over crashes too, unless two requests
\* wrote the same device's key at once.
KeyWholeUnlessClash ==
  \A d \in Sensors : file[d] # 0 /\ d \notin clashed => file[d] \in written
==============================================================================
