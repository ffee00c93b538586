-------------------------- MODULE DeviceControlProofs --------------------------
(***************************************************************************)
(* The properties of DeviceControl, for any threads, devices and number of *)
(* keys.  The invariant has four layers: where a request is and which key  *)
(* it holds; what its place says of the row and the key file; who writes   *)
(* which key; what the set of stopped devices can be trusted for.          *)
(***************************************************************************)
EXTENDS DeviceControl, TLAPS

USE DeviceControlAssumption

(***************************************************************************)
(* How a request moves.                                                    *)
(***************************************************************************)
Typed(f) == f \in [Admins -> Admin \cup {Idle}]

OthersStay(t) == \A u \in Admins : u # t => admin'[u] = admin[u]

Goes(t, pc) ==
  /\ admin'[t].pc = pc
  /\ admin'[t].op = admin[t].op
  /\ admin'[t].dev = admin[t].dev
  /\ admin'[t].key = admin[t].key

Moves(t) == Typed(admin') /\ OthersStay(t)

LEMMA Busy ==
  ASSUME Typed(admin), NEW t \in Admins, admin[t].pc # "idle"
  PROVE  /\ admin[t].pc \in Steps /\ admin[t].dev \in Devices /\ admin[t].key \in Nat
         /\ admin[t].op \in {"register", "start", "stop", "delete", "rotate"}
         /\ admin[t].seen \in SUBSET Devices /\ admin[t] \in Admin
BY DEF Typed, Admin, Idle

LEMMA Going ==
  ASSUME Typed(admin), NEW t \in Admins, admin[t].pc # "idle", NEW pc \in Steps, Goto(t, pc)
  PROVE  Moves(t) /\ Goes(t, pc) /\ admin'[t].seen = admin[t].seen
<1>1. admin'[t] = [admin[t] EXCEPT !.pc = pc] /\ OthersStay(t)
  BY DEF Typed, Goto, OthersStay
<1>2. admin[t] \in Admin
  BY Busy
<1>3. [admin[t] EXCEPT !.pc = pc] \in Admin
  BY <1>2 DEF Admin
<1> QED
  BY <1>1, <1>2, <1>3 DEF Typed, Goto, Moves, Goes, Admin

LEMMA Ending ==
  ASSUME Typed(admin), NEW t \in Admins, Done(t)
  PROVE  Moves(t) /\ admin'[t] = Idle /\ admin'[t].pc = "idle"
BY DEF Typed, Done, Moves, OthersStay, Idle

LEMMA Entering ==
  ASSUME Typed(admin), NEW t \in Admins, NEW pc \in Steps, NEW d \in Devices, NEW key \in Nat,
         NEW op \in {"register", "start", "stop", "delete", "rotate"}, Enter(t, op, d, pc, key)
  PROVE  /\ Moves(t) /\ admin[t].pc = "idle"
         /\ admin'[t].pc = pc /\ admin'[t].op = op /\ admin'[t].dev = d /\ admin'[t].key = key
<1> DEFINE new == [pc |-> pc, op |-> op, dev |-> d, key |-> key, seen |-> {}]
<1>1. new \in Admin
  BY DEF Admin
<1>2. admin' = [admin EXCEPT ![t] = new] /\ admin[t] = Idle
  BY DEF Enter
<1> QED
  BY <1>1, <1>2 DEF Typed, Moves, OthersStay, Idle

\* What a refresh can find stopped are devices.
LEMMA OffTyped ==
  /\ forced \in ForcedSets => Off \subseteq Devices
  /\ forced' \in ForcedSets => Off' \subseteq Devices
BY DEF ForcedSets, Off, Devices

LEMMA Querying ==
  ASSUME Typed(admin), forced \in ForcedSets, NEW t \in Admins, admin[t].pc # "idle",
         admin' = [admin EXCEPT ![t].pc = "assign", ![t].seen = Off]
  PROVE  Moves(t) /\ Goes(t, "assign") /\ admin'[t].seen = Off
<1>1. admin[t] \in Admin /\ Off \subseteq Devices
  BY Busy, OffTyped
<1>2. admin'[t] = [admin[t] EXCEPT !.pc = "assign", !.seen = Off] /\ OthersStay(t)
  BY DEF Typed, OthersStay
<1>3. [admin[t] EXCEPT !.pc = "assign", !.seen = Off] \in Admin
  BY <1>1 DEF Admin, Steps
<1>4. Typed(admin')
  BY <1>3 DEF Typed
<1> QED
  BY <1>1, <1>2, <1>4 DEF Moves, Goes, Admin

(***************************************************************************)
(* First layer: types, the operation behind each place, and fresh keys.    *)
(***************************************************************************)
WritingSteps == {"unlinkTmp", "open", "write", "replace", "cleanTmp", "chmod"}

OpOf(pc) ==
  IF pc \in WritingSteps THEN {"register", "rotate"}
  ELSE IF pc \in {"insert", "undo"} THEN {"register"}
  ELSE IF pc = "update" THEN {"start", "stop"}
  ELSE IF pc \in {"delete", "unlinkKey"} THEN {"delete"}
  ELSE {"start", "stop", "delete"}

OpsMatch ==
  \A t \in Admins : admin[t].pc # "idle" =>
    /\ admin[t].op \in OpOf(admin[t].pc)
    /\ admin[t].op \in {"register", "rotate", "delete"} => admin[t].dev \in Sensors

\* Threads that have a key and no inode for it yet.
HoldsKey(t) == admin[t].pc \in {"unlinkTmp", "open"}
HasInode(t) == admin[t].pc \in {"write", "replace"}

KeysDrawn ==
  /\ \A d \in Sensors : file[d] <= keys /\ tmp[d] <= keys
  /\ \A t \in Admins : HoldsKey(t) \/ HasInode(t) => admin[t].key \in 1..keys
KeysFresh ==
  \A t \in Admins : HoldsKey(t) =>
    /\ \A d \in Sensors : file[d] # admin[t].key /\ tmp[d] # admin[t].key
    /\ \A u \in Admins : HoldsKey(u) /\ u # t => admin[u].key # admin[t].key

TypeInv == TypeOK /\ OpsMatch /\ KeysDrawn /\ KeysFresh

LEMMA TypeInit == Init => TypeInv
<1> SUFFICES ASSUME Init PROVE TypeInv
  OBVIOUS
<1>1. \A t \in Admins : admin[t] = Idle /\ admin[t].pc = "idle"
  BY DEF Init, Idle
<1>2. TypeOK
  BY <1>1, OffTyped DEF Init, TypeOK
<1>3. OpsMatch
  BY <1>1 DEF OpsMatch
<1>4. KeysDrawn /\ KeysFresh
  BY <1>1 DEF KeysDrawn, KeysFresh, HoldsKey, HasInode, Init
<1> QED
  BY <1>2, <1>3, <1>4 DEF TypeInv

\* What the invariant says of the tables, in the form a step needs it.
LEMMA Rest ==
  ASSUME TypeOK
  PROVE  Typed(admin) /\ keys \in Nat /\ keys <= MaxKeys
BY DEF TypeOK, Typed

\* The parts of the types that do not speak of requests.
Tables ==
  /\ row \in [Devices -> {"absent", "enabled", "disabled", "deleted"}]
  /\ stopped \subseteq Devices /\ forced \in ForcedSets
  /\ file \in [Sensors -> 0..MaxKeys] /\ tmp \in [Sensors -> 0..MaxKeys]
  /\ written \subseteq 1..MaxKeys
  /\ keys \in 0..MaxKeys
  /\ trust \in {"clean", "recovering", "overlapped", "failed"}
  /\ clashed \subseteq Sensors

LEMMA TypeSplit == TypeOK <=> /\ Tables /\ Typed(admin)
                              /\ \A d \in Sensors : tmp[d] # 0 => tmp[d] # file[d]
BY DEF TypeOK, Tables, Typed

\* A step of a request that draws no key and opens no inode keeps the layer.
LEMMA TypeMoved ==
  ASSUME TypeInv, Tables', NEW t \in Admins, Moves(t), keys' = keys,
         \A d \in Sensors : file'[d] \in {0, file[d], tmp[d]} /\ tmp'[d] \in {0, tmp[d]},
         \A d \in Sensors : tmp'[d] # 0 => file'[d] \in {0, file[d]},
         admin'[t].pc # "idle" =>
           /\ admin[t].pc # "idle" /\ admin'[t].op = admin[t].op
           /\ admin'[t].dev = admin[t].dev /\ admin'[t].key = admin[t].key
           /\ admin[t].op \in OpOf(admin'[t].pc),
         HoldsKey(t)' => HoldsKey(t), HasInode(t)' => HasInode(t)
  PROVE  TypeInv'
<1>1. TypeOK'
  <2>1. \A d \in Sensors : tmp'[d] # 0 => tmp'[d] # file'[d]
    BY DEF TypeInv, TypeOK
  <2> QED
    BY <2>1 DEF Moves, TypeOK, Tables, Typed
<1>2. OpsMatch'
  BY DEF TypeInv, OpsMatch, Moves, OthersStay
<1>3. KeysDrawn'
  <2>1. \A d \in Sensors : file'[d] <= keys /\ tmp'[d] <= keys
    BY DEF TypeInv, KeysDrawn, TypeOK
  <2>2. \A u \in Admins : (HoldsKey(u) \/ HasInode(u))' => admin'[u].key \in 1..keys
    BY DEF TypeInv, KeysDrawn, Moves, OthersStay, HoldsKey, HasInode
  <2> QED
    BY <2>1, <2>2 DEF KeysDrawn
<1>4. KeysFresh'
  <2>1. \A u \in Admins : HoldsKey(u)' => HoldsKey(u) /\ admin'[u].key = admin[u].key
    BY DEF Moves, OthersStay, HoldsKey
  <2>2. \A u \in Admins : HoldsKey(u) => admin[u].key \in 1..keys
    BY DEF TypeInv, KeysDrawn
  <2>3. \A u \in Admins : HoldsKey(u) => \A d \in Sensors :
          file'[d] # admin[u].key /\ tmp'[d] # admin[u].key
    BY <2>2, Rest DEF TypeInv, KeysFresh
  <2>4. \A u, v \in Admins : HoldsKey(u) /\ HoldsKey(v) /\ u # v => admin[u].key # admin[v].key
    BY DEF TypeInv, KeysFresh
  <2> QED
    BY <2>1, <2>3, <2>4 DEF KeysFresh
<1> QED
  BY <1>1, <1>2, <1>3, <1>4 DEF TypeInv

\* The same for a step of no request.
LEMMA TypeKept ==
  ASSUME TypeInv, Tables', UNCHANGED <<admin, keys, file, tmp>>
  PROVE  TypeInv'
<1>1. TypeOK'
  BY DEF TypeInv, TypeOK, Tables
<1>2. OpsMatch' /\ KeysDrawn' /\ KeysFresh'
  BY DEF TypeInv, OpsMatch, KeysDrawn, KeysFresh, HoldsKey, HasInode
<1> QED
  BY <1>1, <1>2 DEF TypeInv

\* A request that draws a key.
LEMMA TypeDrawn ==
  ASSUME TypeInv, NEW t \in Admins, NEW d \in Sensors, NEW op \in {"register", "rotate"},
         keys < MaxKeys, keys' = keys + 1, Enter(t, op, d, "unlinkTmp", keys + 1),
         UNCHANGED <<row, file, tmp, written, cache>>, clashed' \subseteq Sensors
  PROVE  TypeInv'
<1>1. /\ Moves(t) /\ admin'[t].pc = "unlinkTmp" /\ admin'[t].op = op /\ admin'[t].dev = d
      /\ admin'[t].key = keys + 1 /\ keys \in Nat
  BY Entering, Rest DEF TypeInv, Devices, Steps
<1>2. TypeOK'
  BY <1>1 DEF TypeInv, TypeOK, Moves, Typed, cache
<1>3. OpsMatch'
  BY <1>1 DEF TypeInv, OpsMatch, OpOf, WritingSteps, Moves, OthersStay
<1>4. \A e \in Sensors : file[e] \in Nat /\ tmp[e] \in Nat /\ file[e] <= keys /\ tmp[e] <= keys
  BY DEF TypeInv, TypeOK, KeysDrawn
<1>5. \A u \in Admins : u # t => (HoldsKey(u)' => HoldsKey(u)) /\ admin'[u] = admin[u]
  BY <1>1 DEF Moves, OthersStay, HoldsKey
<1>6. \A u \in Admins : HoldsKey(u) \/ HasInode(u) => admin[u].key \in 1..keys
  BY DEF TypeInv, KeysDrawn
<1>7. KeysDrawn'
  <2>1. \A e \in Sensors : file'[e] <= keys' /\ tmp'[e] <= keys'
    BY <1>1, <1>4
  <2>2. \A u \in Admins : (HoldsKey(u) \/ HasInode(u))' => admin'[u].key \in 1..keys'
    BY <1>1, <1>6 DEF Moves, OthersStay, HoldsKey, HasInode
  <2> QED
    BY <2>1, <2>2 DEF KeysDrawn
<1>8. KeysFresh'
  <2>1. \A e \in Sensors : file'[e] # keys + 1 /\ tmp'[e] # keys + 1
    BY <1>1, <1>4
  <2>2. \A u \in Admins : u # t /\ HoldsKey(u)' => admin'[u].key # keys + 1
    BY <1>1, <1>5, <1>6
  <2>3. \A u \in Admins : u # t /\ HoldsKey(u)' =>
          /\ \A e \in Sensors : file'[e] # admin'[u].key /\ tmp'[e] # admin'[u].key
          /\ \A v \in Admins : v # t /\ HoldsKey(v)' /\ v # u => admin'[v].key # admin'[u].key
    BY <1>5 DEF TypeInv, KeysFresh
  <2> QED
    BY <1>1, <2>1, <2>2, <2>3 DEF KeysFresh
<1> QED
  BY <1>2, <1>3, <1>7, <1>8 DEF TypeInv

\* A request that draws none.
LEMMA TypeEntered ==
  ASSUME TypeInv, NEW t \in Admins, NEW d \in Devices, NEW op \in {"start", "stop", "delete"},
         NEW pc \in {"update", "delete"}, op \in OpOf(pc), op = "delete" => d \in Sensors,
         Enter(t, op, d, pc, 0),
         UNCHANGED <<row, file, tmp, written, keys, clashed, cache>>
  PROVE  TypeInv'
<1>1. Moves(t) /\ admin'[t].pc = pc /\ admin'[t].op = op /\ admin'[t].dev = d
  BY Entering, Rest DEF TypeInv, Steps
<1>2. TypeOK'
  BY <1>1 DEF TypeInv, TypeOK, Moves, Typed, cache
<1>3. OpsMatch'
  BY <1>1 DEF TypeInv, OpsMatch, Moves, OthersStay
<1>4. ~HoldsKey(t)' /\ ~HasInode(t)'
  BY <1>1 DEF HoldsKey, HasInode
<1>5. \A u \in Admins : u # t => /\ admin'[u] = admin[u] /\ (HoldsKey(u)' => HoldsKey(u))
                                 /\ (HasInode(u)' => HasInode(u))
  BY <1>1 DEF Moves, OthersStay, HoldsKey, HasInode
<1>6. KeysDrawn' /\ KeysFresh'
  BY <1>4, <1>5 DEF TypeInv, KeysDrawn, KeysFresh
<1> QED
  BY <1>2, <1>3, <1>6 DEF TypeInv

\* The thread opened its inode.
LEMMA TypeOpened ==
  ASSUME TypeInv, NEW t \in Admins, At(t, "open"), tmp[admin[t].dev] = 0, Goto(t, "write"),
         tmp' = [tmp EXCEPT ![admin[t].dev] = admin[t].key],
         UNCHANGED <<row, file, written, keys, clashed, cache>>
  PROVE  TypeInv'
<1> DEFINE d == admin[t].dev
           k == admin[t].key
<1>1. /\ admin[t].pc = "open" /\ HoldsKey(t) /\ d \in Sensors /\ k \in 1..keys
      /\ \A e \in Sensors : file[e] # k /\ tmp[e] # k
      /\ admin[t].op \in {"register", "rotate"}
  BY DEF At, TypeInv, OpsMatch, OpOf, WritingSteps, KeysDrawn, KeysFresh, HoldsKey
<1>2. Moves(t) /\ Goes(t, "write")
  BY <1>1, Going, Rest DEF TypeInv, Steps
<1>3. tmp'[d] = k /\ \A e \in Sensors : e # d => tmp'[e] = tmp[e]
  BY <1>1 DEF TypeInv, TypeOK
<1>4. k \in 0..MaxKeys
  BY <1>1 DEF TypeInv, TypeOK
<1>5. TypeOK'
  <2>1. tmp' \in [Sensors -> 0..MaxKeys]
    BY <1>1, <1>4 DEF TypeInv, TypeOK
  <2>2. \A e \in Sensors : tmp'[e] # 0 => tmp'[e] # file'[e]
    BY <1>1, <1>3 DEF TypeInv, TypeOK
  <2> QED
    BY <1>2, <2>1, <2>2 DEF TypeInv, TypeOK, Moves, Typed, cache
<1>6. OpsMatch'
  BY <1>1, <1>2 DEF TypeInv, OpsMatch, OpOf, WritingSteps, Moves, OthersStay, Goes
<1>7. KeysDrawn'
  <2>1. \A e \in Sensors : file'[e] <= keys' /\ tmp'[e] <= keys'
    BY <1>1, <1>3 DEF TypeInv, KeysDrawn
  <2>2. \A u \in Admins : (HoldsKey(u) \/ HasInode(u))' => admin'[u].key \in 1..keys'
    BY <1>1, <1>2 DEF TypeInv, KeysDrawn, HoldsKey, HasInode, Moves, OthersStay, Goes
  <2> QED
    BY <2>1, <2>2 DEF KeysDrawn
<1>8. KeysFresh'
  <2>1. \A u \in Admins : HoldsKey(u)' => HoldsKey(u) /\ u # t /\ admin'[u].key = admin[u].key
    BY <1>2 DEF HoldsKey, Moves, OthersStay, Goes
  <2>2. \A u \in Admins : HoldsKey(u)' => admin[u].key # k
    BY <1>1, <2>1 DEF TypeInv, KeysFresh
  <2>3. \A u \in Admins : HoldsKey(u)' =>
          \A e \in Sensors : file'[e] # admin'[u].key /\ tmp'[e] # admin'[u].key
    BY <1>3, <2>1, <2>2 DEF TypeInv, KeysFresh
  <2>4. \A u, v \in Admins : HoldsKey(u)' /\ HoldsKey(v)' /\ v # u => admin'[v].key # admin'[u].key
    BY <2>1 DEF TypeInv, KeysFresh
  <2> QED
    BY <2>3, <2>4 DEF KeysFresh
<1> QED
  BY <1>5, <1>6, <1>7, <1>8 DEF TypeInv

LEMMA TypeStep == TypeInv /\ [Next]_vars => TypeInv'
<1> SUFFICES ASSUME TypeInv, [Next]_vars PROVE TypeInv'
  OBVIOUS
<1> USE Rest DEF TypeInv
<1>0. TypeOK /\ Tables /\ Typed(admin)
  BY TypeSplit
<1>1. ASSUME NEW t \in Admins, Request(t) PROVE TypeInv'
  <2>1. ASSUME NEW d \in Sensors, Register(t, d) PROVE TypeInv'
    BY <1>0, <2>1, TypeDrawn DEF Register, KeyFirst, Tables
  <2>2. ASSUME NEW d \in Sensors, Rotate(t, d) PROVE TypeInv'
    <3>1. clashed' \subseteq Sensors
      BY <1>0, <2>2 DEF Rotate, Clash, Tables
    <3> QED
      BY <2>2, <3>1, TypeDrawn DEF Rotate
  <2>3. ASSUME NEW d \in Sensors, Delete(t, d) PROVE TypeInv'
    BY <2>3, TypeEntered DEF Delete, OpOf, WritingSteps, Devices
  <2>4. ASSUME NEW d \in Devices, NEW op \in {"start", "stop"}, StartStop(t, d, op) PROVE TypeInv'
    BY <2>4, TypeEntered DEF StartStop, OpOf, WritingSteps
  <2> QED
    BY <1>1, <2>1, <2>2, <2>3, <2>4 DEF Request
<1>2. ASSUME NEW t \in Admins, RequestStep(t) PROVE TypeInv'
  <2> USE DEF HoldsKey, HasInode, At
  <2> DEFINE d == admin[t].dev
  <2>1. CASE ChangeRow(t)
    <3>1. /\ admin[t].pc \in {"insert", "update", "delete"} /\ d \in Devices
          /\ admin[t].op \in OpOf(admin[t].pc)
      BY <1>0, <2>1, Busy DEF ChangeRow, OpsMatch
    <3>2. NextRow(admin[t].op, d) \in {"absent", "enabled", "disabled", "deleted"}
      <4>1. row[d] \in {"absent", "enabled", "disabled", "deleted"}
        BY <1>0, <3>1 DEF Tables
      <4>2. CASE admin[t].op = "register"
        BY <4>2 DEF NextRow
      <4>3. CASE admin[t].op = "delete"
        BY <4>3 DEF NextRow
      <4>4. CASE admin[t].op = "start"
        BY <4>1, <4>4 DEF NextRow
      <4>5. CASE admin[t].op = "stop"
        BY <4>1, <4>5 DEF NextRow
      <4> QED
        BY <3>1, <4>2, <4>3, <4>4, <4>5 DEF OpOf, WritingSteps
    <3>3. Tables'
      BY <1>0, <2>1, <3>1, <3>2 DEF ChangeRow, Tables, cache
    <3>4. \/ Done(t)
          \/ Goto(t, "undo") /\ admin[t].op = "register"
          \/ Goto(t, "unlinkKey") /\ admin[t].op = "delete"
          \/ Goto(t, "select") /\ admin[t].op \notin {"register", "delete"}
      BY <2>1 DEF ChangeRow, AfterRow
    <3>5. keys' = keys /\ file' = file /\ tmp' = tmp
      BY <2>1 DEF ChangeRow
    <3>6. CASE Done(t)
      BY <1>0, <3>3, <3>5, <3>6, Ending, TypeMoved
    <3>7. CASE Goto(t, "undo") /\ admin[t].op = "register"
      <4>1. Moves(t) /\ Goes(t, "undo")
        BY <1>0, <3>1, <3>7, Going DEF Steps
      <4> QED
        BY <1>0, <3>1, <3>3, <3>5, <3>7, <4>1, TypeMoved DEF Goes, OpOf, WritingSteps
    <3>8. CASE Goto(t, "unlinkKey") /\ admin[t].op = "delete"
      <4>1. Moves(t) /\ Goes(t, "unlinkKey")
        BY <1>0, <3>1, <3>8, Going DEF Steps
      <4> QED
        BY <1>0, <3>1, <3>3, <3>5, <3>8, <4>1, TypeMoved DEF Goes, OpOf, WritingSteps
    <3>9. CASE Goto(t, "select") /\ admin[t].op \notin {"register", "delete"}
      <4>1. Moves(t) /\ Goes(t, "select")
        BY <1>0, <3>1, <3>9, Going DEF Steps
      <4>2. admin[t].op \in {"start", "stop"}
        BY <3>1, <3>9 DEF OpOf, WritingSteps
      <4> QED
        BY <1>0, <3>1, <3>3, <3>5, <4>1, <4>2, TypeMoved DEF Goes, OpOf, WritingSteps
    <3> QED
      BY <3>4, <3>6, <3>7, <3>8, <3>9
  <2>2. CASE UnlinkKey(t)
    <3>1. /\ admin[t].pc \in {"unlinkKey", "undo"} /\ d \in Sensors
          /\ admin[t].op \in OpOf(admin[t].pc)
      BY <2>2 DEF UnlinkKey, OpsMatch, OpOf, WritingSteps
    <3>2. Tables' /\ keys' = keys /\ tmp' = tmp
      BY <1>0, <2>2, <3>1 DEF UnlinkKey, Tables, cache
    <3>3. \A e \in Sensors : file'[e] \in {0, file[e]} /\ tmp'[e] = tmp[e]
      BY <1>0, <2>2 DEF UnlinkKey, Tables
    <3>4. CASE Done(t)
      BY <1>0, <3>2, <3>3, <3>4, Ending, TypeMoved
    <3>5. CASE Goto(t, "select") /\ admin[t].pc = "unlinkKey"
      <4>1. Moves(t) /\ Goes(t, "select")
        BY <1>0, <3>1, <3>5, Going DEF Steps
      <4> QED
        BY <1>0, <3>1, <3>2, <3>3, <3>5, <4>1, TypeMoved DEF Goes, OpOf, WritingSteps
    <3> QED
      BY <2>2, <3>1, <3>4, <3>5 DEF UnlinkKey
  <2>3. CASE Select(t)
    <3>1. admin[t].pc = "select" /\ admin[t].op \in OpOf("select")
      BY <2>3 DEF Select, OpsMatch
    <3>2. Tables' /\ UNCHANGED <<keys, file, tmp>>
      BY <1>0, <2>3 DEF Select, Alone, Tables
    <3>3. CASE Done(t)
      BY <1>0, <3>2, <3>3, Ending, TypeMoved
    <3>4. CASE admin' = [admin EXCEPT ![t].pc = "assign", ![t].seen = Off]
      <4>1. Moves(t) /\ Goes(t, "assign")
        BY <1>0, <3>1, <3>4, Querying DEF Tables
      <4> QED
        BY <1>0, <3>1, <3>2, <4>1, TypeMoved DEF Goes, OpOf, WritingSteps
    <3> QED
      BY <2>3, <3>3, <3>4 DEF Select
  <2>4. CASE Assign(t)
    <3>1. admin[t].seen \subseteq Devices
      BY <1>0, <2>4, Busy DEF Assign
    <3>2. Tables' /\ UNCHANGED <<keys, file, tmp>>
      BY <1>0, <2>4, <3>1 DEF Assign, Seen, Tables
    <3> QED
      BY <1>0, <2>4, <3>2, Ending, TypeMoved DEF Assign
  <2>5. CASE UnlinkTmp(t)
    <3>1. admin[t].pc = "unlinkTmp" /\ admin[t].op \in {"register", "rotate"} /\ d \in Sensors
      BY <2>5 DEF UnlinkTmp, OpsMatch, OpOf, WritingSteps
    <3>2. Tables' /\ keys' = keys /\ file' = file
      BY <1>0, <2>5, <3>1 DEF UnlinkTmp, Tables, cache
    <3>3. \A e \in Sensors : file'[e] = file[e] /\ tmp'[e] \in {0, tmp[e]}
      BY <1>0, <2>5 DEF UnlinkTmp, Tables
    <3>4. Moves(t) /\ Goes(t, "open")
      BY <1>0, <2>5, <3>1, Going DEF UnlinkTmp, Steps
    <3> QED
      BY <1>0, <3>1, <3>2, <3>3, <3>4, TypeMoved DEF Goes, OpOf, WritingSteps
  <2>6. CASE OpenTmp(t)
    <3>1. CASE tmp[d] # 0
      <4>1. Done(t) /\ Tables' /\ UNCHANGED <<keys, file, tmp>>
        BY <1>0, <2>6, <3>1 DEF OpenTmp, Tables, cache
      <4> QED
        BY <1>0, <4>1, Ending, TypeMoved
    <3>2. CASE tmp[d] = 0
      BY <2>6, <3>2, TypeOpened DEF OpenTmp, WriteFirst
    <3> QED
      BY <3>1, <3>2
  <2>7. CASE WriteKey(t)
    <3>1. /\ admin[t].pc = "write" /\ admin[t].op \in {"register", "rotate"}
          /\ admin[t].key \in 1..keys
      BY <2>7 DEF WriteKey, OpsMatch, OpOf, WritingSteps, KeysDrawn
    <3>2. admin[t].key \in 1..MaxKeys
      BY <3>1 
    <3>3. Tables' /\ UNCHANGED <<keys, file, tmp>>
      BY <1>0, <2>7, <3>2 DEF WriteKey, Tables, cache
    <3>4. CASE Goto(t, "replace")
      <4>1. Moves(t) /\ Goes(t, "replace")
        BY <1>0, <3>1, <3>4, Going DEF Steps
      <4> QED
        BY <1>0, <3>1, <3>3, <4>1, TypeMoved DEF Goes, OpOf, WritingSteps
    <3>5. CASE Goto(t, "cleanTmp")
      <4>1. Moves(t) /\ Goes(t, "cleanTmp")
        BY <1>0, <3>1, <3>5, Going DEF Steps
      <4> QED
        BY <1>0, <3>1, <3>3, <4>1, TypeMoved DEF Goes, OpOf, WritingSteps
    <3> QED
      BY <2>7, <3>4, <3>5 DEF WriteKey
  <2>8. CASE ReplaceKey(t)
    <3>1. admin[t].pc = "replace" /\ admin[t].op \in {"register", "rotate"} /\ d \in Sensors
      BY <2>8 DEF ReplaceKey, OpsMatch, OpOf, WritingSteps
    <3>2. Tables' /\ keys' = keys
      <4>1. tmp[d] \in 0..MaxKeys
        BY <1>0, <3>1 DEF Tables
      <4> QED
        BY <1>0, <2>8, <3>1, <4>1 DEF ReplaceKey, Renamed, Tables, cache
    <3>3. \A e \in Sensors : /\ file'[e] \in {file[e], tmp[e]} /\ tmp'[e] \in {0, tmp[e]}
                             /\ tmp'[e] # 0 => file'[e] = file[e]
      BY <1>0, <2>8, <3>1 DEF ReplaceKey, Renamed, Tables
    <3>4. Goto(t, "cleanTmp") \/ Goto(t, "chmod")
      BY <2>8 DEF ReplaceKey
    <3>5. Moves(t) /\ (Goes(t, "cleanTmp") \/ Goes(t, "chmod"))
      BY <1>0, <3>1, <3>4, Going DEF Steps
    <3> QED
      BY <1>0, <3>1, <3>2, <3>3, <3>5, TypeMoved DEF Goes, OpOf, WritingSteps
  <2>9. CASE CleanTmp(t)
    <3>1. admin[t].pc = "cleanTmp" /\ d \in Sensors
      BY <2>9 DEF CleanTmp, OpsMatch, OpOf, WritingSteps
    <3>2. Tables' /\ keys' = keys /\ Done(t)
      BY <1>0, <2>9, <3>1 DEF CleanTmp, Tables, cache
    <3>3. \A e \in Sensors : file'[e] = file[e] /\ tmp'[e] \in {0, tmp[e]}
      BY <1>0, <2>9 DEF CleanTmp, Tables
    <3> QED
      BY <1>0, <3>2, <3>3, Ending, TypeMoved
  <2>10. CASE ChmodKey(t)
    <3>1. Tables' /\ UNCHANGED <<keys, file, tmp>> /\ admin[t].pc = "chmod"
      BY <1>0, <2>10 DEF ChmodKey, Tables, cache
    <3>2. CASE Done(t)
      BY <1>0, <3>1, <3>2, Ending, TypeMoved
    <3>3. CASE admin[t].op = "register" /\ Goto(t, "insert")
      <4>1. Moves(t) /\ Goes(t, "insert")
        BY <1>0, <3>1, <3>3, Going DEF Steps
      <4> QED
        BY <1>0, <3>1, <3>3, <4>1, TypeMoved DEF Goes, OpOf, WritingSteps
    <3> QED
      BY <2>10, <3>2, <3>3 DEF ChmodKey
  <2> QED
    BY <1>2, <2>1, <2>2, <2>3, <2>4, <2>5, <2>6, <2>7, <2>8, <2>9, <2>10 DEF RequestStep
<1>4. CASE Restart
  <2>1. \A t \in Admins : admin'[t].pc = "idle" /\ admin'[t] = Idle
    BY <1>4 DEF Restart, Idle
  <2>2. stopped' \subseteq Devices /\ forced' \in ForcedSets
    BY <1>4, OffTyped DEF Restart
  <2>4. TypeOK'
    BY <1>0, <1>4, <2>1, <2>2 DEF Restart, TypeOK, Tables
  <2>3. OpsMatch' /\ KeysDrawn' /\ KeysFresh'
    BY <1>0, <1>4, <2>1 DEF Restart, OpsMatch, KeysDrawn, KeysFresh, HoldsKey, HasInode
  <2> QED
    BY <2>4, <2>3
<1>5. CASE UNCHANGED vars
  BY <1>0, <1>5, TypeKept DEF vars, requests, cache, Tables
<1> QED
  BY <1>1, <1>2, <1>4, <1>5 DEF Next

\* The registry, the key files and the requests have their types: in particular
\* no inode has two names at once.
THEOREM TypeCorrect == Spec => []TypeOK
<1>1. Spec => []TypeInv
  BY TypeInit, TypeStep, PTL DEF Spec
<1>2. TypeInv => TypeOK
  BY DEF TypeInv
<1> QED
  BY <1>1, <1>2, PTL

(***************************************************************************)
(* Where each step of a request leaves it.                                 *)
(***************************************************************************)
Ends(t) == admin'[t].pc = "idle"

LEMMA Places ==
  ASSUME TypeInv, NEW t \in Admins, RequestStep(t)
  PROVE  /\ admin[t].pc # "idle" /\ Moves(t)
         /\ Ends(t) \/ Goes(t, admin'[t].pc)
         /\ ChangeRow(t) =>
              /\ admin[t].pc \in {"insert", "update", "delete"}
              /\ \/ /\ row' = [row EXCEPT ![admin[t].dev] = NextRow(admin[t].op, admin[t].dev)]
                    /\ IF admin[t].op = "register" THEN Ends(t)
                       ELSE admin'[t].pc = AfterRow(admin[t].op)
                 \/ row' = row /\ admin'[t].pc \in {"undo", "idle"}
         /\ UnlinkKey(t) => \/ admin[t].pc = "undo" /\ Ends(t)
                            \/ admin[t].pc = "unlinkKey" /\ admin'[t].pc = "select"
         /\ Select(t) => \/ /\ admin'[t].pc = "assign" /\ admin'[t].seen = Off
                            /\ trust' = IF Refreshing = {} THEN Alone ELSE "overlapped"
                         \/ Ends(t) /\ trust' = "failed"
         /\ Assign(t) => Ends(t)
         /\ UnlinkTmp(t) => admin'[t].pc = "open"
         /\ OpenTmp(t) => IF tmp[admin[t].dev] = 0 THEN admin'[t].pc = "write" ELSE Ends(t)
         /\ WriteKey(t) => \/ admin'[t].pc = "replace" /\ written' = written \cup {admin[t].key}
                           \/ admin'[t].pc = "cleanTmp" /\ written' = written
         /\ ReplaceKey(t) => admin'[t].pc = IF tmp[admin[t].dev] = 0 THEN "cleanTmp" ELSE "chmod"
         /\ CleanTmp(t) => Ends(t)
         /\ ChmodKey(t) => \/ Ends(t)
                           \/ admin'[t].pc = "insert" /\ file[admin[t].dev] # 0
<1> USE DEF At
<1>0. Typed(admin) /\ forced \in ForcedSets
  BY Rest DEF TypeInv, TypeOK
<1>1. admin[t].pc # "idle"
  BY DEF RequestStep, ChangeRow, UnlinkKey, Select, Assign, UnlinkTmp, OpenTmp, WriteKey,
         ReplaceKey, CleanTmp, ChmodKey
<1>2. ASSUME NEW pc \in Steps, Goto(t, pc)
      PROVE  Moves(t) /\ Goes(t, pc) /\ admin'[t].pc = pc
  BY <1>0, <1>1, <1>2, Going DEF Goes
<1>3. ASSUME Done(t) PROVE Moves(t) /\ Ends(t)
  BY <1>0, <1>3, Ending DEF Ends
<1>4. ASSUME admin' = [admin EXCEPT ![t].pc = "assign", ![t].seen = Off]
      PROVE  Moves(t) /\ Goes(t, "assign") /\ admin'[t].pc = "assign" /\ admin'[t].seen = Off
  BY <1>0, <1>1, <1>4, Querying DEF Goes
<1>5. AfterRow(admin[t].op) \in Steps
  BY DEF AfterRow, Steps
<1>6. Moves(t) /\ (Ends(t) \/ Goes(t, admin'[t].pc))
  <2>1. \/ Done(t) \/ \E pc \in Steps : Goto(t, pc)
        \/ admin' = [admin EXCEPT ![t].pc = "assign", ![t].seen = Off]
    <3>1. ChangeRow(t) => Done(t) \/ \E pc \in Steps : Goto(t, pc)
      BY <1>5 DEF ChangeRow, Steps
    <3>2. UnlinkKey(t) \/ Assign(t) \/ UnlinkTmp(t) \/ OpenTmp(t) \/ WriteKey(t) \/ ReplaceKey(t)
          \/ CleanTmp(t) \/ ChmodKey(t) => Done(t) \/ \E pc \in Steps : Goto(t, pc)
      BY DEF UnlinkKey, Assign, UnlinkTmp, OpenTmp, WriteFirst, WriteKey, ReplaceKey,
             CleanTmp, ChmodKey, Steps
    <3> QED
      BY <3>1, <3>2 DEF RequestStep, Select
  <2> QED
    BY <1>2, <1>3, <1>4, <2>1
<1>7. ChangeRow(t) =>
        /\ admin[t].pc \in {"insert", "update", "delete"}
        /\ \/ /\ row' = [row EXCEPT ![admin[t].dev] = NextRow(admin[t].op, admin[t].dev)]
              /\ IF admin[t].op = "register" THEN Ends(t)
                 ELSE admin'[t].pc = AfterRow(admin[t].op)
           \/ row' = row /\ admin'[t].pc \in {"undo", "idle"}
  BY <1>2, <1>3, <1>5 DEF ChangeRow, Ends, Steps
<1>8. UnlinkKey(t) => \/ admin[t].pc = "undo" /\ Ends(t)
                      \/ admin[t].pc = "unlinkKey" /\ admin'[t].pc = "select"
  BY <1>2, <1>3 DEF UnlinkKey, Steps
<1>9. Select(t) => \/ /\ admin'[t].pc = "assign" /\ admin'[t].seen = Off
                      /\ trust' = IF Refreshing = {} THEN Alone ELSE "overlapped"
                   \/ Ends(t) /\ trust' = "failed"
  BY <1>3, <1>4 DEF Select
<1>10. Assign(t) \/ CleanTmp(t) => Ends(t)
  BY <1>3 DEF Assign, CleanTmp
<1>11. UnlinkTmp(t) => admin'[t].pc = "open"
  BY <1>2 DEF UnlinkTmp, Steps
<1>12. OpenTmp(t) => IF tmp[admin[t].dev] = 0 THEN admin'[t].pc = "write" ELSE Ends(t)
  BY <1>2, <1>3 DEF OpenTmp, WriteFirst, Steps
<1>13. WriteKey(t) => \/ admin'[t].pc = "replace" /\ written' = written \cup {admin[t].key}
                      \/ admin'[t].pc = "cleanTmp" /\ written' = written
  BY <1>2 DEF WriteKey, Steps
<1>14. ReplaceKey(t) => admin'[t].pc = IF tmp[admin[t].dev] = 0 THEN "cleanTmp" ELSE "chmod"
  BY <1>2 DEF ReplaceKey, Steps
<1>15. ChmodKey(t) => Ends(t) \/ (admin'[t].pc = "insert" /\ file[admin[t].dev] # 0)
  BY <1>2, <1>3 DEF ChmodKey, Steps
<1> QED
  BY <1>1, <1>6, <1>7, <1>8, <1>9, <1>10, <1>11, <1>12, <1>13, <1>14, <1>15

(***************************************************************************)
(* Second layer: what a request knows of the row and the key file.         *)
(***************************************************************************)
RegisterAlone ==
  \A t \in Admins : admin[t].pc # "idle" /\ admin[t].op = "register" =>
    /\ row[admin[t].dev] = "absent"
    /\ \A u \in Admins : admin[u].pc # "idle" /\ u # t => admin[u].dev # admin[t].dev
UnlinksDeleted == \A t \in Admins : At(t, "unlinkKey") => row[admin[t].dev] = "deleted"
InsertsWithKey == \A t \in Admins : At(t, "insert") => file[admin[t].dev] # 0

RowInv == RegisterAlone /\ UnlinksDeleted /\ InsertsWithKey /\ RowHasKey

LEMMA RowInit == Init => RowInv
BY DEF Init, RowInv, RegisterAlone, UnlinksDeleted, InsertsWithKey, RowHasKey, At, Idle, Known

\* A request entered; a registration found no other request on its device.
LEMMA RowEntered ==
  ASSUME TypeInv, RowInv, NEW t \in Admins, NEW d \in Devices, NEW pc \in Steps,
         NEW op \in {"register", "start", "stop", "delete", "rotate"}, NEW key \in Nat,
         Enter(t, op, d, pc, key), pc \notin {"unlinkKey", "insert"},
         IF op = "register"
         THEN row[d] = "absent" /\ ~\E u \in Admins : admin[u] # Idle /\ admin[u].dev = d
         ELSE Known(d),
         row' = row, file' = file
  PROVE  RowInv'
<1>1. Moves(t) /\ admin'[t].pc = pc /\ admin'[t].op = op /\ admin'[t].dev = d
  BY Entering, Rest DEF TypeInv
<1>2. \A u \in Admins : u # t => admin'[u] = admin[u]
  BY <1>1 DEF Moves, OthersStay
<1>3. \A u \in Admins : admin[u].pc # "idle" => admin[u] # Idle
  BY DEF Idle
<1>4. RegisterAlone'
  <2>1. CASE op = "register"
    <3>1. row[d] = "absent" /\ \A u \in Admins : admin[u].pc # "idle" => admin[u].dev # d
      BY <1>3, <2>1
    <3> QED
      BY <1>1, <1>2, <3>1 DEF RowInv, RegisterAlone
  <2>2. CASE op # "register"
    <3>1. row[d] # "absent"
      BY <2>2 DEF Known
    <3> QED
      BY <1>1, <1>2, <2>2, <3>1 DEF RowInv, RegisterAlone
  <2> QED
    BY <2>1, <2>2
<1>5. UnlinksDeleted' /\ InsertsWithKey'
  BY <1>1, <1>2 DEF RowInv, UnlinksDeleted, InsertsWithKey, At
<1>6. RowHasKey'
  BY DEF RowInv, RowHasKey, Known
<1> QED
  BY <1>4, <1>5, <1>6 DEF RowInv

\* A request went on without touching the row or removing a key file.
LEMMA RowMoved ==
  ASSUME RowInv, NEW t \in Admins, Moves(t), admin[t].pc # "idle",
         Ends(t) \/ Goes(t, admin'[t].pc), row' = row,
         \A d \in Sensors : file[d] # 0 => file'[d] # 0,
         \A u \in Admins : At(u, "insert") => admin[u].dev \in Sensors,
         admin'[t].pc # "unlinkKey", admin'[t].pc = "insert" => file'[admin[t].dev] # 0
  PROVE  RowInv'
<1>1. \A u \in Admins : u # t => admin'[u] = admin[u]
  BY DEF Moves, OthersStay
<1>2. RegisterAlone'
  BY <1>1 DEF RowInv, RegisterAlone, Ends, Goes
<1>3. UnlinksDeleted'
  BY <1>1 DEF RowInv, UnlinksDeleted, At
<1>4. InsertsWithKey'
  BY <1>1 DEF RowInv, InsertsWithKey, At, Goes, Ends
<1>5. RowHasKey'
  BY DEF RowInv, RowHasKey, Known
<1> QED
  BY <1>2, <1>3, <1>4, <1>5 DEF RowInv

\* What ChangeRow makes of the row.
LEMMA RowWritten ==
  ASSUME TypeInv, RowInv, NEW t \in Admins, ChangeRow(t),
         row' = [row EXCEPT ![admin[t].dev] = NextRow(admin[t].op, admin[t].dev)]
  PROVE  /\ admin[t].dev \in Devices
         /\ \A d \in Devices : d # admin[t].dev => row'[d] = row[d]
         /\ admin[t].op = "register" => /\ row[admin[t].dev] = "absent"
                                        /\ row'[admin[t].dev] = "enabled"
                                        /\ admin[t].pc = "insert"
         /\ admin[t].op = "delete" => row'[admin[t].dev] = "deleted"
         /\ admin[t].op \in {"start", "stop"} =>
              /\ ~Known(admin[t].dev) => row'[admin[t].dev] = row[admin[t].dev]
              /\ Known(admin[t].dev) => row'[admin[t].dev] \in {"enabled", "disabled"}
         /\ admin[t].op \in {"register", "start", "stop", "delete"}
<1>1. /\ admin[t].dev \in Devices /\ admin[t].pc \in {"insert", "update", "delete"}
      /\ admin[t].op \in OpOf(admin[t].pc)
  BY Busy, Rest DEF ChangeRow, TypeInv, OpsMatch
<1>2. row'[admin[t].dev] = NextRow(admin[t].op, admin[t].dev)
  BY <1>1 DEF TypeInv, TypeOK
<1>3. \A d \in Devices : d # admin[t].dev => row'[d] = row[d]
  BY <1>1 DEF TypeInv, TypeOK
<1>4. admin[t].op = "register" => /\ row[admin[t].dev] = "absent"
                                  /\ row'[admin[t].dev] = "enabled"
                                  /\ admin[t].pc = "insert"
  BY <1>1, <1>2 DEF RowInv, RegisterAlone, NextRow, OpOf, WritingSteps
<1>5. admin[t].op = "delete" => row'[admin[t].dev] = "deleted"
  BY <1>2 DEF NextRow
<1>6. CASE admin[t].op = "start"
  BY <1>1, <1>2, <1>3, <1>6 DEF NextRow
<1>7. CASE admin[t].op = "stop"
  BY <1>1, <1>2, <1>3, <1>7 DEF NextRow
<1>8. admin[t].op \in {"register", "start", "stop", "delete"}
  BY <1>1 DEF OpOf, WritingSteps
<1> QED
  BY <1>1, <1>3, <1>4, <1>5, <1>6, <1>7, <1>8

LEMMA RowStep == TypeInv /\ RowInv /\ [Next]_vars => RowInv'
<1> SUFFICES ASSUME TypeInv, RowInv, [Next]_vars PROVE RowInv'
  OBVIOUS
<1>0. \A t \in Admins : At(t, "insert") => admin[t].dev \in Sensors
  BY DEF TypeInv, OpsMatch, OpOf, WritingSteps, At
<1>1. ASSUME NEW t \in Admins, Request(t) PROVE RowInv'
  <2>1. ASSUME NEW d \in Sensors, Register(t, d) PROVE RowInv'
    BY <2>1, RowEntered, Rest DEF Register, KeyFirst, Steps, Devices, TypeInv
  <2>2. ASSUME NEW d \in Sensors, Rotate(t, d) PROVE RowInv'
    BY <2>2, RowEntered, Rest DEF Rotate, Steps, Devices, TypeInv
  <2>3. ASSUME NEW d \in Sensors, Delete(t, d) PROVE RowInv'
    BY <2>3, RowEntered DEF Delete, Steps, Devices
  <2>4. ASSUME NEW d \in Devices, NEW op \in {"start", "stop"}, StartStop(t, d, op) PROVE RowInv'
    BY <2>4, RowEntered DEF StartStop, Steps
  <2> QED
    BY <1>1, <2>1, <2>2, <2>3, <2>4 DEF Request
<1>2. ASSUME NEW t \in Admins, RequestStep(t) PROVE RowInv'
  <2> DEFINE d == admin[t].dev
  <2>0. admin[t].pc # "idle" /\ Moves(t) /\ (Ends(t) \/ Goes(t, admin'[t].pc))
    BY <1>2, Places
  <2>1. CASE ChangeRow(t)
    <3>1. CASE row' = row /\ admin'[t].pc \in {"undo", "idle"}
      BY <1>0, <2>0, <2>1, <3>1, RowMoved DEF ChangeRow
    <3>2. CASE /\ row' = [row EXCEPT ![d] = NextRow(admin[t].op, d)]
               /\ IF admin[t].op = "register" THEN Ends(t)
                  ELSE admin'[t].pc = AfterRow(admin[t].op)
      <4>a. \A u \in Admins : u # t => admin'[u] = admin[u]
        BY <2>0 DEF Moves, OthersStay
      <4>b. file' = file
        BY <2>1 DEF ChangeRow
      <4>c. /\ admin[t].op \in {"register", "start", "stop", "delete"} /\ d \in Devices
            /\ \A e \in Devices : e # d => row'[e] = row[e]
            /\ admin[t].op = "register" => /\ row[d] = "absent" /\ row'[d] = "enabled"
                                           /\ admin[t].pc = "insert"
            /\ admin[t].op = "delete" => row'[d] = "deleted"
            /\ admin[t].op \in {"start", "stop"} =>
                 /\ ~Known(d) => row'[d] = row[d]
                 /\ Known(d) => row'[d] \in {"enabled", "disabled"}
        BY <2>1, <3>2, RowWritten
      <4>d. \A u \in Admins : admin[u].pc # "idle" => admin[u].dev \in Devices
        BY Busy, Rest DEF TypeInv
      <4>1. RegisterAlone'
        <5>1. admin'[t].pc # "idle" => admin[t].op # "register" /\ Goes(t, admin'[t].pc)
          BY <2>0, <3>2 DEF Ends
        <5>2. \A u \in Admins : u # t /\ admin[u].pc # "idle" /\ admin[u].op = "register" =>
                /\ admin[u].dev # d /\ row[admin[u].dev] = "absent"
                /\ \A v \in Admins : admin[v].pc # "idle" /\ v # u => admin[v].dev # admin[u].dev
          BY <2>0 DEF RowInv, RegisterAlone
        <5> QED
          BY <2>0, <4>a, <4>c, <4>d, <5>1, <5>2 DEF RegisterAlone, Goes
      <4>2. UnlinksDeleted'
        <5>1. \A u \in Admins : u # t /\ At(u, "unlinkKey") => row'[admin[u].dev] = "deleted"
          <6> SUFFICES ASSUME NEW u \in Admins, u # t, At(u, "unlinkKey")
                       PROVE  row'[admin[u].dev] = "deleted"
            OBVIOUS
          <6>1. row[admin[u].dev] = "deleted" /\ admin[u].pc # "idle"
            BY DEF RowInv, UnlinksDeleted, At
          <6>2. CASE admin[u].dev = d
            BY <4>c, <6>1, <6>2 DEF Known
          <6> QED
            BY <4>c, <4>d, <6>1, <6>2
        <5>2. admin'[t].pc = "unlinkKey" => admin[t].op = "delete" /\ admin'[t].dev = d
          BY <2>0, <3>2 DEF AfterRow, Goes, Ends
        <5> QED
          BY <4>a, <4>c, <5>1, <5>2 DEF UnlinksDeleted, At
      <4>3. InsertsWithKey'
        <5>1. admin'[t].pc # "insert"
          BY <3>2 DEF AfterRow, Ends
        <5> QED
          BY <4>a, <4>b, <5>1 DEF RowInv, InsertsWithKey, At
      <4>4. RowHasKey'
        <5>1. \A e \in Sensors : e # d /\ Known(e)' => file'[e] # 0
          BY <4>b, <4>c DEF RowInv, RowHasKey, Known, Devices
        <5>2. ASSUME d \in Sensors, row'[d] \in {"enabled", "disabled"} PROVE file[d] # 0
          <6>1. CASE admin[t].op = "register"
            BY <4>c, <6>1 DEF RowInv, InsertsWithKey, At
          <6>2. CASE admin[t].op \in {"start", "stop"}
            <7>1. Known(d)
              BY <4>c, <5>2, <6>2 DEF Known
            <7> QED
              BY <5>2, <7>1 DEF RowInv, RowHasKey
          <6>3. CASE admin[t].op = "delete"
            BY <4>c, <5>2, <6>3 DEF Known
          <6> QED
            BY <4>c, <6>1, <6>2, <6>3
        <5> QED
          BY <4>b, <5>1, <5>2 DEF RowHasKey, Known
      <4> QED
        BY <4>1, <4>2, <4>3, <4>4 DEF RowInv
    <3> QED
      BY <1>2, <2>1, <3>1, <3>2, Places
  <2>2. CASE UnlinkKey(t)
    <3>1. /\ \/ admin[t].pc = "undo" /\ Ends(t)
             \/ admin[t].pc = "unlinkKey" /\ admin'[t].pc = "select"
          /\ d \in Sensors /\ admin[t].op \in OpOf(admin[t].pc)
      BY <1>2, <2>2, Places DEF UnlinkKey, TypeInv, OpsMatch, OpOf, WritingSteps
    <3>2. row' = row /\ \A e \in Sensors : e # d => file'[e] = file[e]
      BY <2>2 DEF UnlinkKey, TypeInv, TypeOK
    <3>3. ~Known(d)
      BY <3>1 DEF RowInv, RegisterAlone, UnlinksDeleted, At, Known, OpOf, WritingSteps
    <3>4. \A u \in Admins : u # t => admin'[u] = admin[u]
      BY <2>0 DEF Moves, OthersStay
    <3>5. RegisterAlone'
      BY <2>0, <3>2, <3>4 DEF RowInv, RegisterAlone, Ends, Goes
    <3>6. UnlinksDeleted'
      BY <3>1, <3>2, <3>4 DEF RowInv, UnlinksDeleted, At, Ends
    <3>7. InsertsWithKey'
      <4>1. \A u \in Admins : u # t /\ At(u, "insert") => admin[u].dev # d
        BY <2>0 DEF RowInv, RegisterAlone, At, TypeInv, OpsMatch, OpOf, WritingSteps
      <4> QED
        BY <1>0, <3>1, <3>2, <3>4, <4>1 DEF RowInv, InsertsWithKey, At, Ends
    <3>8. RowHasKey'
      BY <3>2, <3>3 DEF RowInv, RowHasKey, Known
    <3> QED
      BY <3>5, <3>6, <3>7, <3>8 DEF RowInv
  <2>3. CASE Select(t) \/ Assign(t)
    <3>1. row' = row /\ file' = file /\ admin'[t].pc \in {"assign", "idle"}
      BY <1>2, <2>3, Places DEF Select, Assign, Ends
    <3> QED
      BY <1>0, <2>0, <3>1, RowMoved
  <2>4. CASE UnlinkTmp(t) \/ OpenTmp(t) \/ WriteKey(t) \/ CleanTmp(t)
    <3>1. row' = row /\ file' = file
      BY <2>4 DEF UnlinkTmp, OpenTmp, WriteKey, CleanTmp
    <3>2. admin'[t].pc \in {"open", "write", "replace", "cleanTmp", "idle"}
      BY <1>2, <2>4, Places DEF Ends
    <3> QED
      BY <1>0, <2>0, <3>1, <3>2, RowMoved
  <2>5. CASE ReplaceKey(t)
    <3>1. row' = row /\ \A e \in Sensors : file[e] # 0 => file'[e] # 0
      BY <2>5 DEF ReplaceKey, TypeInv, TypeOK
    <3>2. admin'[t].pc \in {"cleanTmp", "chmod"}
      BY <1>2, <2>5, Places
    <3> QED
      BY <1>0, <2>0, <3>1, <3>2, RowMoved
  <2>6. CASE ChmodKey(t)
    <3>1. row' = row /\ file' = file
      BY <2>6 DEF ChmodKey
    <3>2. Ends(t) \/ (admin'[t].pc = "insert" /\ file[d] # 0)
      BY <1>2, <2>6, Places
    <3> QED
      BY <1>0, <2>0, <3>1, <3>2, RowMoved DEF Ends
  <2> QED
    BY <1>2, <2>1, <2>2, <2>3, <2>4, <2>5, <2>6 DEF RequestStep
<1>3. ASSUME UNCHANGED <<row, file, admin>> PROVE RowInv'
  BY <1>3 DEF RowInv, RegisterAlone, UnlinksDeleted, InsertsWithKey, RowHasKey, At, Known
<1>4. CASE Restart
  <2>1. \A t \in Admins : admin'[t].pc = "idle"
    BY <1>4 DEF Restart, Idle
  <2>2. row' = row /\ file' = file
    BY <1>4 DEF Restart
  <2> QED
    BY <2>1, <2>2 DEF RowInv, RegisterAlone, UnlinksDeleted, InsertsWithKey, RowHasKey, At, Known
<1>5. UNCHANGED vars => UNCHANGED <<row, file, admin>>
  BY DEF vars, requests
<1> QED
  BY <1>1, <1>2, <1>3, <1>4, <1>5 DEF Next

LEMMA RowInvariance == Spec => [](TypeInv /\ RowInv)
BY TypeInit, TypeStep, RowInit, RowStep, PTL DEF Spec

\* A registered sensor has a key file, whatever requests, failures and restarts did.
THEOREM RegisteredHasKey == Spec => []RowHasKey
<1>1. RowInv => RowHasKey
  BY DEF RowInv
<1> QED
  BY RowInvariance, <1>1, PTL

(***************************************************************************)
(* Third layer: who writes which key.                                      *)
(***************************************************************************)
Writes(t) == admin[t].pc \in WritingSteps

\* Only one request at a time writes the key of a device without a clash.
SoleWriter ==
  \A t, u \in Admins : Writes(t) /\ Writes(u) /\ t # u /\ admin[t].dev = admin[u].dev =>
    admin[t].dev \in clashed
\* Its inode has the temporary name, and the data before the name changes.
InodeNamed == \A t \in Admins : HasInode(t) /\ admin[t].dev \notin clashed =>
                tmp[admin[t].dev] = admin[t].key
InodeWritten == \A t \in Admins : At(t, "replace") => admin[t].key \in written

KeyInv == SoleWriter /\ InodeNamed /\ InodeWritten /\ KeyWholeUnlessClash

LEMMA KeyInit == Init => KeyInv
BY DEF Init, KeyInv, SoleWriter, InodeNamed, InodeWritten, KeyWholeUnlessClash, Writes,
       WritingSteps, HasInode, At, Idle

\* A request entered; it writes a key only if it found no other writer or noted the clash.
LEMMA KeyEntered ==
  ASSUME TypeInv, KeyInv, NEW t \in Admins, NEW d \in Devices, NEW pc \in Steps,
         NEW op \in {"register", "start", "stop", "delete", "rotate"}, NEW key \in Nat,
         Enter(t, op, d, pc, key), pc \notin {"write", "replace"},
         UNCHANGED <<file, tmp, written>>, clashed \subseteq clashed',
         pc \in WritingSteps => \/ \A u \in Admins : Writes(u) => admin[u].dev # d
                                \/ d \in clashed'
  PROVE  KeyInv'
<1>1. Moves(t) /\ admin'[t].pc = pc /\ admin'[t].dev = d
  BY Entering, Rest DEF TypeInv
<1>2. \A u \in Admins : u # t => admin'[u] = admin[u]
  BY <1>1 DEF Moves, OthersStay
<1>3. SoleWriter'
  BY <1>1, <1>2 DEF KeyInv, SoleWriter, Writes
<1>4. InodeNamed' /\ InodeWritten'
  BY <1>1, <1>2 DEF KeyInv, InodeNamed, InodeWritten, HasInode, At
<1>5. KeyWholeUnlessClash'
  BY DEF KeyInv, KeyWholeUnlessClash
<1> QED
  BY <1>3, <1>4, <1>5 DEF KeyInv

\* Who writes what goes on being so, as no step of a request adds a writer.
LEMMA SoleMoved ==
  ASSUME KeyInv, NEW t \in Admins, Moves(t), Ends(t) \/ Goes(t, admin'[t].pc),
         admin'[t].pc \in WritingSteps => admin[t].pc \in WritingSteps, clashed' = clashed
  PROVE  SoleWriter'
BY DEF KeyInv, SoleWriter, Writes, Moves, OthersStay, Ends, Goes, WritingSteps

\* A request changed, of the key files, none but those of its device; a file not
\* in doubt that it put there is whole.
LEMMA KeyMoved ==
  ASSUME TypeInv, KeyInv, NEW t \in Admins, Moves(t), Ends(t) \/ Goes(t, admin'[t].pc),
         admin'[t].pc \in WritingSteps => admin[t].pc \in WritingSteps, clashed' = clashed,
         written \subseteq written',
         \A e \in Sensors : tmp'[e] = tmp[e] \/ (Writes(t) /\ e = admin[t].dev),
         \A e \in Sensors : file'[e] \in {0, file[e]} \/ e \in clashed \/ file'[e] \in written',
         admin'[t].pc \in {"write", "replace"} =>
           admin[t].dev \in clashed \/ tmp'[admin[t].dev] = admin[t].key,
         admin'[t].pc = "replace" => admin[t].key \in written'
  PROVE  KeyInv'
<1>1. SoleWriter'
  BY SoleMoved
<1>2. \A u \in Admins : u # t => admin'[u] = admin[u]
  BY DEF Moves, OthersStay
<1>3. \A u \in Admins : HasInode(u) => admin[u].dev \in Sensors /\ Writes(u)
  BY DEF TypeInv, OpsMatch, HasInode, OpOf, WritingSteps, Writes
<1>4. InodeNamed'
  <2>1. ASSUME NEW u \in Admins, u # t, HasInode(u), admin[u].dev \notin clashed
        PROVE  tmp'[admin[u].dev] = admin[u].key
    <3>1. ~(Writes(t) /\ admin[t].dev = admin[u].dev)
      BY <1>3, <2>1 DEF KeyInv, SoleWriter
    <3> QED
      BY <1>3, <2>1, <3>1 DEF KeyInv, InodeNamed
  <2>2. HasInode(t)' /\ admin'[t].dev \notin clashed => tmp'[admin'[t].dev] = admin'[t].key
    BY DEF HasInode, Ends, Goes
  <2> QED
    BY <1>2, <2>1, <2>2 DEF InodeNamed, HasInode
<1>5. InodeWritten'
  BY <1>2 DEF KeyInv, InodeWritten, At, Ends, Goes
<1>6. KeyWholeUnlessClash'
  BY DEF KeyInv, KeyWholeUnlessClash
<1> QED
  BY <1>1, <1>4, <1>5, <1>6 DEF KeyInv

LEMMA KeyStep == TypeInv /\ KeyInv /\ [Next]_vars => KeyInv'
<1> SUFFICES ASSUME TypeInv, KeyInv, [Next]_vars PROVE KeyInv'
  OBVIOUS
<1>1. ASSUME NEW t \in Admins, Request(t) PROVE KeyInv'
  <2>1. ASSUME NEW d \in Sensors, Register(t, d) PROVE KeyInv'
    <3>1. \A u \in Admins : Writes(u) => admin[u].dev # d
      BY <2>1 DEF Register, Writes, WritingSteps, Idle
    <3> QED
      BY <2>1, <3>1, KeyEntered, Rest DEF Register, KeyFirst, Steps, Devices, TypeInv
  <2>2. ASSUME NEW d \in Sensors, Rotate(t, d) PROVE KeyInv'
    <3>1. clashed \subseteq clashed' /\ (Writing(d) => d \in clashed')
      BY <2>2 DEF Rotate, Clash
    <3>2. \/ \A u \in Admins : Writes(u) => admin[u].dev # d
          \/ d \in clashed'
      BY <3>1 DEF Writing, Writes, WritingSteps
    <3>3. Enter(t, "rotate", d, "unlinkTmp", keys + 1) /\ UNCHANGED <<file, tmp, written>>
      BY <2>2 DEF Rotate
    <3> QED
      BY <3>1, <3>2, <3>3, KeyEntered, Rest DEF Steps, Devices, TypeInv
  <2>3. ASSUME NEW d \in Sensors, Delete(t, d) PROVE KeyInv'
    BY <2>3, KeyEntered DEF Delete, Steps, Devices, WritingSteps
  <2>4. ASSUME NEW d \in Devices, NEW op \in {"start", "stop"}, StartStop(t, d, op) PROVE KeyInv'
    BY <2>4, KeyEntered DEF StartStop, Steps, WritingSteps
  <2> QED
    BY <1>1, <2>1, <2>2, <2>3, <2>4 DEF Request
<1>2. ASSUME NEW t \in Admins, RequestStep(t) PROVE KeyInv'
  <2> DEFINE d == admin[t].dev
  <2>0. admin[t].pc # "idle" /\ Moves(t) /\ (Ends(t) \/ Goes(t, admin'[t].pc))
    BY <1>2, Places
  <2>1. CASE ChangeRow(t) \/ Select(t) \/ Assign(t) \/ ChmodKey(t)
    <3>1. UNCHANGED <<file, tmp, written, clashed>>
      BY <2>1 DEF ChangeRow, Select, Assign, ChmodKey
    <3>2. admin'[t].pc \in {"undo", "unlinkKey", "select", "assign", "insert", "idle"}
      BY <1>2, <2>1, Places DEF AfterRow, Ends
    <3> QED
      BY <2>0, <3>1, <3>2, KeyMoved DEF WritingSteps
  <2>2. CASE UnlinkKey(t)
    <3>1. /\ UNCHANGED <<tmp, written, clashed>>
          /\ \A e \in Sensors : file'[e] \in {0, file[e]}
      BY <2>2 DEF UnlinkKey, TypeInv, TypeOK
    <3>2. admin'[t].pc \in {"select", "idle"}
      BY <1>2, <2>2, Places DEF Ends
    <3> QED
      BY <2>0, <3>1, <3>2, KeyMoved DEF WritingSteps
  <2>3. CASE UnlinkTmp(t) \/ CleanTmp(t)
    <3>1. /\ UNCHANGED <<file, written, clashed>>
          /\ \A e \in Sensors : tmp'[e] = tmp[e] \/ e = d
      BY <2>3 DEF UnlinkTmp, CleanTmp, TypeInv, TypeOK
    <3>2. Writes(t) /\ admin'[t].pc \in {"open", "idle"}
      BY <1>2, <2>3, Places DEF UnlinkTmp, CleanTmp, At, Writes, WritingSteps, Ends
    <3> QED
      BY <2>0, <3>1, <3>2, KeyMoved DEF WritingSteps, Writes
  <2>4. CASE OpenTmp(t)
    <3>1. /\ UNCHANGED <<file, written, clashed>> /\ Writes(t) /\ d \in Sensors
          /\ \A e \in Sensors : tmp'[e] = tmp[e] \/ e = d
          /\ tmp[d] = 0 => tmp'[d] = admin[t].key
      BY <2>4 DEF OpenTmp, At, TypeInv, TypeOK, OpsMatch, OpOf, Writes, WritingSteps
    <3>2. IF tmp[d] = 0 THEN admin'[t].pc = "write" ELSE Ends(t)
      BY <1>2, <2>4, Places
    <3> QED
      BY <2>0, <3>1, <3>2, KeyMoved DEF WritingSteps, Writes, Ends
  <2>5. CASE WriteKey(t)
    <3>1. UNCHANGED <<file, tmp, clashed>> /\ Writes(t) /\ HasInode(t)
      BY <2>5 DEF WriteKey, At, Writes, WritingSteps, HasInode
    <3>2. \/ admin'[t].pc = "replace" /\ written' = written \cup {admin[t].key}
          \/ admin'[t].pc = "cleanTmp" /\ written' = written
      BY <1>2, <2>5, Places
    <3>3. d \in clashed \/ tmp'[d] = admin[t].key
      BY <3>1 DEF KeyInv, InodeNamed
    <3> QED
      BY <2>0, <3>1, <3>2, <3>3, KeyMoved DEF WritingSteps, Writes
  <2>6. CASE ReplaceKey(t)
    <3>1. UNCHANGED <<written, clashed>> /\ Writes(t) /\ At(t, "replace") /\ HasInode(t)
      BY <2>6 DEF ReplaceKey, At, Writes, WritingSteps, HasInode
    <3>2. /\ \A e \in Sensors : tmp'[e] = tmp[e] \/ e = d
          /\ \A e \in Sensors : file'[e] = file[e] \/ (e = d /\ file'[e] = tmp[d])
      BY <2>6 DEF ReplaceKey, Renamed, TypeInv, TypeOK
    <3>3. d \in clashed \/ (tmp[d] = admin[t].key /\ admin[t].key \in written)
      BY <3>1 DEF KeyInv, InodeNamed, InodeWritten
    <3>4. \A e \in Sensors : file'[e] \in {0, file[e]} \/ e \in clashed \/ file'[e] \in written'
      BY <3>1, <3>2, <3>3
    <3>5. admin'[t].pc \in {"cleanTmp", "chmod"}
      BY <1>2, <2>6, Places
    <3> QED
      BY <2>0, <3>1, <3>2, <3>4, <3>5, KeyMoved DEF WritingSteps, Writes
  <2> QED
    BY <1>2, <2>1, <2>2, <2>3, <2>4, <2>5, <2>6 DEF RequestStep
<1>3. ASSUME UNCHANGED <<file, tmp, written, clashed, admin>> PROVE KeyInv'
  BY <1>3 DEF KeyInv, SoleWriter, InodeNamed, InodeWritten, KeyWholeUnlessClash, Writes, HasInode, At
<1>4. CASE Restart
  <2>1. \A t \in Admins : admin'[t].pc = "idle"
    BY <1>4 DEF Restart, Idle
  <2>2. UNCHANGED <<file, tmp, written, clashed>>
    BY <1>4 DEF Restart
  <2> QED
    BY <2>1, <2>2 DEF KeyInv, SoleWriter, InodeNamed, InodeWritten, KeyWholeUnlessClash, Writes,
                      WritingSteps, HasInode, At
<1>5. UNCHANGED vars => UNCHANGED <<file, tmp, written, clashed, admin>>
  BY DEF vars, requests
<1> QED
  BY <1>1, <1>2, <1>3, <1>4, <1>5 DEF Next

\* A key file that only one request at a time wrote is never half-written, through
\* any crash: what secret_files.py:20-21 promises.
THEOREM KeyFileIsWhole == Spec => []KeyWholeUnlessClash
<1>1. KeyInv => KeyWholeUnlessClash
  BY DEF KeyInv
<1>2. Spec => [](TypeInv /\ KeyInv)
  BY TypeInit, TypeStep, KeyInit, KeyStep, PTL DEF Spec
<1> QED
  BY <1>1, <1>2, PTL

(***************************************************************************)
(* Fourth layer: the set of stopped devices.  While it can be trusted or   *)
(* is recovering, at most one refresh is between its query and its         *)
(* assignment, and what it is about to assign is right of every device no  *)
(* other request is changing.                                              *)
(***************************************************************************)
Waits(t) == admin[t].pc \in {"unlinkKey", "select", "assign"}
Trusted == trust \in {"clean", "recovering"}

OneRefresh == \A t, u \in Admins : At(t, "assign") /\ At(u, "assign") => t = u
SeenRight ==
  \A t \in Admins, d \in Devices :
    At(t, "assign") /\ (\A u \in Admins : u # t /\ Waits(u) => admin[u].dev # d)
      => (d \in admin[t].seen <=> d \in Off)

CacheInv == (Trusted => OneRefresh /\ SeenRight) /\ CacheTracksRows

\* CacheTracksRows, in the words of this layer.
StoppedRight ==
  \A d \in Devices :
    (\A u \in Admins : Waits(u) => admin[u].dev # d) => (d \in stopped <=> d \in Off)
LEMMA Restated ==
  /\ CacheTracksRows <=> (trust = "clean" => StoppedRight)
  /\ CacheTracksRows' <=> (trust' = "clean" => StoppedRight')
BY DEF CacheTracksRows, StoppedRight, Pending, Waits

LEMMA CacheInit == Init => CacheInv
<1> SUFFICES ASSUME Init PROVE CacheInv
  OBVIOUS
<1>1. \A t \in Admins : admin[t].pc = "idle"
  BY DEF Init, Idle
<1>2. stopped = Off
  BY DEF Init
<1> QED
  BY <1>1, <1>2 DEF CacheInv, OneRefresh, SeenRight, CacheTracksRows, At

\* A request that neither queries nor assigns, and that waits to refresh whatever
\* it has changed the table of.
LEMMA CacheKept ==
  ASSUME CacheInv, NEW t \in Admins, Moves(t), UNCHANGED <<stopped, trust>>,
         admin[t].pc # "assign", admin'[t].pc # "assign",
         Waits(t) => Waits(t)' /\ admin'[t].dev = admin[t].dev,
         \A d \in Devices : (d \in Off' <=> d \in Off) \/ (Waits(t)' /\ admin'[t].dev = d)
  PROVE  CacheInv'
<1>1. \A u \in Admins : u # t => admin'[u] = admin[u] /\ (Waits(u)' <=> Waits(u))
  BY DEF Moves, OthersStay, Waits
<1>2. OneRefresh => OneRefresh'
  BY <1>1 DEF OneRefresh, At
<1>3. SeenRight => SeenRight'
  <2> SUFFICES ASSUME SeenRight, NEW u \in Admins, NEW d \in Devices, At(u, "assign")',
                      \A v \in Admins : v # u /\ Waits(v)' => admin'[v].dev # d
               PROVE  d \in admin'[u].seen <=> d \in Off'
    BY DEF SeenRight
  <2>1. u # t /\ At(u, "assign") /\ admin'[u] = admin[u]
    BY <1>1 DEF At
  <2>2. d \in Off' <=> d \in Off
    BY <2>1
  <2>3. \A v \in Admins : v # u /\ Waits(v) => admin[v].dev # d
    BY <1>1
  <2> QED
    BY <2>1, <2>2, <2>3 DEF SeenRight
<1>4. StoppedRight => StoppedRight'
  <2> SUFFICES ASSUME StoppedRight, NEW d \in Devices,
                      \A v \in Admins : Waits(v)' => admin'[v].dev # d
               PROVE  d \in stopped' <=> d \in Off'
    BY DEF StoppedRight
  <2>1. \A v \in Admins : Waits(v) => admin[v].dev # d
    BY <1>1
  <2> QED
    BY <2>1 DEF StoppedRight
<1> QED
  BY <1>2, <1>3, <1>4, Restated DEF CacheInv, Trusted

LEMMA CacheStep == TypeInv /\ RowInv /\ CacheInv /\ [Next]_vars => CacheInv'
<1> SUFFICES ASSUME TypeInv, RowInv, CacheInv, [Next]_vars PROVE CacheInv'
  OBVIOUS
<1> USE DEF At
<1>1. ASSUME NEW t \in Admins, Request(t) PROVE CacheInv'
  <2>1. PICK op \in {"register", "start", "stop", "delete", "rotate"}, d \in Devices,
             pc \in {"unlinkTmp", "update", "delete"}, key \in Nat : Enter(t, op, d, pc, key)
    BY <1>1, Rest DEF Request, Register, Rotate, Delete, StartStop, KeyFirst, Devices, TypeInv
  <2>2. Moves(t) /\ admin[t].pc = "idle" /\ admin'[t].pc = pc
    BY <2>1, Entering, Rest DEF TypeInv, Steps
  <2>3. Off' = Off /\ UNCHANGED <<stopped, trust>>
    BY <1>1 DEF Request, Register, Rotate, Delete, StartStop, cache, Off
  <2>4. ~Waits(t) /\ admin'[t].pc # "assign"
    BY <2>2 DEF Waits
  <2> QED
    BY <2>2, <2>3, <2>4, CacheKept
<1>2. ASSUME NEW t \in Admins, RequestStep(t) PROVE CacheInv'
  <2>0. admin[t].pc # "idle" /\ Moves(t) /\ (Ends(t) \/ Goes(t, admin'[t].pc))
    BY <1>2, Places
  <2>a. \A u \in Admins : u # t => admin'[u] = admin[u] /\ (Waits(u)' <=> Waits(u))
    BY <2>0 DEF Moves, OthersStay, Waits
  <2>1. CASE ChangeRow(t)
    <3>1. /\ UNCHANGED <<stopped, forced, trust>>
          /\ admin[t].pc \in {"insert", "update", "delete"} /\ ~Waits(t)
      BY <2>1 DEF ChangeRow, cache, Waits
    <3>2. CASE row' = row /\ admin'[t].pc \in {"undo", "idle"}
      <4>1. Off' = Off
        BY <3>1, <3>2 DEF Off
      <4> QED
        BY <2>0, <3>1, <3>2, <4>1, CacheKept
    <3>3. CASE /\ row' = [row EXCEPT ![admin[t].dev] = NextRow(admin[t].op, admin[t].dev)]
               /\ IF admin[t].op = "register" THEN Ends(t)
                  ELSE admin'[t].pc = AfterRow(admin[t].op)
      <4>0. \A d \in Devices : d # admin[t].dev => (d \in Off' <=> d \in Off)
        BY <2>1, <3>1, <3>3, RowWritten DEF Off
      <4>1. CASE admin[t].op = "register"
        <5>1. admin[t].dev \in Off' <=> admin[t].dev \in Off
          BY <2>1, <3>1, <3>3, <4>1, RowWritten DEF Off
        <5> QED
          BY <2>0, <3>1, <3>3, <4>0, <4>1, <5>1, CacheKept DEF Ends
      <4>2. CASE admin[t].op # "register"
        <5>1. admin'[t].pc \in {"unlinkKey", "select"}
          BY <3>3, <4>2 DEF AfterRow
        <5>2. Waits(t)' /\ admin'[t].dev = admin[t].dev
          BY <2>0, <5>1 DEF Waits, Ends, Goes
        <5> QED
          BY <2>0, <3>1, <4>0, <5>1, <5>2, CacheKept
      <4> QED
        BY <4>1, <4>2
    <3> QED
      BY <1>2, <2>1, <3>2, <3>3, Places
  <2>2. CASE UnlinkKey(t)
    <3>1. UNCHANGED <<stopped, trust>> /\ Off' = Off
      BY <2>2 DEF UnlinkKey, cache, Off
    <3>2. CASE admin[t].pc = "undo" /\ Ends(t)
      BY <2>0, <3>1, <3>2, CacheKept DEF Ends, Waits
    <3>3. CASE admin[t].pc = "unlinkKey" /\ admin'[t].pc = "select"
      <4>1. Waits(t)' /\ admin'[t].dev = admin[t].dev
        BY <2>0, <3>3 DEF Waits, Ends, Goes
      <4> QED
        BY <2>0, <3>1, <3>3, <4>1, CacheKept
    <3> QED
      BY <1>2, <2>2, <3>2, <3>3, Places
  <2>3. CASE Select(t)
    <3>1. Off' = Off /\ stopped' = stopped
      BY <2>3 DEF Select, Off
    <3>2. CASE trust' \in {"failed", "overlapped"}
      BY <3>2 DEF CacheInv, Trusted, CacheTracksRows
    <3>3. CASE /\ admin'[t].pc = "assign" /\ admin'[t].seen = Off
               /\ Refreshing = {} /\ trust' = Alone
      <4>1. \A u \in Admins : u # t => admin'[u].pc # "assign"
        BY <2>a, <3>3 DEF Refreshing
      <4>2. OneRefresh' /\ SeenRight'
        BY <3>1, <3>3, <4>1 DEF OneRefresh, SeenRight
      <4>3. Waits(t) /\ Waits(t)' /\ admin'[t].dev = admin[t].dev
        BY <2>0, <2>3, <3>3 DEF Select, Waits, Ends, Goes
      <4>4. StoppedRight => StoppedRight'
        BY <2>a, <3>1, <4>3 DEF StoppedRight
      <4>5. trust' = "clean" => trust = "clean"
        BY <3>3 DEF Alone
      <4> QED
        BY <4>2, <4>4, <4>5, Restated DEF CacheInv
    <3> QED
      BY <1>2, <2>3, <3>2, <3>3, Places
  <2>4. CASE Assign(t)
    <3>1. /\ admin[t].pc = "assign" /\ admin'[t].pc = "idle" /\ stopped' = admin[t].seen
          /\ trust' \in {"clean", "recovering"} => Trusted
          /\ Off' = Off
      BY <1>2, <2>4, Places DEF Assign, Seen, Ends, Off, Trusted
    <3>2. CASE ~Trusted
      BY <3>1, <3>2 DEF CacheInv, Trusted, CacheTracksRows
    <3>3. CASE Trusted
      <4>1. \A u \in Admins : u # t => admin[u].pc # "assign" /\ admin'[u].pc # "assign"
        BY <2>a, <3>1, <3>3 DEF CacheInv, OneRefresh
      <4>2. \A u \in Admins : admin'[u].pc # "assign"
        BY <3>1, <4>1
      <4>3. OneRefresh' /\ SeenRight'
        BY <4>2 DEF OneRefresh, SeenRight
      <4>4. StoppedRight'
        <5> SUFFICES ASSUME NEW d \in Devices, \A v \in Admins : Waits(v)' => admin'[v].dev # d
                     PROVE  d \in stopped' <=> d \in Off'
          BY DEF StoppedRight
        <5>1. \A v \in Admins : v # t /\ Waits(v) => admin[v].dev # d
          BY <2>a
        <5> QED
          BY <3>1, <3>3, <5>1 DEF CacheInv, SeenRight
      <4> QED
        BY <4>3, <4>4, Restated DEF CacheInv
    <3> QED
      BY <3>2, <3>3
  <2>5. CASE UnlinkTmp(t) \/ OpenTmp(t) \/ WriteKey(t) \/ ReplaceKey(t) \/ CleanTmp(t) \/ ChmodKey(t)
    <3>1. UNCHANGED <<stopped, trust>> /\ Off' = Off
      BY <2>5 DEF UnlinkTmp, OpenTmp, WriteKey, ReplaceKey, CleanTmp, ChmodKey, cache, Off
    <3>2. admin[t].pc \in WritingSteps
      BY <2>5 DEF UnlinkTmp, OpenTmp, WriteKey, ReplaceKey, CleanTmp, ChmodKey, WritingSteps
    <3>3. admin'[t].pc \in WritingSteps \cup {"idle", "insert"}
      BY <1>2, <2>5, Places DEF Ends, WritingSteps
    <3>4. ~Waits(t) /\ admin[t].pc # "assign" /\ admin'[t].pc # "assign"
      BY <3>2, <3>3 DEF WritingSteps, Waits
    <3> QED
      BY <2>0, <3>1, <3>4, CacheKept
  <2> QED
    BY <1>2, <2>1, <2>2, <2>3, <2>4, <2>5 DEF RequestStep
<1>3. CASE Restart
  <2>1. \A t \in Admins : admin'[t].pc = "idle"
    BY <1>3 DEF Restart, Idle
  <2>2. trust' = "clean" => stopped' = Off'
    BY <1>3 DEF Restart
  <2> QED
    BY <2>1, <2>2 DEF CacheInv, OneRefresh, SeenRight, CacheTracksRows
<1>4. CASE UNCHANGED vars
  <2>1. UNCHANGED <<row, stopped, forced, trust, admin>>
    BY <1>4 DEF vars, requests, cache
  <2> QED
    BY <2>1 DEF CacheInv, OneRefresh, SeenRight, CacheTracksRows, Trusted, Waits, Pending, Off
<1> QED
  BY <1>1, <1>2, <1>3, <1>4 DEF Next

\* Start/Stop reaches the set the gate consults: while the last refreshes neither
\* overlapped nor failed, the set in memory is right of every device no request is
\* changing, whatever other requests do to the others, and the FritzDump device is
\* in it when the module is off, whatever its row says.
THEOREM CacheFollowsTable == Spec => []CacheTracksRows
<1>1. Spec => [](TypeInv /\ RowInv /\ CacheInv)
  BY TypeInit, TypeStep, RowInit, RowStep, CacheInit, CacheStep, PTL DEF Spec
<1>2. CacheInv => CacheTracksRows
  BY DEF CacheInv
<1> QED
  BY <1>1, <1>2, PTL
================================================================================
