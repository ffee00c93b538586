---------------------------- MODULE OperatorProofs ----------------------------
(* Theorems about Operator, for any settings, pins, clients and threads:   *)
(* the memory the capture side reads and the pages follow the table, and   *)
(* no client misses a row.                                                 *)
EXTENDS Operator, TLAPS

LEMMA Bounds ==
  ASSUME NEW n \in Nat
  PROVE  n <= n /\ \A v \in 0 .. n : v \in Nat
OBVIOUS

USE KeysAssumption

-----------------------------------------------------------------------------
\* What a thread of a kind keeps when it moves to its next step.

LEMMA EventMoves ==
  ASSUME NEW e \in Event, NEW p \in {"save", "commit", "tell"}
  PROVE  [e EXCEPT !.pc = p] \in Event
BY DEF Event

LEMMA EventSaved ==
  ASSUME NEW e \in Event
  PROVE  [e EXCEPT !.pc = "tell", !.saved = TRUE] \in Event
BY DEF Event

LEMMA EventCrossed ==
  ASSUME NEW e \in Event
  PROVE  [e EXCEPT !.lone = FALSE] \in Event
BY DEF Event

LEMMA BusyIsEvent ==
  ASSUME handler \in [Handlers -> Event \cup {Idle}], NEW h \in Handlers, handler[h].pc # "idle"
  PROVE  handler[h] \in Event
BY DEF Idle

LEMMA GoesTyped ==
  ASSUME reader \in [Readers -> Load \cup {Idle}], NEW r \in Readers, NEW to \in Load \cup {Idle},
         Goes(r, to)
  PROVE  reader' \in [Readers -> Load \cup {Idle}]
BY DEF Goes

\* A reader that is not idle serves a client; what it holds is typed by its step.
LEMMA ReaderTyped ==
  ASSUME reader \in [Readers -> Load \cup {Idle}], NEW r \in Readers
  PROVE  /\ reader[r].pc # "idle" => reader[r] \in Load /\ reader[r].client \in Clients
         /\ reader[r].pc = "tell settings" =>
              reader[r].read \in [Settings -> BOOLEAN] /\ reader[r].dirty \in SUBSET Keys
         /\ reader[r].pc = "tell pins" =>
              reader[r].read \in [Pins -> BOOLEAN] /\ reader[r].dirty \in SUBSET Keys
         /\ reader[r].pc = "tell rows" => reader[r].version \in 0 .. MaxRow
<1>1. CASE reader[r] \in Telling("tell settings", [Settings -> BOOLEAN])
  BY <1>1 DEF Load, Telling
<1>2. CASE reader[r] \in Telling("tell pins", [Pins -> BOOLEAN])
  BY <1>2 DEF Load, Telling
<1>3. CASE reader[r] \in [pc : {"tell rows"}, client : Clients, version : 0 .. MaxRow]
  BY <1>3 DEF Load
<1>4. CASE reader[r] \in Reading
  BY <1>4 DEF Load, Reading
<1>5. CASE reader[r] = Idle
  BY <1>5 DEF Idle
<1> QED BY <1>1, <1>2, <1>3, <1>4, <1>5 DEF Load

\* A broadcast marks the loads it overtakes and changes nothing else of them.
LEMMA OvertakenTyped ==
  ASSUME reader \in [Readers -> Load \cup {Idle}], NEW k \in Keys
  PROVE  /\ Overtaken(k, reader) \in [Readers -> Load \cup {Idle}]
         /\ \A r \in Readers : /\ Overtaken(k, reader)[r].pc = reader[r].pc
                               /\ Overtaken(k, reader)[r].client = reader[r].client
                               /\ reader[r].pc = "tell rows" => Overtaken(k, reader)[r] = reader[r]
                               /\ reader[r].pc \in {"tell settings", "tell pins"} =>
                                    /\ Overtaken(k, reader)[r].read = reader[r].read
                                    /\ Overtaken(k, reader)[r].dirty = reader[r].dirty \cup {k}
<1> DEFINE S == Telling("tell settings", [Settings -> BOOLEAN])
           P == Telling("tell pins", [Pins -> BOOLEAN])
<1> SUFFICES ASSUME NEW r \in Readers
             PROVE  /\ Overtaken(k, reader)[r] \in Load \cup {Idle}
                    /\ Overtaken(k, reader)[r].pc = reader[r].pc
                    /\ Overtaken(k, reader)[r].client = reader[r].client
                    /\ reader[r].pc = "tell rows" => Overtaken(k, reader)[r] = reader[r]
                    /\ reader[r].pc \in {"tell settings", "tell pins"} =>
                         /\ Overtaken(k, reader)[r].read = reader[r].read
                         /\ Overtaken(k, reader)[r].dirty = reader[r].dirty \cup {k}
  BY DEF Overtaken
<1>1. CASE reader[r] \in S
  <2>1. [reader[r] EXCEPT !.dirty = @ \cup {k}] \in S
    BY <1>1 DEF Telling
  <2> QED BY <1>1, <2>1 DEF Overtaken, Load, Telling
<1>2. CASE reader[r] \in P
  <2>1. [reader[r] EXCEPT !.dirty = @ \cup {k}] \in P
    BY <1>2 DEF Telling
  <2> QED BY <1>2, <2>1 DEF Overtaken, Load, Telling
<1>3. CASE reader[r] \in Reading
  BY <1>3 DEF Overtaken, Load, Reading
<1>4. CASE reader[r] \in [pc : {"tell rows"}, client : Clients, version : 0 .. MaxRow]
  BY <1>4 DEF Overtaken, Load
<1>5. CASE reader[r] = Idle
  <2>1. reader[r].pc = "idle"
    BY <1>5 DEF Idle
  <2>2. Overtaken(k, reader)[r] = reader[r]
    BY <2>1 DEF Overtaken
  <2> QED BY <1>5, <2>1, <2>2
<1> QED BY <1>1, <1>2, <1>3, <1>4, <1>5 DEF Load

-----------------------------------------------------------------------------
(***************************************************************************)
(* Types.                                                                  *)
(***************************************************************************)

\* Every action keeps every variable in its type: a thread is idle or between
\* two steps of its handler, and an announced version is one committed.
THEOREM TypeCorrect == Spec => []TypeOK
<1>1. Init => TypeOK
  <2> SUFFICES ASSUME Init PROVE TypeOK
    OBVIOUS
  <2>1. Over(Seeded, Settings, Unpinned) \in [Keys -> BOOLEAN] /\ Over(Fallback, Settings, Unpinned) \in [Keys -> BOOLEAN]
    BY DEF Over, Keys, Unpinned
  <2> QED BY <2>1 DEF Init, TypeOK, PinLoad
<1>2. TypeOK /\ [Next]_vars => TypeOK'
  <2> SUFFICES ASSUME TypeOK, [Next]_vars PROVE TypeOK'
    OBVIOUS
  <2> USE DEF TypeOK
  <2>1. ASSUME NEW h \in Handlers, NEW k \in Keys, NEW v \in BOOLEAN, Receive(h, k, v) PROVE TypeOK'
    <3>1. \A g \in Handlers : handler'[g] \in Event \cup {Idle}
      <4> SUFFICES ASSUME NEW g \in Handlers PROVE handler'[g] \in Event \cup {Idle}
        OBVIOUS
      <4>1. CASE g = h
        BY <2>1, <4>1 DEF Receive, Event
      <4>2. CASE g # h /\ g \in BusyWith(k)
        BY <2>1, <4>2, BusyIsEvent, EventCrossed DEF Receive, BusyWith, Busy
      <4>3. CASE g # h /\ g \notin BusyWith(k)
        BY <2>1, <4>3 DEF Receive
      <4> QED BY <4>1, <4>2, <4>3
    <3> QED BY <2>1, <3>1 DEF Receive, tables, clients, rows
  <2>2. ASSUME NEW h \in Handlers, Apply(h) PROVE TypeOK'
    <3>1. handler[h] \in Event
      BY <2>2, BusyIsEvent DEF Apply
    <3> QED BY <2>2, <3>1, EventMoves DEF Apply, Step, clients, rows, Event
  <2>3. ASSUME NEW h \in Handlers, Write(h) PROVE TypeOK'
    <3>1. handler[h] \in Event
      BY <2>3, BusyIsEvent DEF Write
    <3>2. shared' \in [Keys -> BOOLEAN]
      BY <2>3, <3>1 DEF Write, Cached, Event
    <3>3. doubt' \in [Clients \cup {Hub} -> SUBSET Keys]
      BY <2>3 DEF Write
    <3> QED BY <2>3, <3>1, <3>2, <3>3, EventMoves DEF Write, Step, clients, rows
  <2>4. ASSUME NEW h \in Handlers, WriteFails(h) PROVE TypeOK'
    <3>1. handler[h] \in Event
      BY <2>4, BusyIsEvent DEF WriteFails
    <3> QED BY <2>4, <3>1, EventMoves DEF WriteFails, Step, tables, clients, rows
  <2>5. ASSUME NEW h \in Handlers, Commit(h) PROVE TypeOK'
    <3>1. handler[h] \in Event
      BY <2>5, BusyIsEvent DEF Commit
    <3>2. stored' \in [Keys -> BOOLEAN]
      BY <2>5, <3>1 DEF Commit, Event
    <3>3. loader' \in PinLoad
      BY <2>5 DEF Commit, PinLoad
    <3> QED BY <2>5, <3>1, <3>2, <3>3, EventSaved DEF Commit, clients, rows
  <2>6. ASSUME NEW h \in Handlers, CommitFails(h) PROVE TypeOK'
    <3>1. handler[h] \in Event
      BY <2>6, BusyIsEvent DEF CommitFails
    <3>2. doubt' \in [Clients \cup {Hub} -> SUBSET Keys]
      BY <2>6, <3>1 DEF CommitFails, Event
    <3> QED BY <2>6, <3>1, <3>2, EventMoves DEF CommitFails, Step, clients, rows
  <2>7. ASSUME NEW h \in Handlers, Tell(h) PROVE TypeOK'
    <3>1. handler[h] \in Event
      BY <2>7, BusyIsEvent DEF Tell
    <3>2. handler[h].key \in Keys /\ handler[h].value \in BOOLEAN
      BY <3>1 DEF Event
    <3>3. view' \in [Clients -> [Keys -> BOOLEAN]]
      BY <2>7, <3>2 DEF Tell
    <3>4. doubt' \in [Clients \cup {Hub} -> SUBSET Keys]
      BY <2>7, <3>2 DEF Tell
    <3>5. reader' \in [Readers -> Load \cup {Idle}]
      BY <2>7, <3>2, OvertakenTyped DEF Tell
    <3> QED BY <2>7, <3>3, <3>4, <3>5 DEF Tell, tables, rows
  <2>8. ASSUME QueryPins PROVE TypeOK'
    <3>1. PinsStored \in [Pins -> BOOLEAN]
      BY DEF PinsStored, Keys
    <3>2. loader' \in PinLoad
      BY <2>8, <3>1 DEF QueryPins, PinLoad
    <3> QED BY <2>8, <3>2 DEF QueryPins, clients, rows
  <2>9. ASSUME AssignPins PROVE TypeOK'
    <3>1. loader.read \in [Pins -> BOOLEAN] /\ loader.dirty \in SUBSET Pins
      BY <2>9 DEF AssignPins, PinLoad
    <3>2. shared' \in [Keys -> BOOLEAN]
      BY <2>9, <3>1 DEF AssignPins, Over
    <3>3. doubt' \in [Clients \cup {Hub} -> SUBSET Keys]
      BY <2>9, <3>1 DEF AssignPins, InTransaction, Keys
    <3> QED BY <2>9, <3>2, <3>3 DEF AssignPins, PinLoad, clients, rows
  <2>10. ASSUME Restart PROVE TypeOK'
    <3>1. shared' \in [Keys -> BOOLEAN]
      BY <2>10 DEF Restart, Over, Unpinned, Keys
    <3>2. doubt' \in [Clients \cup {Hub} -> SUBSET Keys]
      BY <2>10 DEF Restart, Keys
    <3> QED BY <2>10, <3>1, <3>2 DEF Restart, PinLoad
  <2>11. ASSUME Flush PROVE TypeOK'
    <3>1. row' \in 0 .. MaxRow /\ unsent' \in 0 .. MaxRow
      BY <2>11 DEF Flush
    <3>2. shown' \in [Clients -> 0 .. MaxRow]
      BY <2>11 DEF Flush
    <3> QED BY <2>11, <3>1, <3>2 DEF Flush, tables, clients
  <2>12. ASSUME Broadcast PROVE TypeOK'
    BY <2>12 DEF Broadcast, Shown, tables, clients
  <2>13. ASSUME NEW c \in Clients, NEW r \in Readers, NEW fresh \in BOOLEAN, Connect(c, r, fresh) PROVE TypeOK'
    <3>1. Over(Fallback, Settings, Unpinned) \in [Keys -> BOOLEAN]
      BY DEF Over, Keys, Unpinned
    <3>2. reader' \in [Readers -> Load \cup {Idle}]
      BY <2>13 DEF Connect, Load, Reading
    <3>3. view' \in [Clients -> [Keys -> BOOLEAN]] /\ shown' \in [Clients -> 0 .. MaxRow]
      BY <2>13, <3>1 DEF Connect
    <3> QED BY <2>13, <3>2, <3>3 DEF Connect, tables
  <2>14. ASSUME NEW c \in Clients, Disconnect(c) PROVE TypeOK'
    BY <2>14 DEF Disconnect, tables
  <2>15. ASSUME NEW c \in Clients, NEW r \in Readers, RequestInitialData(c, r) PROVE TypeOK'
    BY <2>15 DEF RequestInitialData, Load, Reading, tables, rows
  <2>16. ASSUME NEW r \in Readers, ReadSettings(r) PROVE TypeOK'
    <3>1. reader[r].client \in Clients
      BY <2>16, ReaderTyped DEF ReadSettings
    <3>2. reader' \in [Readers -> Load \cup {Idle}]
      <4>1. ASSUME NEW read \in [Settings -> BOOLEAN], NEW dirty \in SUBSET Keys
            PROVE  [pc |-> "tell settings", client |-> reader[r].client, read |-> read, dirty |-> dirty]
                     \in Load \cup {Idle}
        BY <3>1 DEF Load, Telling
      <4>2. [k \in Settings |-> stored[k]] \in [Settings -> BOOLEAN] /\ Settings \in SUBSET Keys
        BY DEF Keys
      <4> QED BY <2>16, <4>1, <4>2, GoesTyped DEF ReadSettings
    <3> QED BY <2>16, <3>2 DEF ReadSettings, tables, rows
  <2>17. ASSUME NEW r \in Readers, TellSettings(r) PROVE TypeOK'
    <3>1. /\ reader[r].client \in Clients /\ reader[r].read \in [Settings -> BOOLEAN]
          /\ reader[r].dirty \in SUBSET Keys
      BY <2>17, ReaderTyped DEF TellSettings
    <3>2. view' \in [Clients -> [Keys -> BOOLEAN]]
      <4>1. Over(reader[r].read, Settings, view[reader[r].client]) \in [Keys -> BOOLEAN]
        BY <3>1 DEF Over
      <4> QED BY <2>17, <3>1, <4>1 DEF TellSettings
    <3>3. doubt' \in [Clients \cup {Hub} -> SUBSET Keys]
      BY <2>17, <3>1 DEF TellSettings
    <3>4. reader' \in [Readers -> Load \cup {Idle}]
      BY <2>17, <3>1 DEF TellSettings, Goes, Load, Reading
    <3> QED BY <2>17, <3>2, <3>3, <3>4 DEF TellSettings, tables, rows
  <2>18. ASSUME NEW r \in Readers, ReadRows(r) PROVE TypeOK'
    <3>1. reader[r].client \in Clients
      BY <2>18, ReaderTyped DEF ReadRows
    <3>2. reader' \in [Readers -> Load \cup {Idle}]
      <4>1. [pc |-> "tell rows", client |-> reader[r].client, version |-> row] \in Load
        BY <3>1 DEF Load
      <4>2. [pc |-> "pins", client |-> reader[r].client] \in Load
        BY <3>1 DEF Load, Reading
      <4> QED BY <2>18, <4>1, <4>2, GoesTyped DEF ReadRows
    <3> QED BY <2>18, <3>2 DEF ReadRows, tables, rows
  <2>19. ASSUME NEW r \in Readers, TellRows(r) PROVE TypeOK'
    <3>1. reader[r].client \in Clients /\ reader[r].version \in 0 .. MaxRow
      BY <2>19, ReaderTyped DEF TellRows
    <3>2. reader' \in [Readers -> Load \cup {Idle}]
      BY <2>19, <3>1 DEF TellRows, Goes, Load, Reading
    <3>3. shown' \in [Clients -> 0 .. MaxRow]
      BY <2>19, <3>1 DEF TellRows, Shown
    <3>4. waiting' \in SUBSET Clients /\ putBack' \in SUBSET Clients
      BY <2>19, <3>1 DEF TellRows
    <3> QED BY <2>19, <3>2, <3>3, <3>4 DEF TellRows, tables
  <2>20. ASSUME NEW r \in Readers, ReadPins(r) PROVE TypeOK'
    <3>1. reader[r].client \in Clients
      BY <2>20, ReaderTyped DEF ReadPins
    <3>2. PinsStored \in [Pins -> BOOLEAN]
      BY DEF PinsStored, Keys
    <3>3. reader' \in [Readers -> Load \cup {Idle}]
      <4>1. [pc |-> "tell pins", client |-> reader[r].client, read |-> PinsStored, dirty |-> {}] \in Load
        BY <3>1, <3>2 DEF Load, Telling
      <4> QED BY <2>20, <4>1, GoesTyped DEF ReadPins
    <3> QED BY <2>20, <3>3 DEF ReadPins, tables, rows
  <2>21. ASSUME NEW r \in Readers, TellPins(r) PROVE TypeOK'
    <3>1. /\ reader[r].client \in Clients /\ reader[r].read \in [Pins -> BOOLEAN]
          /\ reader[r].dirty \in SUBSET Keys
      BY <2>21, ReaderTyped DEF TellPins
    <3>2. view' \in [Clients -> [Keys -> BOOLEAN]]
      BY <2>21, <3>1 DEF TellPins, Pinned
    <3>3. doubt' \in [Clients \cup {Hub} -> SUBSET Keys]
      BY <2>21, <3>1 DEF TellPins
    <3>4. reader' \in [Readers -> Load \cup {Idle}]
      BY <2>21 DEF TellPins, Goes
    <3> QED BY <2>21, <3>2, <3>3, <3>4 DEF TellPins, tables, rows
  <2>22. CASE UNCHANGED vars
    BY <2>22 DEF vars, tables, clients, rows
  <2> HIDE DEF TypeOK
  <2> QED
    BY <2>1, <2>2, <2>3, <2>4, <2>5, <2>6, <2>7, <2>8, <2>9, <2>10, <2>11, <2>12, <2>13, <2>14,
       <2>15, <2>16, <2>17, <2>18, <2>19, <2>20, <2>21, <2>22 DEF Next, HandlerStep, ReaderStep
<1> QED BY <1>1, <1>2, PTL DEF Spec

-----------------------------------------------------------------------------
(***************************************************************************)
(* No client misses a row.  A load that has read the table and not yet     *)
(* sent it carries the latest version, or its client shows that version    *)
(* (or was put back from it by another load), or the broadcast is still to *)
(* come: a client that is served is online, so a broadcast reaches it.     *)
(***************************************************************************)
ShowsLatest(c) == unsent = 0 => shown[c] = row \/ c \in putBack

UnsentIsLatest   == unsent \in {0, row} /\ waiting \subseteq online
LoadsServeOnline == \A r \in Readers : reader[r].pc # "idle" => reader[r].client \in online
LoadsKeepUp      == \A r \in Readers : reader[r].pc = "tell rows" =>
                      /\ reader[r].version <= row
                      /\ reader[r].version = row \/ ShowsLatest(reader[r].client)
OthersAreServed  == \A c \in online \ waiting : ShowsLatest(c)

RowInv == UnsentIsLatest /\ LoadsServeOnline /\ LoadsKeepUp /\ OthersAreServed

\* An action that leaves rows and connections alone keeps RowInv if no load
\* reaches "tell rows" by it.
LEMMA RowsUntouched ==
  ASSUME TypeOK, RowInv, UNCHANGED <<rows, online>>,
         \A r \in Readers :
            \/ reader'[r] = reader[r]
            \/ reader'[r].pc = reader[r].pc /\ reader'[r].client = reader[r].client
               /\ (reader[r].pc = "tell rows" => reader'[r] = reader[r])
            \/ reader'[r].pc = "idle"
            \/ reader'[r].pc # "tell rows" /\ reader'[r].client \in online
  PROVE  RowInv'
BY DEF RowInv, UnsentIsLatest, LoadsServeOnline, LoadsKeepUp, OthersAreServed, ShowsLatest,
       rows, TypeOK

LEMMA RowStep ==
  ASSUME TypeOK, RowInv, [Next]_vars
  PROVE  RowInv'
<1>a. row \in Nat /\ online \subseteq Clients /\ \A c \in Clients : shown[c] \in Nat
  BY DEF TypeOK
<1>b. \A r \in Readers : reader[r].pc = "tell rows" => reader[r].version \in Nat /\ reader[r].client \in Clients
  <2> SUFFICES ASSUME NEW r \in Readers, reader[r].pc = "tell rows"
               PROVE  reader[r].version \in Nat /\ reader[r].client \in Clients
    OBVIOUS
  <2>1. reader[r].version \in 0 .. MaxRow /\ reader[r].client \in Clients
    BY ReaderTyped DEF TypeOK
  <2>2. \A v \in 0 .. MaxRow : v \in Nat
    BY Bounds
  <2> QED BY <2>1, <2>2
<1>c. unsent \in {0, row} /\ waiting \subseteq online
  BY DEF RowInv, UnsentIsLatest
<1>e. \A r \in Readers : reader[r].pc # "idle" => reader[r].client \in online
  BY DEF RowInv, LoadsServeOnline
<1>f. \A r \in Readers : reader[r].pc = "tell rows" =>
        /\ reader[r].version <= row
        /\ \/ reader[r].version = row
           \/ unsent = 0 => shown[reader[r].client] = row \/ reader[r].client \in putBack
  BY DEF RowInv, LoadsKeepUp, ShowsLatest
<1>g. \A c \in online \ waiting : unsent = 0 => shown[c] = row \/ c \in putBack
  BY DEF RowInv, OthersAreServed, ShowsLatest
<1>1. ASSUME NEW h \in Handlers, HandlerStep(h), ~Tell(h) PROVE RowInv'
  <2>1. UNCHANGED <<rows, online, reader>>
    BY <1>1 DEF HandlerStep, Receive, Apply, Write, WriteFails, Commit, CommitFails, clients
  <2> QED BY <2>1, RowsUntouched
<1>2. ASSUME NEW h \in Handlers, Tell(h) PROVE RowInv'
  <2>1. handler[h].key \in Keys
    BY <1>2, BusyIsEvent DEF Tell, Event, TypeOK
  <2>2. \A r \in Readers : /\ reader'[r].pc = reader[r].pc /\ reader'[r].client = reader[r].client
                           /\ reader[r].pc = "tell rows" => reader'[r] = reader[r]
    BY <1>2, <2>1, OvertakenTyped DEF Tell, TypeOK
  <2>3. UNCHANGED <<rows, online>>
    BY <1>2 DEF Tell
  <2> QED BY <2>2, <2>3, RowsUntouched
<1>3. ASSUME QueryPins \/ AssignPins PROVE RowInv'
  <2>1. UNCHANGED <<rows, online, reader>>
    BY <1>3 DEF QueryPins, AssignPins, clients
  <2> QED BY <2>1, RowsUntouched
<1>4. ASSUME Restart PROVE RowInv'
  <2>1. /\ row' = row /\ online' = {} /\ waiting' = {} /\ unsent' = 0
        /\ \A r \in Readers : reader'[r].pc = "idle"
    BY <1>4 DEF Restart, Idle
  <2> QED BY <2>1 DEF RowInv, UnsentIsLatest, LoadsServeOnline, LoadsKeepUp, OthersAreServed
<1>5. ASSUME Flush PROVE RowInv'
  <2>1. /\ row' = row + 1 /\ unsent' = row' /\ row' # 0
        /\ UNCHANGED <<waiting, online, reader>>
    BY <1>5, <1>a DEF Flush, clients
  <2>3. ASSUME NEW r \in Readers, reader'[r].pc = "tell rows" PROVE reader'[r].version <= row'
    <3>1. reader'[r] = reader[r]
      BY <2>1
    <3>2. PICK v \in Nat : v = reader[r].version /\ v <= row
      BY <3>1, <2>3, <1>b, <1>f
    <3>3. v <= row + 1
      BY <3>2, <1>a
    <3> QED BY <2>1, <3>1, <3>2, <3>3
  <2>4. unsent' # 0
    BY <2>1
  <2>5. UnsentIsLatest' /\ LoadsServeOnline'
    BY <2>1, <1>c, <1>e DEF UnsentIsLatest, LoadsServeOnline
  <2>7. LoadsKeepUp' /\ OthersAreServed'
    BY <2>3, <2>4 DEF LoadsKeepUp, OthersAreServed, ShowsLatest
  <2> QED BY <2>5, <2>7 DEF RowInv
<1>6. ASSUME Broadcast PROVE RowInv'
  <2>1. unsent = row /\ unsent' = 0 /\ row' = row /\ UNCHANGED <<online, reader, waiting>>
    BY <1>6, <1>c DEF Broadcast, clients
  <2>3. \A c \in online : shown'[c] = row'
    BY <1>6, <2>1, <1>a DEF Broadcast, Shown, Audience
  <2>4. UnsentIsLatest' /\ LoadsServeOnline'
    BY <2>1, <1>c, <1>e DEF UnsentIsLatest, LoadsServeOnline
  <2>6. OthersAreServed'
    BY <2>1, <2>3, <1>a DEF OthersAreServed, ShowsLatest
  <2>7. ASSUME NEW r \in Readers, reader'[r].pc = "tell rows"
        PROVE  reader'[r].version <= row' /\ ShowsLatest(reader[r].client)'
    <3>1. reader[r].pc = "tell rows" /\ reader[r].client \in online /\ reader[r].version <= row
      BY <2>1, <2>7, <1>e, <1>f
    <3>2. PICK c \in Clients : c = reader[r].client
      BY <3>1, <1>a
    <3>3. shown'[c] = row' /\ reader'[r].client = c
      BY <2>1, <2>3, <3>1, <3>2
    <3> QED BY <2>1, <3>1, <3>2, <3>3 DEF ShowsLatest
  <2>8. LoadsKeepUp'
    BY <2>1, <2>7 DEF LoadsKeepUp
  <2> QED BY <2>4, <2>6, <2>8 DEF RowInv
<1>7. ASSUME NEW c \in Clients, NEW r \in Readers, NEW fresh \in BOOLEAN, Connect(c, r, fresh) PROVE RowInv'
  <2>1. /\ c \notin online /\ online' = online \cup {c} /\ waiting' = waiting \cup {c}
        /\ UNCHANGED <<row, unsent>>
    BY <1>7 DEF Connect
  <2>2. /\ reader'[r].pc = "settings" /\ reader'[r].client = c
        /\ \A q \in Readers \ {r} : reader'[q] = reader[q]
    BY <1>7 DEF Connect, TypeOK
  <2>3. /\ \A d \in Clients \ {c} : shown'[d] = shown[d]
        /\ putBack' = putBack \ {c}
    BY <1>7 DEF Connect, TypeOK
  <2>5. LoadsServeOnline'
    BY <2>1, <2>2, <1>e DEF LoadsServeOnline
  <2>6. ASSUME NEW q \in Readers, reader'[q].pc = "tell rows"
        PROVE  q # r /\ reader'[q] = reader[q] /\ reader[q].client \in Clients \ {c}
    BY <2>1, <2>2, <2>6, <1>b, <1>e
  <2>7. LoadsKeepUp'
    BY <2>1, <2>3, <2>6, <1>f DEF LoadsKeepUp, ShowsLatest
  <2>8. OthersAreServed'
    BY <2>1, <2>3, <1>a, <1>g DEF OthersAreServed, ShowsLatest
  <2>9. UnsentIsLatest'
    BY <2>1, <1>c DEF UnsentIsLatest
  <2> QED BY <2>5, <2>7, <2>8, <2>9 DEF RowInv
<1>8. ASSUME NEW c \in Clients, Disconnect(c) PROVE RowInv'
  <2>1. /\ online' = online \ {c} /\ waiting' = waiting \ {c} /\ UNCHANGED <<row, unsent, shown, putBack>>
        /\ reader' = [q \in Readers |-> IF Serves(q, c) THEN Idle ELSE reader[q]]
    BY <1>8 DEF Disconnect
  <2>2. ASSUME NEW r \in Readers, reader'[r].pc # "idle"
        PROVE  reader'[r] = reader[r] /\ reader[r].client \in online'
    <3>1. ~Serves(r, c) /\ reader'[r] = reader[r]
      BY <2>1, <2>2 DEF Idle
    <3> QED BY <2>1, <2>2, <3>1, <1>e DEF Serves
  <2>3. LoadsServeOnline'
    BY <2>2 DEF LoadsServeOnline
  <2>4. LoadsKeepUp'
    BY <2>1, <2>2, <1>f DEF LoadsKeepUp, ShowsLatest
  <2>5. UnsentIsLatest' /\ OthersAreServed'
    BY <2>1, <1>c, <1>g DEF UnsentIsLatest, OthersAreServed, ShowsLatest
  <2> QED BY <2>3, <2>4, <2>5 DEF RowInv
<1>9. ASSUME NEW c \in Clients, NEW r \in Readers, RequestInitialData(c, r) PROVE RowInv'
  <2>1. /\ c \in online /\ UNCHANGED <<rows, online>>
        /\ reader'[r].pc = "settings" /\ reader'[r].client = c
        /\ \A q \in Readers \ {r} : reader'[q] = reader[q]
    BY <1>9 DEF RequestInitialData, TypeOK
  <2> QED BY <2>1, RowsUntouched
<1>10. ASSUME NEW r \in Readers, ReaderStep(r), ~ReadRows(r), ~TellRows(r) PROVE RowInv'
  <2>1. reader[r].client \in online
    BY <1>10, <1>e DEF ReaderStep, ReadSettings, TellSettings, ReadPins, TellPins
  <2>2. PICK to : Goes(r, to) /\ (to = Idle \/ (to.pc # "tell rows" /\ to.client = reader[r].client))
    <3> DEFINE c == reader[r].client
    <3>1. ASSUME NEW read, NEW dirty
          PROVE  /\ [pc |-> "tell settings", client |-> c, read |-> read, dirty |-> dirty].pc # "tell rows"
                 /\ [pc |-> "tell settings", client |-> c, read |-> read, dirty |-> dirty].client = c
                 /\ [pc |-> "tell pins", client |-> c, read |-> read, dirty |-> dirty].pc # "tell rows"
                 /\ [pc |-> "tell pins", client |-> c, read |-> read, dirty |-> dirty].client = c
      OBVIOUS
    <3>2. [pc |-> "rows", client |-> c].pc # "tell rows" /\ [pc |-> "rows", client |-> c].client = c
      OBVIOUS
    <3>3. CASE ReadSettings(r)
      BY <3>1, <3>3 DEF ReadSettings
    <3>4. CASE TellSettings(r)
      BY <3>2, <3>4 DEF TellSettings
    <3>5. CASE ReadPins(r)
      BY <3>1, <3>5 DEF ReadPins
    <3>6. CASE TellPins(r)
      BY <3>6 DEF TellPins
    <3> QED BY <1>10, <3>3, <3>4, <3>5, <3>6 DEF ReaderStep
  <2>3. reader'[r] = to /\ \A q \in Readers \ {r} : reader'[q] = reader[q]
    BY <2>2 DEF Goes, TypeOK
  <2>4. UNCHANGED <<rows, online>>
    BY <1>10 DEF ReaderStep, ReadSettings, TellSettings, ReadPins, TellPins
  <2>5. reader'[r].pc = "idle" \/ (reader'[r].pc # "tell rows" /\ reader'[r].client \in online)
    <3>1. CASE to = Idle
      BY <2>3, <3>1 DEF Idle
    <3>2. CASE to.pc # "tell rows" /\ to.client = reader[r].client
      BY <2>1, <2>3, <3>2
    <3> QED BY <2>2, <3>1, <3>2
  <2> QED BY <2>3, <2>4, <2>5, RowsUntouched
<1>11. ASSUME NEW r \in Readers, ReadRows(r) PROVE RowInv'
  <2> DEFINE full(c)  == [pc |-> "tell rows", client |-> c, version |-> row]
             empty(c) == [pc |-> "pins", client |-> c]
  <2>1. PICK c \in online : c = reader[r].client
    BY <1>11, <1>e DEF ReadRows
  <2>2. /\ UNCHANGED <<row, unsent, shown, waiting, putBack, online>>
        /\ \A q \in Readers \ {r} : reader'[q] = reader[q]
        /\ reader'[r] = full(c) \/ reader'[r] = empty(c)
    BY <1>11, <2>1 DEF ReadRows, Goes, TypeOK, rows
  <2>3. full(c).client = c /\ full(c).version = row /\ empty(c).client = c /\ empty(c).pc = "pins"
    OBVIOUS
  <2> HIDE DEF full, empty
  <2>4. LoadsServeOnline'
    BY <2>1, <2>2, <2>3, <1>e DEF LoadsServeOnline
  <2>5. LoadsKeepUp'
    <3> SUFFICES ASSUME NEW q \in Readers, reader'[q].pc = "tell rows"
                 PROVE  /\ reader'[q].version <= row
                        /\ \/ reader'[q].version = row
                           \/ unsent = 0 => shown[reader'[q].client] = row \/ reader'[q].client \in putBack
      BY <2>2 DEF LoadsKeepUp, ShowsLatest
    <3>1. CASE q # r
      BY <3>1, <2>2, <1>f
    <3>2. CASE q = r
      <4>1. reader'[q].version = row /\ row <= row
        <5>1. reader'[q] = full(c)
          BY <3>2, <2>2, <2>3
        <5>2. row <= row
          BY <1>a, Bounds
        <5> QED BY <5>1, <5>2, <2>3
      <4> QED BY <4>1
    <3> QED BY <3>1, <3>2
  <2>6. UnsentIsLatest' /\ OthersAreServed'
    BY <2>2, <1>c, <1>g DEF UnsentIsLatest, OthersAreServed, ShowsLatest
  <2> QED BY <2>4, <2>5, <2>6 DEF RowInv
<1>12. ASSUME NEW r \in Readers, TellRows(r) PROVE RowInv'
  <2>0. PICK c \in Clients, v \in Nat : c = reader[r].client /\ v = reader[r].version
    BY <1>12, <1>b DEF TellRows
  <2>1. c \in online /\ v <= row /\ (v = row \/ (unsent = 0 => shown[c] = row \/ c \in putBack))
    BY <1>12, <2>0, <1>e, <1>f DEF TellRows
  <2>2. /\ UNCHANGED <<row, unsent, online>> /\ waiting' = waiting \ {c}
        /\ reader'[r].pc = "pins" /\ reader'[r].client = c
        /\ \A q \in Readers \ {r} : reader'[q] = reader[q]
    BY <1>12, <2>0 DEF TellRows, Goes, TypeOK
  <2>3. /\ shown'[c] = v /\ \A d \in Clients \ {c} : shown'[d] = shown[d]
        /\ putBack' = IF v < shown[c] THEN putBack \cup {c}
                      ELSE IF v = row THEN putBack \ {c} ELSE putBack
    BY <1>12, <2>0 DEF TellRows, Shown
  <2>4. unsent = 0 => shown'[c] = row \/ c \in putBack'
    <3>1. v = row => shown'[c] = row
      BY <2>3
    <3>2. CASE v # row /\ v < shown[c]
      BY <2>3, <3>2
    <3>3. CASE v # row /\ ~(v < shown[c])
      <4>1. shown[c] # row
        BY <2>1, <3>3, <1>a
      <4> QED BY <2>1, <2>3, <3>3, <4>1
    <3> QED BY <3>1, <3>2, <3>3
  <2>5. ASSUME NEW d \in Clients, unsent = 0 => shown[d] = row \/ d \in putBack
        PROVE  unsent = 0 => shown'[d] = row \/ d \in putBack'
    BY <2>3, <2>4, <2>5
  <2>6. LoadsServeOnline'
    BY <2>1, <2>2, <1>e DEF LoadsServeOnline
  <2>7. ASSUME NEW q \in Readers, reader'[q].pc = "tell rows"
        PROVE  q # r /\ reader'[q] = reader[q] /\ reader[q].client \in Clients
    BY <2>2, <2>7, <1>b
  <2>8. LoadsKeepUp'
    BY <2>2, <2>5, <2>7, <1>f DEF LoadsKeepUp, ShowsLatest
  <2>9. OthersAreServed'
    BY <2>2, <2>4, <2>5, <1>a, <1>g DEF OthersAreServed, ShowsLatest
  <2>10. UnsentIsLatest'
    BY <2>2, <1>c DEF UnsentIsLatest
  <2> QED BY <2>6, <2>8, <2>9, <2>10 DEF RowInv
<1>13. CASE UNCHANGED vars
  BY <1>13, RowsUntouched DEF vars, clients
<1> QED
  BY <1>1, <1>2, <1>3, <1>4, <1>5, <1>6, <1>7, <1>8, <1>9, <1>10, <1>11, <1>12, <1>13 DEF Next

\* Joining before reading loses nothing: a client whose initial rows have
\* reached it has been shown the latest version committed and broadcast.
THEOREM NoRowIsMissed == Spec => []ConnectMissesNothing
<1>1. Init => RowInv
  <2> SUFFICES ASSUME Init PROVE RowInv
    OBVIOUS
  <2>1. \A r \in Readers : reader[r].pc = "idle"
    BY DEF Init, Idle
  <2> QED BY <2>1 DEF Init, RowInv, UnsentIsLatest, LoadsServeOnline, LoadsKeepUp, OthersAreServed
<1>2. TypeOK /\ RowInv /\ [Next]_vars => RowInv'
  BY RowStep
<1>3. RowInv => ConnectMissesNothing
  BY DEF RowInv, OthersAreServed, ShowsLatest, ConnectMissesNothing
<1> QED BY <1>1, <1>2, <1>3, TypeCorrect, PTL DEF Spec

-----------------------------------------------------------------------------
(***************************************************************************)
(* The memory follows the table.  A setting is safe with an event that has *)
(* the key to itself; a pin is safe inside the transaction, where db_lock  *)
(* keeps all others out, and the pin load knows which pins it missed.      *)
(***************************************************************************)
LoneHasNoRival ==
  \A h, g \in Handlers : h # g /\ Busy(h) /\ Busy(g) /\ handler[h].key = handler[g].key
    => ~handler[h].lone
SavedIsTold == \A h \in Handlers : handler[h].pc \in {"apply", "save", "commit"} => ~handler[h].saved
AppliesSettings == \A h \in Handlers : handler[h].pc = "apply" => handler[h].key \in Settings
LoneApplied ==
  \A h \in Handlers : handler[h].pc \in {"save", "commit", "tell"} /\ handler[h].lone
                      /\ handler[h].key \in Settings =>
    /\ shared[handler[h].key] = handler[h].value
    /\ handler[h].saved => stored[handler[h].key] = handler[h].value
SettingsFollow == \A k \in Settings \ doubt[Hub] : BusyWith(k) = {} => shared[k] = stored[k]
LockHeld == \A h \in Handlers : handler[h].pc = "commit" => dbLock = h
PinWritten ==
  \A h \in Handlers : handler[h].pc = "commit" /\ handler[h].key \in Pins \ doubt[Hub]
    => shared[handler[h].key] = handler[h].value
PinsFollow == \A p \in Pins \ doubt[Hub] : p \notin InTransaction => shared[p] = stored[p]
LoadKnows == loader.pc = "assign" => \A p \in Pins \ loader.dirty : loader.read[p] = stored[p]

MemoryInv ==
  /\ LoneHasNoRival /\ SavedIsTold /\ AppliesSettings /\ LoneApplied /\ SettingsFollow
  /\ LockHeld /\ PinWritten /\ PinsFollow /\ LoadKnows

\* An action that touches none of what the invariant reads keeps it.
LEMMA MemoryUntouched ==
  ASSUME MemoryInv, UNCHANGED <<tables, handler>>, doubt'[Hub] = doubt[Hub]
  PROVE  MemoryInv'
BY DEF MemoryInv, LoneHasNoRival, SavedIsTold, AppliesSettings, LoneApplied, SettingsFollow, LockHeld, PinWritten,
       PinsFollow, LoadKnows, tables, Busy, BusyWith, InTransaction

LEMMA EventFields ==
  ASSUME NEW e \in Event, NEW p \in {"save", "commit", "tell"}
  PROVE  /\ [e EXCEPT !.pc = p].pc = p /\ [e EXCEPT !.pc = p].key = e.key
         /\ [e EXCEPT !.pc = p].value = e.value /\ [e EXCEPT !.pc = p].lone = e.lone
         /\ [e EXCEPT !.pc = p].saved = e.saved
         /\ e.key \in Keys /\ e.value \in BOOLEAN /\ e.lone \in BOOLEAN /\ e.saved \in BOOLEAN
BY DEF Event

\* A step of h to pc p: its other fields and the other handlers stay.
LEMMA HandlerMoves ==
  ASSUME TypeOK, NEW h \in Handlers, Busy(h), NEW p \in {"save", "commit", "tell"}, Step(h, p)
  PROVE  /\ handler'[h].pc = p /\ handler'[h].key = handler[h].key
         /\ handler'[h].value = handler[h].value /\ handler'[h].lone = handler[h].lone
         /\ handler'[h].saved = handler[h].saved
         /\ handler[h].key \in Keys /\ handler[h].value \in BOOLEAN
         /\ \A g \in Handlers \ {h} : handler'[g] = handler[g]
         /\ \A k : BusyWith(k)' = BusyWith(k)
<1>1. handler[h] \in Event /\ handler'[h] = [handler[h] EXCEPT !.pc = p]
  BY BusyIsEvent DEF Busy, Step, TypeOK
<1>2. \A g \in Handlers \ {h} : handler'[g] = handler[g]
  BY DEF Step, TypeOK
<1>3. Busy(h)' /\ handler'[h].key = handler[h].key
  BY <1>1, EventFields DEF Busy
<1>4. \A k : BusyWith(k)' = BusyWith(k)
  BY <1>2, <1>3 DEF BusyWith, Busy
<1> QED BY <1>1, <1>2, <1>4, EventFields

LEMMA MemoryStep ==
  ASSUME TypeOK, MemoryInv, [Next]_vars
  PROVE  MemoryInv'
<1> USE DEF LoneHasNoRival, SavedIsTold, AppliesSettings, LoneApplied, SettingsFollow, LockHeld,
            PinWritten, PinsFollow, LoadKnows
<1>a. /\ LoneHasNoRival /\ SavedIsTold /\ AppliesSettings /\ LoneApplied /\ SettingsFollow
      /\ LockHeld /\ PinWritten /\ PinsFollow /\ LoadKnows
  BY DEF MemoryInv
<1>b. /\ stored \in [Keys -> BOOLEAN] /\ shared \in [Keys -> BOOLEAN]
      /\ doubt \in [Clients \cup {Hub} -> SUBSET Keys]
  BY DEF TypeOK
<1>c. Keys = Settings \cup Pins /\ Settings \cap Pins = {}
  BY DEF Keys
<1>1. ASSUME NEW h \in Handlers, NEW k \in Keys, NEW v \in BOOLEAN, Receive(h, k, v) PROVE MemoryInv'
  <2>1. /\ handler[h].pc = "idle" /\ handler'[h].key = k /\ handler'[h].value = v
        /\ handler'[h].lone = (BusyWith(k) = {}) /\ handler'[h].saved = FALSE
        /\ handler'[h].pc = IF k \in Settings THEN "apply" ELSE "save"
        /\ UNCHANGED <<stored, shared, dbLock, loader, doubt>>
    BY <1>1 DEF Receive, tables
  <2>2. ASSUME NEW g \in Handlers \ {h}
        PROVE  /\ handler'[g].pc = handler[g].pc /\ handler'[g].key = handler[g].key
               /\ handler'[g].value = handler[g].value /\ handler'[g].saved = handler[g].saved
               /\ IF g \in BusyWith(k) THEN ~handler'[g].lone ELSE handler'[g] = handler[g]
    <3>1. CASE g \in BusyWith(k)
      <4>1. handler[g] \in Event /\ handler'[g] = [handler[g] EXCEPT !.lone = FALSE]
        BY <1>1, <3>1, BusyIsEvent DEF Receive, BusyWith, Busy, TypeOK
      <4> QED BY <3>1, <4>1 DEF Event
    <3>2. CASE g \notin BusyWith(k)
      BY <1>1, <3>2 DEF Receive
    <3> QED BY <3>1, <3>2
  <2>3. LoneHasNoRival'
    <3> SUFFICES ASSUME NEW f \in Handlers, NEW g \in Handlers, f # g, Busy(f)', Busy(g)',
                        handler'[f].key = handler'[g].key
                 PROVE  ~handler'[f].lone
      OBVIOUS
    <3>1. CASE f = h
      <4>1. g \in BusyWith(k)
        BY <3>1, <2>1, <2>2 DEF Busy, BusyWith
      <4> QED BY <3>1, <4>1, <2>1
    <3>2. CASE g = h
      <4>1. f \in BusyWith(k)
        BY <3>2, <2>1, <2>2 DEF Busy, BusyWith
      <4> QED BY <3>2, <4>1, <2>2
    <3>3. CASE f # h /\ g # h
      <4>1. Busy(f) /\ Busy(g) /\ handler[f].key = handler[g].key
        BY <3>3, <2>2 DEF Busy
      <4>2. ~handler[f].lone
        BY <4>1, <1>a
      <4> QED BY <3>3, <4>2, <2>2
    <3> QED BY <3>1, <3>2, <3>3
  <2>4. SavedIsTold' /\ AppliesSettings' /\ LockHeld'
    BY <2>1, <2>2, <1>a
  <2>5. LoneApplied'
    BY <2>1, <2>2, <1>a, <1>c
  <2>6. SettingsFollow'
    BY <2>1, <2>2, <1>a DEF Busy, BusyWith
  <2>7. InTransaction' = InTransaction
    BY <2>1, <2>2 DEF InTransaction
  <2>8. PinWritten' /\ PinsFollow' /\ LoadKnows'
    BY <2>1, <2>2, <2>7, <1>a
  <2> QED BY <2>3, <2>4, <2>5, <2>6, <2>8 DEF MemoryInv
<1>2. ASSUME NEW h \in Handlers, Apply(h) PROVE MemoryInv'
  <2>1. Busy(h) /\ handler[h].pc = "apply" /\ Step(h, "save") /\ UNCHANGED <<stored, dbLock, loader, doubt>>
    BY <1>2 DEF Apply, Busy
  <2>2. /\ shared'[handler[h].key] = handler[h].value
        /\ \A x \in Keys : x # handler[h].key => shared'[x] = shared[x]
        /\ handler[h].key \in Settings
    BY <1>2, <2>1, <1>a, <1>b, HandlerMoves DEF Apply
  <2>3. LoneHasNoRival' /\ SavedIsTold' /\ AppliesSettings' /\ LockHeld'
    BY <2>1, <1>a, HandlerMoves DEF Busy
  <2>4. LoneApplied'
    BY <2>1, <2>2, <1>a, <1>c, HandlerMoves DEF Busy
  <2>5. SettingsFollow'
    <3> SUFFICES ASSUME NEW k \in Settings \ doubt'[Hub], BusyWith(k)' = {}
                 PROVE  shared'[k] = stored'[k]
      OBVIOUS
    <3>1. BusyWith(k) = {} /\ k # handler[h].key
      BY <2>1, HandlerMoves DEF BusyWith
    <3> QED BY <2>1, <2>2, <3>1, <1>a, <1>c
  <2>6. InTransaction' = InTransaction
    BY <2>1, <2>2, <1>c, HandlerMoves DEF InTransaction
  <2>7. PinWritten' /\ PinsFollow' /\ LoadKnows'
    BY <2>1, <2>2, <2>6, <1>a, <1>c, HandlerMoves
  <2> QED BY <2>3, <2>4, <2>5, <2>7 DEF MemoryInv
<1>3. ASSUME NEW h \in Handlers, Write(h) PROVE MemoryInv'
  <2> DEFINE key == handler[h].key
  <2>1. /\ Busy(h) /\ handler[h].pc = "save" /\ Step(h, "commit") /\ dbLock = Nobody /\ dbLock' = h
        /\ UNCHANGED <<stored, loader>>
    BY <1>3 DEF Write, Busy
  <2>2. \A g \in Handlers : handler[g].pc # "commit"
    BY <2>1, <1>a
  <2>3. InTransaction = {} /\ InTransaction' = {key} \cap Pins
    BY <2>1, <2>2, HandlerMoves DEF InTransaction
  <2>4. /\ key \in Keys /\ handler'[h].key = key /\ handler'[h].value = handler[h].value
        /\ \A x \in Keys : shared'[x] = IF x = key /\ x \in Pins THEN handler[h].value ELSE shared[x]
        /\ doubt'[Hub] = doubt[Hub] \ (Pins \cap {key})
    BY <1>3, <2>1, <1>b, HandlerMoves DEF Write, Cached
  <2>5. LoneHasNoRival' /\ SavedIsTold' /\ AppliesSettings' /\ LockHeld'
    BY <2>1, <2>2, <1>a, HandlerMoves DEF Busy
  <2>6. LoneApplied'
    <3> SUFFICES ASSUME NEW g \in Handlers, handler'[g].pc \in {"save", "commit", "tell"},
                        handler'[g].lone, handler'[g].key \in Settings
                 PROVE  /\ shared'[handler'[g].key] = handler'[g].value
                        /\ handler'[g].saved => stored'[handler'[g].key] = handler'[g].value
      OBVIOUS
    <3>1. /\ handler[g].pc \in {"save", "commit", "tell"} /\ handler[g].lone
          /\ handler'[g].key = handler[g].key /\ handler'[g].value = handler[g].value
          /\ handler'[g].saved = handler[g].saved
      BY <2>1, HandlerMoves
    <3>2. shared'[handler[g].key] = shared[handler[g].key]
      BY <3>1, <2>4, <1>c
    <3> QED BY <2>1, <3>1, <3>2, <1>a
  <2>7. SettingsFollow'
    <3> SUFFICES ASSUME NEW k \in Settings \ doubt'[Hub], BusyWith(k)' = {}
                 PROVE  shared'[k] = stored'[k]
      OBVIOUS
    <3>1. BusyWith(k) = {} /\ k \notin doubt[Hub]
      BY <2>1, <2>4, <1>c, HandlerMoves
    <3> QED BY <2>1, <2>4, <3>1, <1>a, <1>c
  <2>8. PinWritten'
    BY <2>1, <2>2, <2>4, HandlerMoves
  <2>9. PinsFollow'
    BY <2>1, <2>3, <2>4, <1>a, <1>c
  <2>10. LoadKnows'
    BY <2>1, <1>a
  <2> QED BY <2>5, <2>6, <2>7, <2>8, <2>9, <2>10 DEF MemoryInv
<1>4. ASSUME NEW h \in Handlers, WriteFails(h) PROVE MemoryInv'
  <2>1. Busy(h) /\ handler[h].pc = "save" /\ Step(h, "tell") /\ UNCHANGED <<stored, shared, dbLock, loader, doubt>>
    BY <1>4 DEF WriteFails, Busy, tables
  <2>2. InTransaction' = InTransaction
    BY <2>1, HandlerMoves DEF InTransaction
  <2>3. LoneHasNoRival' /\ SavedIsTold' /\ AppliesSettings' /\ LockHeld'
    BY <2>1, <1>a, HandlerMoves DEF Busy
  <2>4. LoneApplied'
    BY <2>1, <1>a, HandlerMoves
  <2>5. SettingsFollow' /\ PinWritten' /\ PinsFollow' /\ LoadKnows'
    BY <2>1, <2>2, <1>a, HandlerMoves
  <2> QED BY <2>3, <2>4, <2>5 DEF MemoryInv
<1>5. ASSUME NEW h \in Handlers, Commit(h) PROVE MemoryInv'
  <2> DEFINE key == handler[h].key
  <2>1. /\ Busy(h) /\ handler[h].pc = "commit" /\ handler[h] \in Event /\ key \in Keys
        /\ UNCHANGED <<shared, doubt>>
    BY <1>5, BusyIsEvent DEF Commit, Busy, Event, TypeOK
  <2>2. /\ handler'[h].pc = "tell" /\ handler'[h].key = key /\ handler'[h].value = handler[h].value
        /\ handler'[h].lone = handler[h].lone /\ handler'[h].saved
        /\ \A g \in Handlers \ {h} : handler'[g] = handler[g]
    <3>1. handler'[h] = [handler[h] EXCEPT !.pc = "tell", !.saved = TRUE]
      BY <1>5 DEF Commit, TypeOK
    <3>2. \A g \in Handlers \ {h} : handler'[g] = handler[g]
      BY <1>5 DEF Commit, TypeOK
    <3> QED BY <2>1, <3>1, <3>2 DEF Event
  <2>3. \A x \in Keys : stored'[x] = IF x = key THEN handler[h].value ELSE stored[x]
    BY <1>5, <1>b DEF Commit
  <2>4. \A g \in Handlers : handler[g].pc = "commit" => g = h
    BY <2>1, <1>a
  <2>5. InTransaction = {key} \cap Pins /\ InTransaction' = {}
    BY <2>1, <2>2, <2>4 DEF InTransaction
  <2>6. LoneHasNoRival' /\ SavedIsTold' /\ AppliesSettings' /\ LockHeld' /\ PinWritten'
    BY <2>1, <2>2, <2>4, <1>a DEF Busy
  <2>7. LoneApplied'
    <3> SUFFICES ASSUME NEW g \in Handlers, handler'[g].pc \in {"save", "commit", "tell"},
                        handler'[g].lone, handler'[g].key \in Settings
                 PROVE  /\ shared'[handler'[g].key] = handler'[g].value
                        /\ handler'[g].saved => stored'[handler'[g].key] = handler'[g].value
      OBVIOUS
    <3>1. CASE g = h
      BY <3>1, <2>1, <2>2, <2>3, <1>a
    <3>2. CASE g # h
      <4>1. handler[g].key # key
        BY <3>2, <2>1, <2>2, <1>a DEF Busy
      <4> QED BY <3>2, <4>1, <2>1, <2>2, <2>3, <1>a, <1>c
    <3> QED BY <3>1, <3>2
  <2>8. SettingsFollow'
    <3> SUFFICES ASSUME NEW k \in Settings \ doubt'[Hub], BusyWith(k)' = {}
                 PROVE  shared'[k] = stored'[k]
      OBVIOUS
    <3>1. BusyWith(k) = {} /\ k # key
      BY <2>1, <2>2 DEF BusyWith, Busy
    <3> QED BY <2>1, <2>3, <3>1, <1>a, <1>c
  <2>9. PinsFollow'
    <3> SUFFICES ASSUME NEW p \in Pins \ doubt[Hub] PROVE shared[p] = stored'[p]
      BY <2>1
    <3>1. CASE p = key
      BY <3>1, <2>1, <2>3, <1>a, <1>c
    <3>2. CASE p # key
      BY <3>2, <2>3, <2>5, <1>a, <1>c
    <3> QED BY <3>1, <3>2
  <2>10. LoadKnows'
    <3>1. CASE loader.pc = "assign"
      <4>1. loader \in [pc : {"assign"}, read : [Pins -> BOOLEAN], dirty : SUBSET Pins]
        BY <3>1 DEF TypeOK, PinLoad
      <4>2. loader' = [loader EXCEPT !.dirty = @ \cup (Pins \cap {key})]
        BY <1>5, <3>1 DEF Commit
      <4>3. loader'.read = loader.read /\ loader'.dirty = loader.dirty \cup (Pins \cap {key})
        BY <4>1, <4>2
      <4> QED BY <3>1, <4>3, <2>3, <1>a, <1>c
    <3>2. CASE loader.pc # "assign"
      BY <1>5, <3>2 DEF Commit
    <3> QED BY <3>1, <3>2
  <2> QED BY <2>6, <2>7, <2>8, <2>9, <2>10 DEF MemoryInv
<1>6. ASSUME NEW h \in Handlers, CommitFails(h) PROVE MemoryInv'
  <2> DEFINE key == handler[h].key
  <2>1. /\ Busy(h) /\ handler[h].pc = "commit" /\ Step(h, "tell") /\ UNCHANGED <<stored, shared, loader>>
        /\ dbLock' = Nobody
    BY <1>6 DEF CommitFails, Busy
  <2>2. doubt'[Hub] = doubt[Hub] \cup {key}
    BY <1>6, <1>b DEF CommitFails
  <2>3. \A g \in Handlers : handler[g].pc = "commit" => g = h
    BY <2>1, <1>a
  <2>4. InTransaction = {key} \cap Pins /\ InTransaction' = {}
    BY <2>1, <2>3, HandlerMoves DEF InTransaction
  <2>5. LoneHasNoRival' /\ SavedIsTold' /\ AppliesSettings' /\ LockHeld' /\ PinWritten'
    BY <2>1, <2>3, <1>a, HandlerMoves DEF Busy
  <2>6. LoneApplied'
    BY <2>1, <1>a, HandlerMoves
  <2>7. SettingsFollow' /\ PinsFollow' /\ LoadKnows'
    BY <2>1, <2>2, <2>4, <1>a, HandlerMoves
  <2> QED BY <2>5, <2>6, <2>7 DEF MemoryInv
<1>7. ASSUME NEW h \in Handlers, Tell(h) PROVE MemoryInv'
  <2> DEFINE key == handler[h].key
  <2>1. /\ Busy(h) /\ handler[h].pc = "tell" /\ UNCHANGED <<stored, shared, dbLock, loader>>
        /\ handler'[h].pc = "idle" /\ \A g \in Handlers \ {h} : handler'[g] = handler[g]
    BY <1>7 DEF Tell, Busy, tables, Idle, TypeOK
  <2>2. /\ key \in Pins => doubt'[Hub] = doubt[Hub]
        /\ key \notin Pins /\ ~(handler[h].lone /\ handler[h].saved) => doubt'[Hub] = doubt[Hub] \cup {key}
        /\ key \notin Pins /\ handler[h].lone /\ handler[h].saved => doubt'[Hub] = doubt[Hub] \ {key}
    BY <1>7 DEF Tell
  <2>3. LoneHasNoRival' /\ SavedIsTold' /\ AppliesSettings' /\ LoneApplied' /\ LockHeld' /\ LoadKnows'
    BY <2>1, <1>a DEF Busy
  <2>4. InTransaction' = InTransaction
    BY <2>1 DEF InTransaction
  <2>5. \A p \in Pins : p \in doubt'[Hub] <=> p \in doubt[Hub]
    BY <2>2
  <2>6. PinWritten' /\ PinsFollow'
    BY <2>1, <2>4, <2>5, <1>a
  <2>7. SettingsFollow'
    <3> SUFFICES ASSUME NEW k \in Settings \ doubt'[Hub], BusyWith(k)' = {}
                 PROVE  shared[k] = stored[k]
      BY <2>1
    <3>1. CASE k = key
      BY <3>1, <2>1, <2>2, <1>a, <1>c
    <3>2. CASE k # key
      <4>1. k \notin doubt[Hub]
        BY <3>2, <2>2
      <4>2. BusyWith(k) = {}
        BY <3>2, <2>1 DEF BusyWith, Busy
      <4> QED BY <4>1, <4>2, <1>a
    <3> QED BY <3>1, <3>2
  <2> QED BY <2>3, <2>6, <2>7 DEF MemoryInv
<1>8. ASSUME QueryPins PROVE MemoryInv'
  <2>1. /\ UNCHANGED <<stored, shared, dbLock, handler, doubt>>
        /\ loader' = [pc |-> "assign", read |-> PinsStored, dirty |-> {}] \/ loader' = [pc |-> "done"]
    BY <1>8 DEF QueryPins
  <2>2. LoadKnows'
    BY <2>1 DEF PinsStored
  <2>3. /\ LoneHasNoRival' /\ SavedIsTold' /\ AppliesSettings' /\ LoneApplied' /\ SettingsFollow'
        /\ LockHeld' /\ PinWritten' /\ PinsFollow'
    BY <2>1, <1>a DEF Busy, BusyWith, InTransaction
  <2> QED BY <2>2, <2>3 DEF MemoryInv
<1>9. ASSUME AssignPins PROVE MemoryInv'
  <2>1. /\ loader.pc = "assign" /\ loader'.pc = "done" /\ UNCHANGED <<stored, dbLock, handler>>
        /\ loader.dirty \in SUBSET Pins
    BY <1>9 DEF AssignPins, TypeOK, PinLoad
  <2>2. \A x \in Keys : shared'[x] = IF x \in Pins THEN loader.read[x] ELSE shared[x]
    BY <1>9 DEF AssignPins, Over
  <2>3. doubt'[Hub] = (doubt[Hub] \ Pins) \cup loader.dirty \cup InTransaction
    BY <1>9, <1>b DEF AssignPins
  <2>4. InTransaction' = InTransaction /\ InTransaction \subseteq Pins
    BY <2>1 DEF InTransaction
  <2>5. LoneHasNoRival' /\ SavedIsTold' /\ AppliesSettings' /\ LockHeld' /\ LoadKnows'
    BY <2>1, <1>a DEF Busy
  <2>6. \A k \in Settings : shared'[k] = shared[k] /\ (k \notin doubt'[Hub] => k \notin doubt[Hub])
    BY <2>1, <2>2, <2>3, <2>4, <1>c
  <2>7. LoneApplied' /\ SettingsFollow'
    BY <2>1, <2>6, <1>a DEF Busy, BusyWith
  <2>8. PinWritten'
    BY <2>1, <2>3 DEF InTransaction
  <2>9. PinsFollow'
    BY <2>1, <2>2, <2>3, <2>4, <1>a, <1>c
  <2> QED BY <2>5, <2>7, <2>8, <2>9 DEF MemoryInv
<1>10. ASSUME Restart PROVE MemoryInv'
  <2>1. PICK settingsRead \in BOOLEAN, pinsRead \in BOOLEAN :
          /\ shared' = Over(IF settingsRead THEN stored ELSE Fallback, Settings,
                            IF pinsRead THEN stored ELSE Unpinned)
          /\ doubt' = [doubt EXCEPT ![Hub] = (IF settingsRead THEN {} ELSE Settings)
                                             \cup (IF pinsRead THEN {} ELSE Pins)]
    BY <1>10 DEF Restart
  <2>2. /\ stored' = stored /\ loader'.pc = "query" /\ \A h \in Handlers : handler'[h].pc = "idle"
    BY <1>10 DEF Restart, Idle
  <2>3. ASSUME NEW k \in Keys, k \notin doubt'[Hub] PROVE shared'[k] = stored'[k]
    <3>1. doubt'[Hub] = (IF settingsRead THEN {} ELSE Settings) \cup (IF pinsRead THEN {} ELSE Pins)
      BY <2>1, <1>b
    <3>2. shared'[k] = IF k \in Settings THEN (IF settingsRead THEN stored ELSE Fallback)[k]
                       ELSE (IF pinsRead THEN stored ELSE Unpinned)[k]
      BY <2>1 DEF Over
    <3>3. CASE k \in Settings
      BY <2>2, <2>3, <3>1, <3>2, <3>3
    <3>4. CASE k \in Pins
      BY <2>2, <2>3, <3>1, <3>2, <3>4, <1>c
    <3> QED BY <3>3, <3>4, <1>c
  <2>4. SettingsFollow' /\ PinsFollow'
    BY <2>3, <1>c
  <2>5. /\ LoneHasNoRival' /\ SavedIsTold' /\ AppliesSettings' /\ LoneApplied' /\ LockHeld' /\ PinWritten'
        /\ LoadKnows'
    BY <2>2 DEF Busy
  <2> QED BY <2>4, <2>5 DEF MemoryInv
<1>11. ASSUME NEW c \in Clients, NEW r \in Readers,
              RequestInitialData(c, r) \/ \E fresh \in BOOLEAN : Connect(c, r, fresh)
       PROVE  MemoryInv'
  <2>1. UNCHANGED <<tables, handler>> /\ doubt'[Hub] = doubt[Hub]
    BY <1>11, <1>b DEF RequestInitialData, Connect
  <2> QED BY <2>1, MemoryUntouched
<1>12. ASSUME NEW r \in Readers, ReaderStep(r) PROVE MemoryInv'
  <2>1. reader[r].pc # "idle"
    BY <1>12 DEF ReaderStep, ReadSettings, TellSettings, ReadRows, TellRows, ReadPins, TellPins
  <2>2. reader[r].client \in Clients
    BY <2>1, ReaderTyped DEF TypeOK
  <2>3. UNCHANGED <<tables, handler>> /\ doubt'[Hub] = doubt[Hub]
    BY <1>12, <2>2, <1>b DEF ReaderStep, ReadSettings, TellSettings, ReadRows, TellRows, ReadPins, TellPins
  <2> QED BY <2>3, MemoryUntouched
<1>13. ASSUME Flush \/ Broadcast \/ UNCHANGED vars PROVE MemoryInv'
  <2>1. UNCHANGED <<tables, handler>> /\ doubt'[Hub] = doubt[Hub]
    BY <1>13 DEF Flush, Broadcast, vars
  <2> QED BY <2>1, MemoryUntouched
<1>14. ASSUME NEW c \in Clients, Disconnect(c) PROVE MemoryInv'
  <2>1. UNCHANGED <<tables, handler>> /\ doubt'[Hub] = doubt[Hub]
    BY <1>14 DEF Disconnect
  <2> QED BY <2>1, MemoryUntouched
<1> QED
  BY <1>1, <1>2, <1>3, <1>4, <1>5, <1>6, <1>7, <1>8, <1>9, <1>10, <1>11, <1>12, <1>13, <1>14 DEF Next, HandlerStep

\* What the capture side reads is what the tables say, for every setting and
\* pin no event is at work on, but for the named reasons of doubt.
THEOREM MemoryFollowsTable == Spec => []SharedTracksStored
<1>1. Init => MemoryInv
  <2> SUFFICES ASSUME Init PROVE MemoryInv
    OBVIOUS
  <2>1. \A h \in Handlers : handler[h].pc = "idle"
    BY DEF Init, Idle
  <2>2. shared = stored /\ loader.pc = "query"
    BY DEF Init
  <2> QED BY <2>1, <2>2 DEF MemoryInv, LoneHasNoRival, SavedIsTold, AppliesSettings, LoneApplied,
               SettingsFollow, LockHeld, PinWritten, PinsFollow, LoadKnows, Busy
<1>2. TypeOK /\ MemoryInv /\ [Next]_vars => MemoryInv'
  BY MemoryStep
<1>3. MemoryInv => SharedTracksStored
  <2> SUFFICES ASSUME MemoryInv, NEW k \in Keys \ doubt[Hub], BusyWith(k) = {}
               PROVE  shared[k] = stored[k]
    BY DEF SharedTracksStored
  <2>1. k \notin InTransaction
    BY DEF BusyWith, Busy, InTransaction
  <2> QED BY <2>1 DEF MemoryInv, SettingsFollow, PinsFollow, Keys
<1> QED BY <1>1, <1>2, <1>3, TypeCorrect, PTL DEF Spec

-----------------------------------------------------------------------------
(***************************************************************************)
(* The pages follow the table.  A key no event is at work on is not        *)
(* written; the event that wrote it last told every page online, and left  *)
(* its mark on each load that had read and not yet sent.                   *)
(***************************************************************************)
ToldIsStored == \A h \in Handlers : handler[h].pc = "tell" /\ handler[h].lone /\ handler[h].saved
                  => stored[handler[h].key] = handler[h].value
LoadsKnow ==
  \A r \in Readers :
    /\ reader[r].pc = "tell settings" =>
         \A k \in Settings \ reader[r].dirty : BusyWith(k) = {} => reader[r].read[k] = stored[k]
    /\ reader[r].pc = "tell pins" =>
         \A k \in Pins \ reader[r].dirty : BusyWith(k) = {} => reader[r].read[k] = stored[k]

PageInv == ToldIsStored /\ LoadsKnow /\ PagesAgree

\* A key that is free after a step was free before it and keeps its value.
FreeKept == \A k \in Keys : BusyWith(k)' = {} => BusyWith(k) = {} /\ stored'[k] = stored[k]

\* A step that writes no free key and sends nothing to a page.
LEMMA PagesUntouched ==
  ASSUME PageInv, FreeKept, UNCHANGED <<view, reader>>, online' \subseteq online,
         \A c \in Clients : doubt'[c] = doubt[c], TypeOK
  PROVE  LoadsKnow' /\ PagesAgree'
<1>1. Settings \subseteq Keys /\ Pins \subseteq Keys
  BY DEF Keys
<1>2. LoadsKnow'
  BY <1>1 DEF PageInv, LoadsKnow, FreeKept
<1>3. PagesAgree'
  <2> SUFFICES ASSUME NEW c \in online', NEW k \in Keys \ doubt'[c], BusyWith(k)' = {}
               PROVE  view'[c][k] = stored'[k]
    BY DEF PagesAgree
  <2>1. c \in online /\ c \in Clients /\ k \in Keys \ doubt[c]
    BY DEF TypeOK
  <2> QED BY <2>1 DEF PageInv, PagesAgree, FreeKept
<1> QED BY <1>2, <1>3

\* No event starts or ends: a load that is unchanged, not about to send, or
\* just read knows what it missed.
LEMMA LoadsUntouched ==
  ASSUME LoadsKnow, UNCHANGED <<stored, handler>>,
         \A r \in Readers :
           \/ reader'[r] = reader[r]
           \/ reader'[r].pc \notin {"tell settings", "tell pins"}
           \/ /\ reader'[r].pc = "tell settings" =>
                   \A k \in Settings \ reader'[r].dirty : reader'[r].read[k] = stored[k]
              /\ reader'[r].pc = "tell pins" =>
                   \A k \in Pins \ reader'[r].dirty : reader'[r].read[k] = stored[k]
  PROVE  LoadsKnow'
<1>1. \A k : BusyWith(k)' = BusyWith(k)
  BY DEF BusyWith, Busy
<1> SUFFICES ASSUME NEW r \in Readers
             PROVE  /\ reader'[r].pc = "tell settings" =>
                         \A k \in Settings \ reader'[r].dirty :
                             BusyWith(k)' = {} => reader'[r].read[k] = stored'[k]
                    /\ reader'[r].pc = "tell pins" =>
                         \A k \in Pins \ reader'[r].dirty :
                             BusyWith(k)' = {} => reader'[r].read[k] = stored'[k]
  BY DEF LoadsKnow
<1>2. CASE reader'[r] = reader[r]
  <2>1. /\ reader[r].pc = "tell settings" =>
             \A k \in Settings \ reader[r].dirty : BusyWith(k) = {} => reader[r].read[k] = stored[k]
        /\ reader[r].pc = "tell pins" =>
             \A k \in Pins \ reader[r].dirty : BusyWith(k) = {} => reader[r].read[k] = stored[k]
    BY DEF LoadsKnow
  <2>2. ASSUME reader[r].pc = "tell settings", NEW k \in Settings \ reader[r].dirty, BusyWith(k) = {}
        PROVE  reader'[r].read[k] = stored'[k]
    BY <1>2, <2>1, <2>2
  <2>3. ASSUME reader[r].pc = "tell pins", NEW k \in Pins \ reader[r].dirty, BusyWith(k) = {}
        PROVE  reader'[r].read[k] = stored'[k]
    BY <1>2, <2>1, <2>3
  <2> QED BY <1>1, <1>2, <2>2, <2>3
<1>3. CASE reader'[r].pc \notin {"tell settings", "tell pins"}
  BY <1>3
<1>4. CASE reader'[r] # reader[r] /\ reader'[r].pc \in {"tell settings", "tell pins"}
  BY <1>4
<1> QED BY <1>2, <1>3, <1>4

\* A handler that moves on, but for the commit and the broadcast, frees no key.
LEMMA StepFreesNothing ==
  ASSUME TypeOK, NEW h \in Handlers, Busy(h), NEW p \in {"save", "commit", "tell"}, Step(h, p), stored' = stored
  PROVE  FreeKept
BY HandlerMoves DEF FreeKept

LEMMA PageStep ==
  ASSUME TypeOK, MemoryInv, PageInv, [Next]_vars
  PROVE  PageInv'
<1>a. LoneHasNoRival /\ SavedIsTold /\ ToldIsStored /\ LoadsKnow /\ PagesAgree
  BY DEF MemoryInv, PageInv
<1>b. /\ stored \in [Keys -> BOOLEAN] /\ view \in [Clients -> [Keys -> BOOLEAN]]
      /\ doubt \in [Clients \cup {Hub} -> SUBSET Keys] /\ online \subseteq Clients
  BY DEF TypeOK
<1>c. Settings \subseteq Keys /\ Pins \subseteq Keys /\ Settings \cap Pins = {}
  BY DEF Keys
<1>1. ASSUME NEW h \in Handlers, NEW k \in Keys, NEW v \in BOOLEAN, Receive(h, k, v) PROVE PageInv'
  <2>1. /\ handler[h].pc = "idle" /\ handler'[h].pc # "tell"
        /\ UNCHANGED <<stored, view, reader, online, doubt>>
    BY <1>1 DEF Receive, tables, clients, TypeOK
  <2>2. ASSUME NEW g \in Handlers \ {h}
        PROVE  /\ handler'[g].pc = handler[g].pc /\ handler'[g].key = handler[g].key
               /\ handler'[g].value = handler[g].value /\ handler'[g].saved = handler[g].saved
               /\ handler'[g].lone => handler[g].lone
    <3>1. CASE g \in BusyWith(k)
      <4>1. handler[g] \in Event /\ handler'[g] = [handler[g] EXCEPT !.lone = FALSE]
        BY <1>1, <3>1, BusyIsEvent DEF Receive, BusyWith, Busy, TypeOK
      <4> QED BY <4>1 DEF Event
    <3>2. CASE g \notin BusyWith(k)
      BY <1>1, <3>2 DEF Receive
    <3> QED BY <3>1, <3>2
  <2>3. FreeKept
    BY <2>1, <2>2 DEF FreeKept, BusyWith, Busy
  <2>4. ToldIsStored'
    BY <2>1, <2>2, <1>a DEF ToldIsStored
  <2> QED BY <2>1, <2>3, <2>4, PagesUntouched DEF PageInv
<1>2. ASSUME NEW h \in Handlers, Apply(h) \/ Write(h) \/ WriteFails(h) \/ CommitFails(h) PROVE PageInv'
  <2>1. PICK p \in {"save", "commit", "tell"} : Step(h, p)
    BY <1>2 DEF Apply, Write, WriteFails, CommitFails
  <2>2. /\ Busy(h) /\ handler[h].pc \in {"apply", "save", "commit"}
        /\ UNCHANGED <<stored, view, reader, online>>
    BY <1>2 DEF Apply, Write, WriteFails, CommitFails, Busy, tables, clients
  <2>3. \A c \in Clients : doubt'[c] = doubt[c]
    BY <1>2, <1>b DEF Apply, Write, WriteFails, CommitFails
  <2>4. FreeKept
    BY <2>1, <2>2, StepFreesNothing
  <2>5. ~handler'[h].saved
    BY <2>1, <2>2, <1>a, HandlerMoves DEF SavedIsTold
  <2>6. ToldIsStored'
    BY <2>1, <2>2, <2>5, <1>a, HandlerMoves DEF ToldIsStored
  <2> QED BY <2>2, <2>3, <2>4, <2>6, PagesUntouched DEF PageInv
<1>3. ASSUME NEW h \in Handlers, Commit(h) PROVE PageInv'
  <2> DEFINE key == handler[h].key
  <2>1. /\ Busy(h) /\ handler[h].pc = "commit" /\ handler[h] \in Event /\ key \in Keys
        /\ UNCHANGED <<view, reader, online, doubt>>
    BY <1>3, BusyIsEvent DEF Commit, Busy, Event, clients, TypeOK
  <2>2. /\ handler'[h].pc = "tell" /\ handler'[h].key = key /\ handler'[h].value = handler[h].value
        /\ handler'[h].lone = handler[h].lone
        /\ \A g \in Handlers \ {h} : handler'[g] = handler[g]
    <3>1. handler'[h] = [handler[h] EXCEPT !.pc = "tell", !.saved = TRUE]
      BY <1>3 DEF Commit, TypeOK
    <3>2. \A g \in Handlers \ {h} : handler'[g] = handler[g]
      BY <1>3 DEF Commit, TypeOK
    <3> QED BY <2>1, <3>1, <3>2 DEF Event
  <2>3. \A x \in Keys : stored'[x] = IF x = key THEN handler[h].value ELSE stored[x]
    BY <1>3, <1>b DEF Commit
  <2>4. h \in BusyWith(key) /\ \A k : BusyWith(k)' = BusyWith(k)
    BY <2>1, <2>2 DEF BusyWith, Busy
  <2>5. FreeKept
    BY <2>3, <2>4 DEF FreeKept
  <2>6. ToldIsStored'
    <3> SUFFICES ASSUME NEW g \in Handlers, handler'[g].pc = "tell", handler'[g].lone, handler'[g].saved
                 PROVE  stored'[handler'[g].key] = handler'[g].value
      BY DEF ToldIsStored
    <3>1. CASE g = h
      BY <3>1, <2>1, <2>2, <2>3
    <3>2. CASE g # h
      <4>1. Busy(g) /\ handler[g] \in Event
        BY <3>2, <2>2, BusyIsEvent DEF Busy, TypeOK
      <4>2. handler[g].key # key /\ handler[g].key \in Keys
        BY <3>2, <4>1, <2>1, <2>2, <1>a DEF LoneHasNoRival, Event
      <4> QED BY <3>2, <4>2, <2>2, <2>3, <1>a DEF ToldIsStored
    <3> QED BY <3>1, <3>2
  <2> QED BY <2>1, <2>5, <2>6, PagesUntouched DEF PageInv
<1>4. ASSUME NEW h \in Handlers, Tell(h) PROVE PageInv'
  <2> DEFINE key == handler[h].key
             clean == handler[h].lone /\ handler[h].saved
  <2>1. /\ Busy(h) /\ handler[h].pc = "tell" /\ handler[h] \in Event /\ key \in Keys
        /\ UNCHANGED <<stored, online>>
    BY <1>4, BusyIsEvent DEF Tell, Busy, Event, tables, TypeOK
  <2>2. handler'[h].pc = "idle" /\ \A g \in Handlers \ {h} : handler'[g] = handler[g]
    BY <1>4 DEF Tell, Idle, TypeOK
  <2>3. \A k : k # key => BusyWith(k)' = BusyWith(k)
    BY <2>1, <2>2 DEF BusyWith, Busy
  <2>4. ToldIsStored'
    BY <2>1, <2>2, <1>a DEF ToldIsStored
  <2>5. LoadsKnow'
    <3> SUFFICES ASSUME NEW r \in Readers
                 PROVE  /\ reader'[r].pc = "tell settings" =>
                             \A k \in Settings \ reader'[r].dirty :
                                 BusyWith(k)' = {} => reader'[r].read[k] = stored'[k]
                        /\ reader'[r].pc = "tell pins" =>
                             \A k \in Pins \ reader'[r].dirty :
                                 BusyWith(k)' = {} => reader'[r].read[k] = stored'[k]
      BY DEF LoadsKnow
    <3>a. reader' = Overtaken(key, reader)
      BY <1>4 DEF Tell
    <3>b. reader'[r].pc = reader[r].pc
      BY <3>a, <2>1, OvertakenTyped DEF TypeOK
    <3>1. CASE reader[r].pc \in {"tell settings", "tell pins"}
      <4>1. reader'[r].read = reader[r].read /\ reader'[r].dirty = reader[r].dirty \cup {key}
        BY <3>a, <3>1, <2>1, OvertakenTyped DEF TypeOK
      <4>2. ASSUME NEW k \in Keys \ reader'[r].dirty, BusyWith(k)' = {}
            PROVE  BusyWith(k) = {} /\ k \notin reader[r].dirty /\ stored'[k] = stored[k]
        BY <4>1, <4>2, <2>1, <2>3
      <4>3. ASSUME reader[r].pc = "tell settings", NEW k \in Settings \ reader'[r].dirty, BusyWith(k)' = {}
            PROVE  reader'[r].read[k] = stored'[k]
        <5>1. BusyWith(k) = {} /\ k \notin reader[r].dirty /\ stored'[k] = stored[k]
          BY <4>2, <4>3, <1>c
        <5>2. reader[r].read[k] = stored[k]
          BY <4>3, <5>1, <1>a DEF LoadsKnow
        <5> QED BY <4>1, <5>1, <5>2
      <4>4. ASSUME reader[r].pc = "tell pins", NEW k \in Pins \ reader'[r].dirty, BusyWith(k)' = {}
            PROVE  reader'[r].read[k] = stored'[k]
        <5>1. BusyWith(k) = {} /\ k \notin reader[r].dirty /\ stored'[k] = stored[k]
          BY <4>2, <4>4, <1>c
        <5>2. reader[r].read[k] = stored[k]
          BY <4>4, <5>1, <1>a DEF LoadsKnow
        <5> QED BY <4>1, <5>1, <5>2
      <4> QED BY <3>b, <4>3, <4>4
    <3>2. CASE reader[r].pc \notin {"tell settings", "tell pins"}
      BY <3>b, <3>2
    <3> QED BY <3>1, <3>2
  <2>6. PagesAgree'
    <3> SUFFICES ASSUME NEW c \in online', NEW k \in Keys \ doubt'[c], BusyWith(k)' = {}
                 PROVE  view'[c][k] = stored'[k]
      BY DEF PagesAgree
    <3>1. c \in online /\ c \in Clients /\ c # Hub
      BY <2>1, <1>b
    <3>2. view'[c] = [view[c] EXCEPT ![key] = handler[h].value]
      BY <1>4, <3>1 DEF Tell, Audience
    <3>3. doubt'[c] = IF clean THEN doubt[c] \ {key} ELSE doubt[c] \cup {key}
      BY <1>4, <3>1 DEF Tell
    <3>4. CASE k = key
      BY <3>1, <3>2, <3>3, <3>4, <2>1, <1>a, <1>b DEF ToldIsStored
    <3>5. CASE k # key
      BY <3>1, <3>2, <3>3, <3>5, <2>1, <2>3, <1>a, <1>b DEF PagesAgree
    <3> QED BY <3>4, <3>5
  <2> QED BY <2>4, <2>5, <2>6 DEF PageInv
<1>5. ASSUME QueryPins \/ AssignPins \/ Flush \/ Broadcast \/ UNCHANGED vars PROVE PageInv'
  <2>1. UNCHANGED <<stored, handler, view, reader, online>>
    BY <1>5 DEF QueryPins, AssignPins, Flush, Broadcast, vars, tables, clients
  <2>2. \A c \in Clients : doubt'[c] = doubt[c]
    BY <1>5, <1>b DEF QueryPins, AssignPins, Flush, Broadcast, vars
  <2>3. FreeKept /\ ToldIsStored'
    BY <2>1, <1>a DEF FreeKept, BusyWith, Busy, ToldIsStored
  <2> QED BY <2>1, <2>2, <2>3, PagesUntouched DEF PageInv
<1>6. ASSUME Restart PROVE PageInv'
  <2>1. \A h \in Handlers : handler'[h].pc = "idle"
    BY <1>6 DEF Restart, Idle
  <2>2. \A r \in Readers : reader'[r].pc = "idle"
    BY <1>6 DEF Restart, Idle
  <2>3. online' = {}
    BY <1>6 DEF Restart
  <2> QED BY <2>1, <2>2, <2>3 DEF PageInv, ToldIsStored, LoadsKnow, PagesAgree
<1>7. ASSUME NEW c \in Clients, Disconnect(c) PROVE PageInv'
  <2>1. /\ UNCHANGED <<stored, handler, view, doubt>> /\ online' = online \ {c}
        /\ \A r \in Readers : reader'[r] = reader[r] \/ reader'[r].pc = "idle"
    BY <1>7 DEF Disconnect, tables, Idle
  <2>2. LoadsKnow'
    BY <2>1, <1>a, LoadsUntouched
  <2>3. ToldIsStored' /\ PagesAgree'
    BY <2>1, <1>a DEF ToldIsStored, PagesAgree, BusyWith, Busy
  <2> QED BY <2>2, <2>3 DEF PageInv
<1>8. ASSUME NEW c \in Clients, NEW r \in Readers,
             RequestInitialData(c, r) \/ \E fresh \in BOOLEAN : Connect(c, r, fresh)
      PROVE  PageInv'
  <2>1. /\ UNCHANGED <<stored, handler>> /\ reader'[r].pc = "settings"
        /\ \A s \in Readers \ {r} : reader'[s] = reader[s]
    BY <1>8 DEF RequestInitialData, Connect, tables, TypeOK
  <2>2. \A d \in online' : \/ d \in online /\ view'[d] = view[d] /\ doubt'[d] = doubt[d]
                           \/ doubt'[d] = Keys
    BY <1>8, <1>b DEF RequestInitialData, Connect
  <2>3. LoadsKnow'
    BY <2>1, <1>a, LoadsUntouched
  <2>4. ToldIsStored'
    BY <2>1, <1>a DEF ToldIsStored
  <2>5. PagesAgree'
    BY <2>1, <2>2, <1>a DEF PagesAgree, BusyWith, Busy
  <2> QED BY <2>3, <2>4, <2>5 DEF PageInv
<1>9. ASSUME NEW r \in Readers, ReadSettings(r) \/ ReadRows(r) \/ TellRows(r) \/ ReadPins(r)
      PROVE  PageInv'
  <2>1. UNCHANGED <<stored, handler, view, online, doubt>>
    BY <1>9 DEF ReadSettings, ReadRows, TellRows, ReadPins, tables
  <2>2. \A s \in Readers \ {r} : reader'[s] = reader[s]
    BY <1>9 DEF ReadSettings, ReadRows, TellRows, ReadPins, Goes, TypeOK
  <2>3. /\ reader'[r].pc = "tell settings" =>
             \A k \in Settings \ reader'[r].dirty : reader'[r].read[k] = stored[k]
        /\ reader'[r].pc = "tell pins" =>
             \A k \in Pins \ reader'[r].dirty : reader'[r].read[k] = stored[k]
    <3> DEFINE c == reader[r].client
               now == [k \in Settings |-> stored[k]]
               kept  == [pc |-> "tell settings", client |-> c, read |-> now, dirty |-> {}]
               fallback == [pc |-> "tell settings", client |-> c, read |-> Fallback, dirty |-> Settings]
               full  == [pc |-> "tell rows", client |-> c, version |-> row]
               empty == [pc |-> "pins", client |-> c]
               pins  == [pc |-> "tell pins", client |-> c, read |-> PinsStored, dirty |-> {}]
    <3>a. /\ full.pc = "tell rows" /\ empty.pc = "pins"
          /\ pins.pc = "tell pins" /\ pins.read = PinsStored
          /\ Idle.pc = "idle"
      BY DEF Idle
    <3>b. /\ kept.pc = "tell settings" /\ kept.read = now
          /\ fallback.pc = "tell settings" /\ fallback.dirty = Settings
      OBVIOUS
    <3>1. CASE ReadSettings(r)
      <4>1. reader'[r] = kept \/ reader'[r] = fallback
        BY <3>1 DEF ReadSettings, Goes, TypeOK
      <4>2. \A k \in Settings : now[k] = stored[k]
        OBVIOUS
      <4> HIDE DEF kept, fallback, now
      <4>3. /\ reader'[r].pc = "tell settings"
            /\ reader'[r].read = now \/ reader'[r].dirty = Settings
        BY <4>1, <3>b
      <4> QED BY <4>2, <4>3
    <3>2. CASE ReadRows(r)
      <4>1. reader'[r] = full \/ reader'[r] = empty
        BY <3>2 DEF ReadRows, Goes, TypeOK
      <4> HIDE DEF full, empty
      <4> QED BY <4>1, <3>a
    <3>3. CASE TellRows(r)
      BY <3>3 DEF TellRows, Goes, TypeOK
    <3>4. CASE ReadPins(r)
      <4>1. reader'[r] = pins \/ reader'[r] = Idle
        BY <3>4 DEF ReadPins, Goes, TypeOK
      <4>2. \A k \in Pins : PinsStored[k] = stored[k]
        BY DEF PinsStored
      <4> HIDE DEF pins
      <4>3. (reader'[r].pc = "tell pins" /\ reader'[r].read = PinsStored) \/ reader'[r].pc = "idle"
        BY <4>1, <3>a
      <4> QED BY <4>2, <4>3
    <3> QED BY <1>9, <3>1, <3>2, <3>3, <3>4
  <2>4. LoadsKnow'
    BY <2>1, <2>2, <2>3, <1>a, LoadsUntouched
  <2>5. ToldIsStored' /\ PagesAgree'
    BY <2>1, <1>a DEF ToldIsStored, PagesAgree, BusyWith, Busy
  <2> QED BY <2>4, <2>5 DEF PageInv
<1>10. ASSUME NEW r \in Readers, TellSettings(r) PROVE PageInv'
  <2> DEFINE c == reader[r].client
  <2>1. /\ reader[r].pc = "tell settings" /\ UNCHANGED <<stored, handler, online>>
        /\ c \in Clients
    BY <1>10, ReaderTyped DEF TellSettings, tables, TypeOK
  <2>2. /\ view'[c] = Over(reader[r].read, Settings, view[c])
        /\ doubt'[c] = (doubt[c] \ Settings) \cup (reader[r].dirty \cap Settings)
        /\ \A d \in Clients \ {c} : view'[d] = view[d] /\ doubt'[d] = doubt[d]
    BY <1>10, <2>1, <1>b DEF TellSettings
  <2>3. reader'[r].pc = "rows" /\ \A s \in Readers \ {r} : reader'[s] = reader[s]
    BY <1>10 DEF TellSettings, Goes, TypeOK
  <2>4. LoadsKnow'
    BY <2>1, <2>3, <1>a, LoadsUntouched
  <2>5. ToldIsStored'
    BY <2>1, <1>a DEF ToldIsStored
  <2>6. PagesAgree'
    <3> SUFFICES ASSUME NEW d \in online', NEW k \in Keys \ doubt'[d], BusyWith(k)' = {}
                 PROVE  view'[d][k] = stored'[k]
      BY DEF PagesAgree
    <3>1. d \in online /\ d \in Clients /\ BusyWith(k) = {}
      BY <2>1, <1>b DEF BusyWith, Busy
    <3>2. CASE d # c
      BY <3>1, <3>2, <2>1, <2>2, <1>a DEF PagesAgree
    <3>3. CASE d = c /\ k \in Settings
      <4>1. k \in Settings \ reader[r].dirty
        BY <3>3, <2>2
      <4>2. reader[r].read[k] = stored[k]
        BY <3>1, <4>1, <2>1, <1>a DEF LoadsKnow
      <4>3. view'[c][k] = reader[r].read[k]
        BY <3>3, <2>2 DEF Over
      <4> QED BY <3>3, <4>2, <4>3, <2>1
    <3>4. CASE d = c /\ k \notin Settings
      <4>1. k \in Keys \ doubt[c] /\ view'[c][k] = view[c][k]
        BY <3>4, <2>2 DEF Over
      <4> QED BY <3>1, <3>4, <4>1, <2>1, <1>a DEF PagesAgree
    <3> QED BY <3>2, <3>3, <3>4
  <2> QED BY <2>4, <2>5, <2>6 DEF PageInv
<1>11. ASSUME NEW r \in Readers, TellPins(r) PROVE PageInv'
  <2> DEFINE c == reader[r].client
             extra == {p \in Pins : view[c][p] /\ ~reader[r].read[p]}
  <2>1. /\ reader[r].pc = "tell pins" /\ UNCHANGED <<stored, handler, online>>
        /\ c \in Clients /\ reader[r].read \in [Pins -> BOOLEAN]
    BY <1>11, ReaderTyped DEF TellPins, tables, TypeOK
  <2>2. /\ view'[c] = Pinned(view[c], reader[r].read)
        /\ doubt'[c] = (doubt[c] \ (Pins \ extra)) \cup (reader[r].dirty \cap Pins)
        /\ \A d \in Clients \ {c} : view'[d] = view[d] /\ doubt'[d] = doubt[d]
    BY <1>11, <2>1, <1>b DEF TellPins
  <2> HIDE DEF extra
  <2>3. reader'[r].pc = "idle" /\ \A s \in Readers \ {r} : reader'[s] = reader[s]
    BY <1>11 DEF TellPins, Goes, Idle, TypeOK
  <2>4. LoadsKnow'
    BY <2>1, <2>3, <1>a, LoadsUntouched
  <2>5. ToldIsStored'
    BY <2>1, <1>a DEF ToldIsStored
  <2>6. PagesAgree'
    <3> SUFFICES ASSUME NEW d \in online', NEW k \in Keys \ doubt'[d], BusyWith(k)' = {}
                 PROVE  view'[d][k] = stored'[k]
      BY DEF PagesAgree
    <3>1. d \in online /\ d \in Clients /\ BusyWith(k) = {}
      BY <2>1, <1>b DEF BusyWith, Busy
    <3>2. CASE d # c
      <4>1. view'[d] = view[d] /\ doubt'[d] = doubt[d]
        BY <3>1, <3>2, <2>2
      <4>2. view[d][k] = stored[k]
        BY <3>1, <4>1, <1>a DEF PagesAgree
      <4> QED BY <4>1, <4>2, <2>1
    <3>3. CASE d = c /\ k \in Pins
      <4>1. k \notin reader[r].dirty /\ reader[r].read[k] = stored[k]
        BY <3>1, <3>3, <2>1, <2>2, <1>a DEF LoadsKnow
      <4>2. view'[c][k] = (view[c][k] \/ reader[r].read[k])
        BY <3>3, <2>2 DEF Pinned
      <4>3. CASE k \in extra
        <5>1. k \in Keys \ doubt[c]
          BY <3>3, <4>3, <2>2
        <5>2. view[c][k] = stored[k]
          BY <3>1, <3>3, <5>1, <1>a DEF PagesAgree
        <5>3. view[c][k] /\ ~reader[r].read[k]
          BY <4>3 DEF extra
        <5> QED BY <4>1, <5>2, <5>3
      <4>4. CASE k \notin extra
        <5>1. view[c][k] => reader[r].read[k]
          BY <3>3, <4>4 DEF extra
        <5>2. reader[r].read[k] \in BOOLEAN
          BY <3>3, <2>1
        <5>3. view'[c][k] = reader[r].read[k]
          BY <4>2, <5>1, <5>2
        <5> QED BY <3>3, <4>1, <5>3, <2>1
      <4> QED BY <4>3, <4>4
    <3>4. CASE d = c /\ k \notin Pins
      <4>1. k \in Keys \ doubt[c]
        BY <3>4, <2>2
      <4>2. view'[c][k] = view[c][k]
        <5>1. view'[c][k] = (view[c][k] \/ (k \in Pins /\ reader[r].read[k]))
          BY <2>2 DEF Pinned
        <5>2. view[c] \in [Keys -> BOOLEAN]
          BY <2>1, <1>b
        <5>3. view[c][k] \in BOOLEAN
          BY <5>2
        <5> QED BY <3>4, <5>1, <5>3
      <4> QED BY <3>1, <3>4, <4>1, <4>2, <2>1, <1>a DEF PagesAgree
    <3> QED BY <3>2, <3>3, <3>4
  <2> QED BY <2>4, <2>5, <2>6 DEF PageInv
<1> QED
  BY <1>1, <1>2, <1>3, <1>4, <1>5, <1>6, <1>7, <1>8, <1>9, <1>10, <1>11 DEF Next, HandlerStep, ReaderStep

\* Every connected page shows what is stored of every setting and pin no
\* event is at work on, but for the named reasons of doubt.
THEOREM PagesShowTheTable == Spec => []PagesAgree
<1>1. Init => MemoryInv /\ PageInv
  <2> SUFFICES ASSUME Init PROVE MemoryInv /\ PageInv
    OBVIOUS
  <2>1. \A h \in Handlers : handler[h].pc = "idle"
    BY DEF Init, Idle
  <2>2. shared = stored /\ loader.pc = "query" /\ online = {}
    BY DEF Init
  <2>3. \A r \in Readers : reader[r].pc = "idle"
    BY DEF Init, Idle
  <2>4. MemoryInv
    BY <2>1, <2>2 DEF MemoryInv, LoneHasNoRival, SavedIsTold, AppliesSettings, LoneApplied,
               SettingsFollow, LockHeld, PinWritten, PinsFollow, LoadKnows, Busy
  <2>5. PageInv
    BY <2>1, <2>2, <2>3 DEF PageInv, ToldIsStored, LoadsKnow, PagesAgree
  <2> QED BY <2>4, <2>5
<1>2. TypeOK /\ MemoryInv /\ PageInv /\ [Next]_vars => MemoryInv' /\ PageInv'
  BY MemoryStep, PageStep
<1>3. PageInv => PagesAgree
  BY DEF PageInv
<1> QED BY <1>1, <1>2, <1>3, TypeCorrect, PTL DEF Spec
===============================================================================
