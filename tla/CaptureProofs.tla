---------------------------- MODULE CaptureProofs ----------------------------
(* Theorems about Capture, for any address plan, workers and lanes: what   *)
(* the pure functions of the capture path decide, and that however the     *)
(* capturers, the lanes and the workers interleave no endpoint is stored   *)
(* twice, none due is missed, and the counters count.                      *)
EXTENDS Capture, FiniteSetTheorems, SequenceTheorems, TLAPS

-------------------------------------------------------------------------------
(***************************************************************************)
(* Types.  An item has both endpoints, or is of one private address that   *)
(* is not ours: what internal_packet_callback makes.                       *)
(***************************************************************************)
Item == [device : Devices, shape : {"pair"}, only : Hosts, src : Hosts, dst : Hosts,
         direction : {"incoming", "outgoing", "other"}, protocol : {"TCP", "UDP", "ICMP", "other"}]
        \cup
        [device : {"local"}, shape : {"single"}, only : Private \ Us, src : Hosts, dst : Hosts,
         direction : {"incoming", "outgoing", "other"}, protocol : {"TCP", "UDP", "ICMP", "other"}]
Held == [pc : {"gate", "process"}, item : Item]

SettingsOK == /\ search \in BOOLEAN /\ showUdp \in BOOLEAN /\ stopped \in SUBSET Devices
              /\ pins \in SUBSET Private /\ toggles \in Nat /\ frames \in Nat
CaptureOK  == /\ wire \in {<<>>} \cup {<<f>> : f \in Frames}
              /\ capturer \in [Capturers -> {"gate", "parse", "done"}]
              /\ parsed \in SUBSET Capturers /\ kept \in SUBSET Capturers
              /\ stats \in [Counters -> Nat] /\ steady \in BOOLEAN
              /\ \A c \in Capturers : capturer[c] # "done" => wire # <<>>
QueueOK    == /\ todo \in [Capturers -> Seq(Item)]
              /\ lanes \in [{"high", "low"} -> Seq(Item)]
              /\ worker \in [Workers -> Held \cup {Idle}]
              /\ updates \in [Devices -> [Hosts -> Nat]]

TypeOK == SettingsOK /\ CaptureOK /\ QueueOK

Lanes == {"high", "low"}


LEMMA FrameTyped ==
  ASSUME NEW f \in Frames
  PROVE  /\ f.src \in Hosts /\ f.dst \in Hosts /\ f.fragment \in BOOLEAN
         /\ f.protocol \in {"TCP", "UDP", "ICMP", "other"}
BY DEF Frames, Kinds

LEMMA PairTyped ==
  ASSUME NEW f \in Frames, NEW d \in Devices, NEW dir \in {"incoming", "outgoing", "other"}
  PROVE  /\ PairItem(f, d, dir) \in Item
         /\ PairItem(f, d, dir).shape = "pair" /\ PairItem(f, d, dir).device = d
         /\ PairItem(f, d, dir).src = f.src /\ PairItem(f, d, dir).dst = f.dst
BY FrameTyped DEF PairItem, Item

LEMMA LanTyped ==
  ASSUME NEW f \in Frames, NEW h \in Private \ Us, NEW dir \in {"incoming", "outgoing", "other"}
  PROVE  /\ LanItem(f, h, dir) \in Item
         /\ LanItem(f, h, dir).shape = "single" /\ LanItem(f, h, dir).only = h
         /\ LanItem(f, h, dir).device = "local"
BY FrameTyped DEF LanItem, Item

LEMMA TwoItems == ASSUME NEW a, NEW b PROVE <<a>> \o <<b>> = <<a, b>>
<1> DEFINE s == <<a>>
           t == <<b>>
           u == <<a, b>>
<1>1. /\ s \in Seq({a, b}) /\ t \in Seq({a, b}) /\ u \in Seq({a, b})
      /\ Len(s) = 1 /\ Len(t) = 1 /\ Len(u) = 2 /\ s[1] = a /\ t[1] = b /\ u[1] = a /\ u[2] = b
  OBVIOUS
<1> HIDE DEF s, t, u
<1>2. s \o t \in Seq({a, b}) /\ Len(s \o t) = 2
  BY <1>1, ConcatProperties
<1>3. \A i \in 1 .. 2 : (s \o t)[i] = u[i]
  BY <1>1, ConcatProperties
<1>4. s \o t = u
  BY <1>1, <1>2, <1>3, SeqEqual
<1> QED BY <1>4 DEF s, t, u

\* The items of the internal scanner: of each private endpoint that is not us.
LEMMA LanItemsTyped ==
  ASSUME NEW f \in Frames
  PROVE  /\ LanItems(f) \in Seq(Item)
         /\ \A k \in DOMAIN LanItems(f) :
              LanItems(f)[k].shape = "single" /\ LanItems(f)[k].device = "local"
         /\ \A h \in {f.src, f.dst} \cap (Private \ Us) :
              \E k \in DOMAIN LanItems(f) : LanItems(f)[k].only = h
<1> DEFINE a == LanItem(f, f.src, IF f.dst \in Us THEN "incoming" ELSE "other")
           b == LanItem(f, f.dst, IF f.src \in Us THEN "outgoing" ELSE "other")
<1>1. f.src \in Private \ Us => a \in Item /\ a.shape = "single" /\ a.device = "local" /\ a.only = f.src
  BY LanTyped
<1>2. f.dst \in Private \ Us => b \in Item /\ b.shape = "single" /\ b.device = "local" /\ b.only = f.dst
  BY LanTyped
<1>3. /\ SourceItem(f) = IF f.src \in Private \ Us THEN <<a>> ELSE <<>>
      /\ DestinationItem(f) = IF f.dst \in Private \ Us THEN <<b>> ELSE <<>>
  BY DEF SourceItem, DestinationItem
<1> HIDE DEF a, b
<1>4. CASE f.src \in Private \ Us /\ f.dst \in Private \ Us
  <2>1. SourceItem(f) = <<a>> /\ DestinationItem(f) = <<b>>
    BY <1>3, <1>4
  <2>3. LanItems(f) = <<a, b>>
    BY <2>1, TwoItems DEF LanItems
  <2> QED BY <1>1, <1>2, <1>4, <2>3
<1>5. CASE f.src \in Private \ Us /\ f.dst \notin Private \ Us
  <2>1. LanItems(f) = <<a>>
    BY <1>3, <1>5 DEF LanItems
  <2> QED BY <1>1, <1>5, <2>1
<1>6. CASE f.src \notin Private \ Us /\ f.dst \in Private \ Us
  <2>1. LanItems(f) = <<b>>
    BY <1>3, <1>6 DEF LanItems
  <2> QED BY <1>2, <1>6, <2>1
<1>7. CASE f.src \notin Private \ Us /\ f.dst \notin Private \ Us
  <2>1. LanItems(f) = <<>>
    BY <1>3, <1>7 DEF LanItems
  <2> QED BY <1>7, <2>1
<1> QED BY <1>4, <1>5, <1>6, <1>7

\* The one item of the sniffer and of the mirror.
LEMMA SniffedTyped ==
  ASSUME NEW f \in Frames, NEW d \in Devices
  PROVE  \E dir \in {"incoming", "outgoing", "other"} :
           ItemsOf(IF d = "local" THEN "sniffer" ELSE "fritz", f) = <<PairItem(f, d, dir)>>
<1>1. Direction(f) \in {"incoming", "outgoing", "other"} /\ FritzDirection(f) \in {"incoming", "outgoing", "other"}
  BY DEF Direction, FritzDirection
<1>2. CASE d = "local"
  BY <1>1, <1>2 DEF ItemsOf
<1>3. CASE d = "fritzdump"
  BY <1>1, <1>3 DEF ItemsOf
<1> QED BY <1>2, <1>3 DEF Devices

LEMMA ItemsTyped ==
  ASSUME NEW f \in Frames, NEW c \in Capturers
  PROVE  ItemsOf(c, f) \in Seq(Item)
<1>1. CASE c = "scanner"
  BY <1>1, LanItemsTyped DEF ItemsOf
<1>2. CASE c \in {"sniffer", "fritz"}
  <2> DEFINE d == IF c = "sniffer" THEN "local" ELSE "fritzdump"
  <2>1. d \in Devices /\ c = IF d = "local" THEN "sniffer" ELSE "fritz"
    BY <1>2 DEF Devices
  <2> HIDE DEF d
  <2>2. PICK dir \in {"incoming", "outgoing", "other"} : ItemsOf(c, f) = <<PairItem(f, d, dir)>>
    BY <2>1, SniffedTyped
  <2>3. PairItem(f, d, dir) \in Item
    BY <2>1, PairTyped
  <2> QED BY <2>2, <2>3
<1> QED BY <1>1, <1>2 DEF Capturers

\* What the calls for an item are: none for an address of ours, none for a public
\* one if the item is of a single address, and no more than the ends of its frame
\* otherwise.
LEMMA CallsOfItem ==
  ASSUME NEW i \in Item, NEW s \in BOOLEAN, NEW p \in SUBSET Private, NEW h
  PROVE  /\ Calls(i, s, p, h) \in Nat
         /\ h \in Us => Calls(i, s, p, h) = 0
         /\ i.shape = "single" /\ h \in Public => Calls(i, s, p, h) = 0
         /\ i.shape = "pair" => Calls(i, s, p, h) <= Ends(i, h)
<1> USE DEF One
<1>1. CASE i.shape = "pair"
  <2>1. Calls(i, s, p, h) \in Nat
    BY <1>1 DEF Calls, CallsOfPair
  <2>2. h \in Us => Calls(i, s, p, h) = 0
    BY <1>1 DEF Calls, CallsOfPair, SourceStored, DestinationStored, Public
  <2>3. Calls(i, s, p, h) <= Ends(i, h)
    BY <1>1 DEF Calls, CallsOfPair, Ends
  <2> QED BY <1>1, <2>1, <2>2, <2>3
<1>2. CASE i.shape = "single"
  <2>1. i.only \in Private \ Us
    BY <1>2 DEF Item
  <2> QED BY <1>2, <2>1 DEF Calls, CallsOfSingle, Public
<1>3. i.shape \in {"pair", "single"}
  BY DEF Item
<1> QED BY <1>1, <1>2, <1>3

\* A frame never makes the hub store an address of its own, whatever the
\* settings: neither of process_external_packet_item and of
\* process_internal_packet_item does, on the items the callbacks make.
THEOREM NeverStoresUs ==
  ASSUME NEW f \in Frames, NEW s \in BOOLEAN, NEW p \in SUBSET Private,
         NEW c \in Capturers, NEW k \in DOMAIN ItemsOf(c, f), NEW h \in Us
  PROVE  Calls(ItemsOf(c, f)[k], s, p, h) = 0
<1>1. ItemsOf(c, f)[k] \in Item
  BY ItemsTyped
<1> QED BY <1>1, CallsOfItem

\* The public endpoints of a frame are always stored, once for each end they are:
\* the first half of the docstring of process_external_packet_item (app.py:3385).
\* A frame from a public address to itself is stored, and counted, twice.
THEOREM PublicAlwaysStored ==
  ASSUME NEW f, NEW d, NEW dir, NEW s \in BOOLEAN, NEW h \in Public
  PROVE  CallsOfPair(PairItem(f, d, dir), s, h) = Ends(f, h)
BY DEF CallsOfPair, SourceStored, DestinationStored, PairItem, Ends, One

\* The exact condition under which the second half holds: a private endpoint
\* that is not us is stored with internal search on unless the destination is
\* public.
THEOREM PrivateStoredWhen ==
  ASSUME NEW f \in Frames, NEW d, NEW dir, NEW s \in BOOLEAN,
         NEW h \in {f.src, f.dst} \cap (Private \ Us)
  PROVE  CallsOfPair(PairItem(f, d, dir), s, h) >= 1 <=> s /\ f.dst \notin Public
BY DEF CallsOfPair, SourceStored, DestinationStored, PairItem, Public, One

\* A sensor reports the remote end of every frame between its host and another
\* (comment of on_packet, sensor.py:143-144).
THEOREM SensorReportsRemote ==
  ASSUME NEW f \in Frames
  PROVE  /\ f.dst \in Us => SensorRecords(f) = {f.src}
         /\ f.src \in Us /\ f.dst \notin Us => SensorRecords(f) = {f.dst}
<1>1. f.dst \in Us => Direction(f) = "incoming"
  BY DEF Direction
<1>2. f.src \in Us /\ f.dst \notin Us => Direction(f) = "outgoing"
  BY DEF Direction
<1> QED
  BY <1>1, <1>2 DEF SensorRecords

-------------------------------------------------------------------------------
\* What appending and removing do to the elements of a sequence.
LEMMA Appended ==
  ASSUME NEW S, NEW s \in Seq(S), NEW x \in S
  PROVE  /\ Append(s, x) \in Seq(S)
         /\ Len(Append(s, x)) \in DOMAIN Append(s, x) /\ Append(s, x)[Len(Append(s, x))] = x
         /\ \A k \in DOMAIN s : k \in DOMAIN Append(s, x) /\ Append(s, x)[k] = s[k]
         /\ \A k \in DOMAIN Append(s, x) :
              (k \in DOMAIN s /\ Append(s, x)[k] = s[k]) \/ (k = Len(s) + 1 /\ Append(s, x)[k] = x)
OBVIOUS

LEMMA HeadRemoved ==
  ASSUME NEW S, NEW s \in Seq(S), s # <<>>
  PROVE  /\ Head(s) \in S /\ Tail(s) \in Seq(S)
         /\ 1 \in DOMAIN s /\ s[1] = Head(s)
         /\ \A k \in DOMAIN Tail(s) : k \in Nat /\ k + 1 \in DOMAIN s /\ k + 1 # 1 /\ Tail(s)[k] = s[k + 1]
         /\ \A k \in DOMAIN s : k # 1 => k - 1 \in DOMAIN Tail(s) /\ Tail(s)[k - 1] = s[k]
OBVIOUS

LEMMA LaneTyped ==
  ASSUME NEW i
  PROVE  LaneOf(i) \in {"high", "low"}
BY DEF LaneOf

\* Every variable keeps its type: an item on its way is one a callback makes.
THEOREM TypeCorrect == Spec => []TypeOK
<1>1. Init => TypeOK
  <2> SUFFICES ASSUME Init PROVE TypeOK
    OBVIOUS
  <2>1. pins \in SUBSET Private
    BY DEF Init
  <2>2. SettingsOK
    BY <2>1 DEF Init, SettingsOK
  <2>3. CaptureOK
    BY DEF Init, CaptureOK
  <2>4. QueueOK
    BY DEF Init, QueueOK
  <2> QED BY <2>2, <2>3, <2>4 DEF TypeOK
<1>2. TypeOK /\ [Next]_vars => TypeOK'
  <2> SUFFICES ASSUME TypeOK, [Next]_vars PROVE TypeOK'
    OBVIOUS
  <2> USE DEF TypeOK, SettingsOK, CaptureOK, QueueOK
  <2>1. CASE Arrive
    <3>1. PICK f \in Frames : wire' = <<f>>
      BY <2>1 DEF Arrive
    <3>2. capturer' \in [Capturers -> {"gate", "parse", "done"}]
      BY <2>1 DEF Arrive
    <3>3. SettingsOK'
      BY <2>1 DEF Arrive, settings
    <3>4. CaptureOK'
      BY <2>1, <3>1, <3>2 DEF Arrive
    <3>5. QueueOK'
      BY <2>1 DEF Arrive
    <3> QED BY <3>3, <3>4, <3>5
  <2>2. ASSUME NEW c \in Capturers, Gate(c) PROVE TypeOK'
    <3>1. capturer' \in [Capturers -> {"gate", "parse", "done"}]
      BY <2>2 DEF Gate
    <3> QED BY <2>2, <3>1 DEF Gate, settings, history
  <2>3. ASSUME NEW c \in Capturers, Parse(c) PROVE TypeOK'
    <3>1. PICK f \in Frames : wire = <<f>>
      BY <2>3 DEF Parse
    <3>2. ItemsOf(c, wire[1]) \in Seq(Item)
      BY <3>1, ItemsTyped
    <3>3. todo' \in [Capturers -> Seq(Item)]
      BY <2>3, <3>2 DEF Parse
    <3>4. stats' \in [Counters -> Nat]
      BY <2>3 DEF Parse, Count
    <3>5. /\ capturer' \in [Capturers -> {"gate", "parse", "done"}]
          /\ parsed' \in SUBSET Capturers /\ kept' \in SUBSET Capturers
      BY <2>3 DEF Parse
    <3> QED BY <2>3, <3>3, <3>4, <3>5 DEF Parse, settings
  <2>4. ASSUME NEW c \in Capturers, Put(c) PROVE TypeOK'
    <3>1. /\ todo[c] \in Seq(Item) /\ todo[c] # <<>>
          /\ todo' = [todo EXCEPT ![c] = Tail(@)] /\ lanes' = PutItem(lanes, Head(todo[c]))
      BY <2>4 DEF Put
    <3>2. Head(todo[c]) \in Item /\ Tail(todo[c]) \in Seq(Item)
      BY <3>1, HeadRemoved
    <3>3. lanes' \in [{"high", "low"} -> Seq(Item)]
      BY <3>1, <3>2, LaneTyped, Appended DEF PutItem
    <3>4. todo' \in [Capturers -> Seq(Item)] /\ steady' \in BOOLEAN
      BY <2>4, <3>1, <3>2 DEF Put
    <3> QED BY <2>4, <3>3, <3>4 DEF Put, settings
  <2>5. ASSUME NEW w \in Workers, NEW l \in {"high", "low"}, Take(w, l) PROVE TypeOK'
    <3>1. Head(lanes[l]) \in Item /\ Tail(lanes[l]) \in Seq(Item)
      BY <2>5, HeadRemoved DEF Take
    <3>2. worker' \in [Workers -> Held \cup {Idle}]
      BY <2>5, <3>1 DEF Take, Held
    <3>3. lanes' \in [{"high", "low"} -> Seq(Item)]
      BY <2>5, <3>1 DEF Take
    <3> QED BY <2>5, <3>2, <3>3 DEF Take, settings, history
  <2>6. ASSUME NEW w \in Workers, CheckStopped(w) PROVE TypeOK'
    <3>1. worker[w] \in Held
      BY <2>6 DEF CheckStopped, Idle
    <3>2. [worker[w] EXCEPT !.pc = "process"] \in Held
      BY <3>1 DEF Held
    <3>3. worker' \in [Workers -> Held \cup {Idle}]
      BY <2>6, <3>2 DEF CheckStopped
    <3> QED BY <2>6, <3>3 DEF CheckStopped, settings, history
  <2>7. ASSUME NEW w \in Workers, ProcessItem(w) PROVE TypeOK'
    <3>1. worker' \in [Workers -> Held \cup {Idle}]
      BY <2>7 DEF ProcessItem
    <3>2. updates' \in [Devices -> [Hosts -> Nat]]
      <4> DEFINE i == worker[w].item
                 more == [h \in Hosts |-> updates[i.device][h] + Calls(i, search, pins, h)]
      <4>1. updates' = [updates EXCEPT ![i.device] = more]
        BY <2>7 DEF ProcessItem
      <4>2. i.device \in Devices => more \in [Hosts -> Nat]
        <5>1. i \in Item /\ search \in BOOLEAN /\ pins \in SUBSET Private
          BY <2>7 DEF ProcessItem, Held, Idle
        <5>2. \A h \in Hosts : Calls(i, search, pins, h) \in Nat
          BY <5>1, CallsOfItem
        <5>3. i.device \in Devices => updates[i.device] \in [Hosts -> Nat]
          OBVIOUS
        <5> HIDE DEF i
        <5> QED BY <5>2, <5>3
      <4> HIDE DEF more
      <4> QED BY <4>1, <4>2
    <3> QED BY <2>7, <3>1, <3>2 DEF ProcessItem, settings
  <2>8. CASE Toggle
    <3>1. toggles' \in Nat
      BY <2>8 DEF Toggle
    <3>2. search' \in BOOLEAN /\ showUdp' \in BOOLEAN
      BY <2>8 DEF Toggle
    <3>3. stopped' \in SUBSET Devices
      BY <2>8 DEF Toggle
    <3>4. pins' \in SUBSET Private
      BY <2>8 DEF Toggle
    <3> QED BY <2>8, <3>1, <3>2, <3>3, <3>4 DEF Toggle
  <2>9. CASE UNCHANGED vars
    BY <2>9 DEF vars, settings, history
  <2> HIDE DEF TypeOK
  <2> QED BY <2>1, <2>2, <2>3, <2>4, <2>5, <2>6, <2>7, <2>8, <2>9 DEF Next
<1> QED BY <1>1, <1>2, PTL DEF Spec

-------------------------------------------------------------------------------
(***************************************************************************)
(* The counters.                                                           *)
(***************************************************************************)
(* A capturer that is not done has not classified the frame on the wire,   *)
(* and classifies a frame it tracks only.                                  *)
WireInv ==
  /\ \A c \in Capturers : capturer[c] # "done" => c \notin parsed
  /\ \A c \in Capturers : capturer[c] = "parse" => Tracked(wire[1])
  /\ kept \subseteq parsed /\ (parsed # {} => wire # <<>>)
  /\ \A c \in kept : Tracked(wire[1])


LEMMA FrameOnWire ==
  ASSUME TypeOK, wire # <<>>
  PROVE  wire[1] \in Frames /\ wire = <<wire[1]>>
BY DEF TypeOK, CaptureOK

\* The frame on the wire stays until all have done with it.
LEMMA WireStep ==
  ASSUME TypeOK, WireInv, [Next]_vars
  PROVE  WireInv'
<1> USE DEF WireInv
<1>1. CASE Arrive
  BY <1>1 DEF Arrive
<1>2. ASSUME NEW c \in Capturers, Gate(c) PROVE WireInv'
  <2>1. /\ UNCHANGED <<wire, parsed, kept>> /\ capturer[c] = "gate"
        /\ capturer' = [capturer EXCEPT ![c] = IF Admits(c) /\ Tracked(wire[1]) THEN "parse" ELSE "done"]
    BY <1>2 DEF Gate, history
  <2>2. \A b \in Capturers : capturer'[b] = IF b # c THEN capturer[b]
                             ELSE IF Admits(c) /\ Tracked(wire[1]) THEN "parse" ELSE "done"
    BY <2>1 DEF TypeOK, CaptureOK
  <2> QED BY <2>1, <2>2
<1>3. ASSUME NEW c \in Capturers, Parse(c) PROVE WireInv'
  <2>1. /\ capturer[c] = "parse" /\ wire # <<>> /\ UNCHANGED wire
        /\ parsed' = parsed \cup {c} /\ kept' \in {kept, kept \cup {c}}
        /\ capturer' = [capturer EXCEPT ![c] = "done"]
    BY <1>3 DEF Parse, TypeOK, CaptureOK
  <2>2. \A b \in Capturers : capturer'[b] = IF b # c THEN capturer[b] ELSE "done"
    BY <2>1 DEF TypeOK, CaptureOK
  <2> QED BY <2>1, <2>2
<1>4. ASSUME UNCHANGED <<wire, capturer, parsed, kept>> PROVE WireInv'
  BY <1>4
<1>5. ASSUME NEW c \in Capturers, Put(c) PROVE WireInv'
  BY <1>4, <1>5 DEF Put
<1>6. ASSUME NEW w \in Workers, CheckStopped(w) \/ ProcessItem(w) \/ \E l \in Lanes : Take(w, l)
      PROVE  WireInv'
  BY <1>4, <1>6 DEF Take, CheckStopped, ProcessItem, history
<1>7. CASE Toggle \/ UNCHANGED vars
  BY <1>4, <1>7 DEF Toggle, vars, history
<1> QED BY <1>1, <1>2, <1>3, <1>5, <1>6, <1>7 DEF Next, Lanes

LEMMA CapturersFinite ==
  ASSUME NEW S \in SUBSET Capturers
  PROVE  IsFiniteSet(S) /\ Cardinality(S) \in Nat
<1>1. IsFiniteSet(Capturers)
  <2>1. IsFiniteSet({"sniffer"})
    BY FS_Singleton
  <2>2. IsFiniteSet({"sniffer", "scanner"})
    BY <2>1, FS_AddElement, {"sniffer", "scanner"} = {"sniffer"} \cup {"scanner"}
  <2> QED BY <2>2, FS_AddElement, Capturers = {"sniffer", "scanner"} \cup {"fritz"} DEF Capturers
<1> QED BY <1>1, FS_Subset, FS_CardinalityType

\* A capturer counted apart from the mirror's.
LEMMA OneMore ==
  ASSUME NEW S \in SUBSET Capturers, NEW c \in Capturers \ S
  PROVE  Cardinality((S \cup {c}) \ {"fritz"})
           = Cardinality(S \ {"fritz"}) + IF c = "fritz" THEN 0 ELSE 1
<1>1. CASE c = "fritz"
  <2>1. (S \cup {c}) \ {"fritz"} = S \ {"fritz"}
    BY <1>1
  <2>2. Cardinality(S \ {"fritz"}) \in Nat
    BY CapturersFinite
  <2> QED BY <1>1, <2>1, <2>2
<1>2. CASE c # "fritz"
  <2>1. (S \cup {c}) \ {"fritz"} = (S \ {"fritz"}) \cup {c} /\ c \notin S \ {"fritz"}
    BY <1>2
  <2>2. IsFiniteSet(S \ {"fritz"})
    BY CapturersFinite
  <2> QED BY <1>2, <2>1, <2>2, FS_AddElement
<1> QED BY <1>1, <1>2

\* What classifying a frame adds to the counters.
LEMMA Counted ==
  ASSUME TypeOK, NEW f \in Frames, Tracked(f), NEW c \in Capturers, NEW filtered \in BOOLEAN
  PROVE  LET n == Count(c, f, filtered) IN
         /\ n["fragmented"] = stats["fragmented"] + (IF c # "fritz" /\ f.fragment THEN 1 ELSE 0)
         /\ n["TCP"] + n["UDP"] + n["ICMP"] =
              stats["TCP"] + stats["UDP"] + stats["ICMP"] + (IF c # "fritz" /\ ~filtered THEN 1 ELSE 0)
<1> DEFINE n == Count(c, f, filtered)
           one == IF c # "fritz" /\ ~filtered THEN 1 ELSE 0
<1>1. f.protocol \in {"TCP", "UDP", "ICMP"} /\ f.fragment \in BOOLEAN
  BY FrameTyped DEF Tracked
<1>2. \A s \in Counters : stats[s] \in Nat
  BY DEF TypeOK, CaptureOK
<1>3. n["fragmented"] = stats["fragmented"] + (IF c # "fritz" /\ f.fragment THEN 1 ELSE 0)
  BY <1>1 DEF Count, Counters
<1>4. \A s \in {"TCP", "UDP", "ICMP"} : n[s] = stats[s] + (IF s = f.protocol THEN one ELSE 0)
  BY <1>1, <1>2 DEF Count, Counters
<1>5. one \in {0, 1}
  OBVIOUS
<1> HIDE DEF n, one
<1>6. n["TCP"] + n["UDP"] + n["ICMP"] = stats["TCP"] + stats["UDP"] + stats["ICMP"] + one
  <2>1. stats["TCP"] \in Nat /\ stats["UDP"] \in Nat /\ stats["ICMP"] \in Nat
    BY <1>2 DEF Counters
  <2>2. CASE f.protocol = "TCP"
    BY <1>4, <1>5, <2>1, <2>2
  <2>3. CASE f.protocol = "UDP"
    BY <1>4, <1>5, <2>1, <2>3
  <2>4. CASE f.protocol = "ICMP"
    BY <1>4, <1>5, <2>1, <2>4
  <2> QED BY <1>1, <2>2, <2>3, <2>4
<1> QED BY <1>3, <1>6 DEF n, one

\* The counters are those of the captures of the frame on the wire: a capturer
\* that has yet to count has not counted.
THEOREM CountersCount == Spec => []CountersExact
<1>1. Init => WireInv /\ CountersExact
  BY DEF Init, WireInv, CountersExact
<1>2. TypeOK /\ WireInv /\ CountersExact /\ [Next]_vars => CountersExact'
  <2> SUFFICES ASSUME TypeOK, WireInv, CountersExact, [Next]_vars PROVE CountersExact'
    OBVIOUS
  <2>1. CASE Arrive
    <3>1. PICK f \in Frames : wire' = <<f>>
      BY <2>1 DEF Arrive
    <3>2. /\ parsed' \ {"fritz"} = {} /\ kept' \ {"fritz"} = {}
          /\ \A s \in Counters : stats'[s] = 0
      BY <2>1 DEF Arrive
    <3>3. Cardinality({}) = 0
      BY FS_EmptySet
    <3>4. /\ stats'["fragmented"] = 0
          /\ stats'["TCP"] = 0 /\ stats'["UDP"] = 0 /\ stats'["ICMP"] = 0
      BY <3>2 DEF Counters
    <3>5. Cardinality(parsed' \ {"fritz"}) = 0 /\ Cardinality(kept' \ {"fritz"}) = 0
      BY <3>2, <3>3
    <3> QED BY <3>4, <3>5 DEF CountersExact
  <2>2. ASSUME NEW c \in Capturers, Parse(c) PROVE CountersExact'
    <3> DEFINE f == wire[1]
               filtered == UdpFiltered(f, showUdp)
    <3>1. /\ wire # <<>> /\ wire' = wire /\ f \in Frames /\ Tracked(f) /\ c \notin parsed /\ c \notin kept
          /\ stats' = Count(c, f, filtered) /\ parsed' = parsed \cup {c}
          /\ kept' = IF filtered THEN kept ELSE kept \cup {c}
      BY <2>2, FrameOnWire DEF Parse, WireInv, TypeOK, CaptureOK
    <3>2. filtered \in BOOLEAN /\ f.fragment \in BOOLEAN
      BY <3>1, FrameTyped DEF UdpFiltered
    <3> HIDE DEF f, filtered
    <3>3. /\ stats'["fragmented"] = stats["fragmented"] + (IF c # "fritz" /\ f.fragment THEN 1 ELSE 0)
          /\ stats'["TCP"] + stats'["UDP"] + stats'["ICMP"] =
               stats["TCP"] + stats["UDP"] + stats["ICMP"] + (IF c # "fritz" /\ ~filtered THEN 1 ELSE 0)
      BY <3>1, <3>2, Counted
    <3>4. /\ Cardinality(parsed' \ {"fritz"})
               = Cardinality(parsed \ {"fritz"}) + IF c = "fritz" THEN 0 ELSE 1
          /\ ~filtered => Cardinality(kept' \ {"fritz"})
               = Cardinality(kept \ {"fritz"}) + IF c = "fritz" THEN 0 ELSE 1
      BY <3>1, OneMore DEF TypeOK, CaptureOK
    <3>5. /\ Cardinality(parsed \ {"fritz"}) \in Nat /\ Cardinality(kept \ {"fritz"}) \in Nat
          /\ \A s \in Counters : stats[s] \in Nat
      BY CapturersFinite DEF TypeOK, CaptureOK
    <3>6. stats["fragmented"] \in Nat /\ stats["TCP"] \in Nat /\ stats["UDP"] \in Nat /\ stats["ICMP"] \in Nat
      BY <3>5 DEF Counters
    <3>7. /\ stats["fragmented"] = IF f.fragment THEN Cardinality(parsed \ {"fritz"}) ELSE 0
          /\ stats["TCP"] + stats["UDP"] + stats["ICMP"] = Cardinality(kept \ {"fritz"})
      BY <3>1 DEF CountersExact, f
    <3>8. stats'["fragmented"] = IF f.fragment THEN Cardinality(parsed' \ {"fritz"}) ELSE 0
      BY <3>3, <3>4, <3>5, <3>6, <3>7
    <3>9. stats'["TCP"] + stats'["UDP"] + stats'["ICMP"] = Cardinality(kept' \ {"fritz"})
      <4>1. CASE filtered
        <5>1. kept' = kept
          BY <3>1, <4>1
        <5>2. stats'["TCP"] + stats'["UDP"] + stats'["ICMP"] = stats["TCP"] + stats["UDP"] + stats["ICMP"]
          BY <3>3, <3>6, <4>1
        <5> QED BY <3>7, <5>1, <5>2
      <4>2. CASE ~filtered
        BY <3>3, <3>4, <3>5, <3>7, <4>2
      <4> QED BY <4>1, <4>2
    <3> QED BY <3>1, <3>8, <3>9 DEF CountersExact, f
  <2>3. ASSUME UNCHANGED <<wire, stats, parsed, kept>> PROVE CountersExact'
    BY <2>3 DEF CountersExact
  <2>4. ASSUME NEW c \in Capturers, Gate(c) \/ Put(c) PROVE CountersExact'
    BY <2>3, <2>4 DEF Gate, Put, history
  <2>5. ASSUME NEW w \in Workers, CheckStopped(w) \/ ProcessItem(w) \/ \E l \in {"high", "low"} : Take(w, l)
        PROVE  CountersExact'
    BY <2>3, <2>5 DEF Take, CheckStopped, ProcessItem, history
  <2>6. CASE Toggle \/ UNCHANGED vars
    BY <2>3, <2>6 DEF Toggle, vars, history
  <2> QED BY <2>1, <2>2, <2>4, <2>5, <2>6 DEF Next
<1> QED BY <1>1, <1>2, TypeCorrect, WireStep, PTL DEF Spec

-------------------------------------------------------------------------------
(***************************************************************************)
(* OncePerFrame.  An invariant about the one item with both endpoints that *)
(* a device makes of a frame: it is yet to be made, in one place of one    *)
(* lane, or at one worker, and no public endpoint is stored before it has  *)
(* been processed.  The other items never store a public endpoint.  Every  *)
(* item on its way has the ends of the frame on the wire.                  *)
(***************************************************************************)
Pending(i) == \/ \E c \in Capturers : \E k \in DOMAIN todo[c] : todo[c][k] = i
              \/ \E l \in Lanes : \E k \in DOMAIN lanes[l] : lanes[l][k] = i
              \/ \E w \in Workers : worker[w].pc # "idle" /\ worker[w].item = i
OfFrame(i, f) == i.src = f.src /\ i.dst = f.dst
FromWire == \A i : Pending(i) => OfFrame(i, wire[1])

(* The one item with both endpoints that a device makes of a frame.        *)
Sniffs(d) == IF d = "local" THEN "sniffer" ELSE "fritz"
InLane(d, l, k) == k \in DOMAIN lanes[l] /\ lanes[l][k].shape = "pair" /\ lanes[l][k].device = d
AtWorker(d, w) == worker[w].pc # "idle" /\ worker[w].item.shape = "pair" /\ worker[w].item.device = d
Unmade(d) == capturer[Sniffs(d)] # "done" \/ todo[Sniffs(d)] # <<>>

MadeOnce == \A d \in Devices : todo[Sniffs(d)] # <<>> =>
              capturer[Sniffs(d)] = "done" /\ Tail(todo[Sniffs(d)]) = <<>>
OwnItems ==
  /\ \A k \in DOMAIN todo["scanner"] : todo["scanner"][k].shape = "single"
  /\ \A d \in Devices : \A k \in DOMAIN todo[Sniffs(d)] : todo[Sniffs(d)][k].device = d
UnmadeIsNowhere == \A d \in Devices : Unmade(d) =>
  /\ \A l \in Lanes, k \in Nat : ~InLane(d, l, k)
  /\ \A w \in Workers : ~AtWorker(d, w)
OnePlace == \A d \in Devices :
  /\ \A l, m \in Lanes, j, k \in Nat : InLane(d, l, j) /\ InLane(d, m, k) => l = m /\ j = k
  /\ \A l \in Lanes, k \in Nat, w \in Workers : ~(InLane(d, l, k) /\ AtWorker(d, w))
  /\ \A v, w \in Workers : AtWorker(d, v) /\ AtWorker(d, w) => v = w
Outstanding(d) == \/ Unmade(d) \/ \E l \in Lanes, k \in Nat : InLane(d, l, k)
                  \/ \E w \in Workers : AtWorker(d, w)
NotYetStored == \A d \in Devices : Outstanding(d) => \A h \in Public : updates[d][h] = 0

OnceInv == MadeOnce /\ OwnItems /\ UnmadeIsNowhere /\ OnePlace /\ NotYetStored /\ OncePerFrame



\* A step that leaves the items where they are, or drops one.
LEMMA OnceKept ==
  ASSUME OnceInv, MadeOnce', UNCHANGED <<wire, todo, lanes, updates>>,
         \A d \in Devices : Unmade(d)' => Unmade(d),
         \A d \in Devices : \A w \in Workers : AtWorker(d, w)' => AtWorker(d, w)
  PROVE  OnceInv'
<1>1. \A d \in Devices, l \in Lanes, k \in Nat : InLane(d, l, k)' <=> InLane(d, l, k)
  BY DEF InLane
<1>2. \A d \in Devices : Outstanding(d)' => Outstanding(d)
  BY <1>1 DEF Outstanding
<1>3. OwnItems' /\ OncePerFrame'
  BY DEF OnceInv, OwnItems, OncePerFrame
<1>4. UnmadeIsNowhere' /\ OnePlace'
  BY <1>1 DEF OnceInv, UnmadeIsNowhere, OnePlace
<1>5. NotYetStored'
  BY <1>2 DEF OnceInv, NotYetStored
<1> QED BY <1>3, <1>4, <1>5 DEF OnceInv

LEMMA SnifferOf ==
  ASSUME NEW d \in Devices
  PROVE  Sniffs(d) \in Capturers \ {"scanner"} /\ \A e \in Devices : Sniffs(e) = Sniffs(d) => e = d
BY DEF Sniffs, Capturers, Devices

LEMMA OnceArrive == ASSUME Arrive PROVE OnceInv'
<1>1. /\ \A c \in Capturers : todo'[c] = <<>>
      /\ \A l \in Lanes : lanes'[l] = <<>>
      /\ \A w \in Workers : worker'[w].pc = "idle"
      /\ \A d \in Devices : \A h \in Hosts : updates'[d][h] = 0
  BY DEF Arrive, Settled, Lanes, Idle
<1>2. \A d \in Devices : todo'[Sniffs(d)] = <<>>
  BY <1>1, SnifferOf
<1>3. \A d \in Devices, l \in Lanes, k \in Nat : ~InLane(d, l, k)'
  BY <1>1 DEF InLane
<1>4. \A d \in Devices, w \in Workers : ~AtWorker(d, w)'
  BY <1>1 DEF AtWorker
<1>5. MadeOnce' /\ UnmadeIsNowhere' /\ OnePlace'
  BY <1>2, <1>3, <1>4 DEF MadeOnce, UnmadeIsNowhere, OnePlace
<1>6. OwnItems'
  BY <1>1, <1>2 DEF OwnItems, Capturers
<1>7. NotYetStored' /\ OncePerFrame'
  BY <1>1, CaptureAssumption DEF NotYetStored, OncePerFrame, Public, Us, Ends, One
<1> QED BY <1>5, <1>6, <1>7 DEF OnceInv

LEMMA OnceGate ==
  ASSUME TypeOK, OnceInv, NEW c \in Capturers, Gate(c)
  PROVE  OnceInv'
<1>1. /\ capturer[c] = "gate" /\ UNCHANGED <<wire, todo, lanes, worker, updates>>
      /\ \A b \in Capturers \ {c} : capturer'[b] = capturer[b]
  BY DEF Gate, history, TypeOK, CaptureOK
<1>2. \A d \in Devices : Unmade(d)' => Unmade(d)
  BY <1>1, SnifferOf DEF Unmade
<1>3. MadeOnce'
  BY <1>1, SnifferOf DEF OnceInv, MadeOnce
<1>4. \A d \in Devices, w \in Workers : AtWorker(d, w)' <=> AtWorker(d, w)
  BY <1>1 DEF AtWorker
<1> QED BY <1>1, <1>2, <1>3, <1>4, OnceKept

LEMMA OnceParse ==
  ASSUME TypeOK, OnceInv, NEW c \in Capturers, Parse(c)
  PROVE  OnceInv'
<1> DEFINE f == wire[1]
           filtered == UdpFiltered(f, showUdp)
<1>1. /\ capturer[c] = "parse" /\ f \in Frames /\ UNCHANGED <<wire, lanes, worker, updates>>
      /\ todo' = IF filtered THEN todo ELSE [todo EXCEPT ![c] = ItemsOf(c, f)]
      /\ capturer' = [capturer EXCEPT ![c] = "done"]
      /\ todo \in [Capturers -> Seq(Item)] /\ capturer \in [Capturers -> {"gate", "parse", "done"}]
  BY FrameOnWire DEF Parse, TypeOK, CaptureOK, QueueOK
<1> HIDE DEF f, filtered
<1>2. /\ \A b \in Capturers \ {c} : capturer'[b] = capturer[b] /\ todo'[b] = todo[b]
      /\ capturer'[c] = "done" /\ todo'[c] \in {todo[c], ItemsOf(c, f)}
  BY <1>1
<1>3. ASSUME NEW d \in Devices, Sniffs(d) = c
      PROVE  /\ Tail(todo'[c]) = <<>> \/ todo'[c] = <<>>
             /\ \A k \in DOMAIN todo'[c] : todo'[c][k].device = d
  <2>1. todo[c] = <<>>
    BY <1>1, <1>3 DEF OnceInv, MadeOnce
  <2>2. PICK dir \in {"incoming", "outgoing", "other"} : ItemsOf(c, f) = <<PairItem(f, d, dir)>>
    BY <1>1, <1>3, SniffedTyped DEF Sniffs
  <2>3. PairItem(f, d, dir).device = d
    BY <1>1, PairTyped
  <2>4. CASE todo'[c] = <<>>
    BY <2>4
  <2>5. CASE todo'[c] = <<PairItem(f, d, dir)>>
    <3> DEFINE p == PairItem(f, d, dir)
    <3>1. todo'[c] = <<p>> /\ p.device = d
      BY <2>3, <2>5
    <3> HIDE DEF p
    <3> QED BY <3>1
  <2> QED BY <1>2, <2>1, <2>2, <2>4, <2>5
<1>4. c = "scanner" => \A k \in DOMAIN todo'[c] : todo'[c][k].shape = "single"
  BY <1>1, <1>2, LanItemsTyped DEF OnceInv, OwnItems, ItemsOf
<1>5. MadeOnce'
  BY <1>2, <1>3, SnifferOf DEF OnceInv, MadeOnce
<1>6. OwnItems'
  <2>1. \A k \in DOMAIN todo'["scanner"] : todo'["scanner"][k].shape = "single"
    BY <1>2, <1>4 DEF OnceInv, OwnItems, Capturers
  <2>2. ASSUME NEW d \in Devices PROVE \A k \in DOMAIN todo'[Sniffs(d)] : todo'[Sniffs(d)][k].device = d
    <3>1. CASE Sniffs(d) = c
      BY <1>3, <3>1
    <3>2. CASE Sniffs(d) # c
      BY <1>2, <3>2, SnifferOf DEF OnceInv, OwnItems
    <3> QED BY <3>1, <3>2
  <2> QED BY <2>1, <2>2 DEF OwnItems, Sniffs
<1>7. \A d \in Devices : Unmade(d)' => Unmade(d)
  BY <1>1, <1>2, SnifferOf DEF Unmade
<1>8. /\ \A d \in Devices, l \in Lanes, k \in Nat : InLane(d, l, k)' <=> InLane(d, l, k)
      /\ \A d \in Devices, w \in Workers : AtWorker(d, w)' <=> AtWorker(d, w)
  BY <1>1 DEF InLane, AtWorker
<1>9. \A d \in Devices : Outstanding(d)' => Outstanding(d)
  BY <1>7, <1>8 DEF Outstanding
<1>10. UnmadeIsNowhere' /\ OnePlace'
  BY <1>7, <1>8 DEF OnceInv, UnmadeIsNowhere, OnePlace
<1>11. NotYetStored' /\ OncePerFrame'
  BY <1>1, <1>9 DEF OnceInv, NotYetStored, OncePerFrame
<1> QED BY <1>5, <1>6, <1>10, <1>11 DEF OnceInv

\* What a put leaves: the item at the end of its lane, or nowhere.
LEMMA PutLeaves ==
  ASSUME TypeOK, NEW c \in Capturers, Put(c)
  PROVE  LET i == Head(todo[c]) IN
         /\ i \in Item /\ 1 \in DOMAIN todo[c] /\ todo[c][1] = i
         /\ \A b \in Capturers \ {c} : todo'[b] = todo[b]
         /\ todo'[c] = Tail(todo[c])
         /\ \A l \in Lanes, k \in Nat : k \in DOMAIN lanes'[l] =>
              \/ k \in DOMAIN lanes[l] /\ lanes'[l][k] = lanes[l][k]
              \/ l = LaneOf(i) /\ k = Len(lanes[l]) + 1 /\ lanes'[l][k] = i
         /\ \A l \in Lanes, k \in Nat :
              k \in DOMAIN lanes[l] => k \in DOMAIN lanes'[l] /\ lanes'[l][k] = lanes[l][k]
         /\ Room(lanes, i) => \E k \in DOMAIN lanes'[LaneOf(i)] : lanes'[LaneOf(i)][k] = i
<1> DEFINE i == Head(todo[c])
           q == LaneOf(i)
<1>1. /\ todo[c] \in Seq(Item) /\ todo[c] # <<>> /\ \A l \in Lanes : lanes[l] \in Seq(Item)
      /\ todo' = [todo EXCEPT ![c] = Tail(@)] /\ lanes' = PutItem(lanes, i)
      /\ lanes \in [Lanes -> Seq(Item)] /\ todo \in [Capturers -> Seq(Item)]
  BY DEF Put, TypeOK, QueueOK, Lanes
<1>2. i \in Item /\ 1 \in DOMAIN todo[c] /\ todo[c][1] = i /\ q \in Lanes
  BY <1>1, HeadRemoved, LaneTyped DEF Lanes
<1> HIDE DEF i, q
<1>3. /\ \A b \in Capturers \ {c} : todo'[b] = todo[b]
      /\ todo'[c] = Tail(todo[c])
  BY <1>1
<1>4. /\ \A l \in Lanes \ {q} : lanes'[l] = lanes[l]
      /\ lanes'[q] = IF Room(lanes, i) THEN Append(lanes[q], i) ELSE lanes[q]
  BY <1>1, <1>2 DEF PutItem, q
<1>5. /\ \A k \in DOMAIN lanes[q] : k \in DOMAIN Append(lanes[q], i) /\ Append(lanes[q], i)[k] = lanes[q][k]
      /\ \A k \in DOMAIN Append(lanes[q], i) :
           \/ k \in DOMAIN lanes[q] /\ Append(lanes[q], i)[k] = lanes[q][k]
           \/ k = Len(lanes[q]) + 1 /\ Append(lanes[q], i)[k] = i
  BY <1>1, <1>2, Appended
<1>6. \A l \in Lanes, k \in Nat : k \in DOMAIN lanes'[l] =>
        \/ k \in DOMAIN lanes[l] /\ lanes'[l][k] = lanes[l][k]
        \/ l = q /\ k = Len(lanes[l]) + 1 /\ lanes'[l][k] = i
  <2> SUFFICES ASSUME NEW l \in Lanes, NEW k \in Nat, k \in DOMAIN lanes'[l]
               PROVE  \/ k \in DOMAIN lanes[l] /\ lanes'[l][k] = lanes[l][k]
                      \/ l = q /\ k = Len(lanes[l]) + 1 /\ lanes'[l][k] = i
    OBVIOUS
  <2>1. CASE lanes'[l] = lanes[l]
    BY <2>1
  <2>2. CASE l = q /\ lanes'[q] = Append(lanes[q], i)
    BY <1>5, <1>2, <2>2
  <2> QED BY <1>4, <2>1, <2>2
<1>7. \A l \in Lanes, k \in Nat :
        k \in DOMAIN lanes[l] => k \in DOMAIN lanes'[l] /\ lanes'[l][k] = lanes[l][k]
  <2> SUFFICES ASSUME NEW l \in Lanes, NEW k \in Nat, k \in DOMAIN lanes[l]
               PROVE  k \in DOMAIN lanes'[l] /\ lanes'[l][k] = lanes[l][k]
    OBVIOUS
  <2>1. CASE lanes'[l] = lanes[l]
    BY <2>1
  <2>2. CASE l = q /\ lanes'[q] = Append(lanes[q], i)
    BY <1>5, <1>2, <2>2
  <2> QED BY <1>4, <2>1, <2>2
<1>8. Room(lanes, i) => \E k \in DOMAIN lanes'[q] : lanes'[q][k] = i
  BY <1>1, <1>2, <1>4, Appended
<1> QED BY <1>2, <1>3, <1>6, <1>7, <1>8 DEF i, q

LEMMA OncePut ==
  ASSUME TypeOK, OnceInv, NEW c \in Capturers, Put(c)
  PROVE  OnceInv'
<1> DEFINE i == Head(todo[c])
<1>1. /\ i \in Item /\ 1 \in DOMAIN todo[c] /\ todo[c][1] = i /\ todo[c] # <<>>
      /\ \A b \in Capturers \ {c} : todo'[b] = todo[b]
      /\ todo'[c] = Tail(todo[c])
      /\ UNCHANGED <<wire, capturer, worker, updates>>
      /\ todo[c] \in Seq(Item)
  BY PutLeaves DEF Put, TypeOK, QueueOK
<1>2. \A d \in Devices, l \in Lanes, k \in Nat : InLane(d, l, k)' =>
        \/ InLane(d, l, k)
        \/ l = LaneOf(i) /\ k = Len(lanes[l]) + 1 /\ i.shape = "pair" /\ i.device = d
  BY PutLeaves DEF InLane
<1> HIDE DEF i
<1>3. c = "scanner" => i.shape = "single"
  BY <1>1 DEF OnceInv, OwnItems
<1>4. ASSUME NEW d \in Devices, Sniffs(d) = c
      PROVE  i.device = d /\ Unmade(d) /\ ~Unmade(d)' /\ todo'[c] = <<>>
  BY <1>1, <1>4 DEF OnceInv, OwnItems, MadeOnce, Unmade
<1>5. \E d \in Devices : c = "scanner" \/ Sniffs(d) = c
  BY DEF Capturers, Devices, Sniffs
<1>6. ASSUME NEW d \in Devices, Sniffs(d) # c
      PROVE  /\ Unmade(d)' <=> Unmade(d)
             /\ \A l \in Lanes, k \in Nat : InLane(d, l, k)' => InLane(d, l, k)
  <2>1. Unmade(d)' <=> Unmade(d)
    BY <1>1, <1>6, SnifferOf DEF Unmade
  <2>2. i.shape = "single" \/ i.device # d
    BY <1>3, <1>4, <1>5, <1>6
  <2> QED BY <1>2, <2>1, <2>2
<1>7. \A d \in Devices, w \in Workers : AtWorker(d, w)' <=> AtWorker(d, w)
  BY <1>1 DEF AtWorker
<1>8. MadeOnce'
  BY <1>1, <1>4, SnifferOf DEF OnceInv, MadeOnce
<1>9. OwnItems'
  <2>1. \A k \in DOMAIN todo'[c] : \E j \in DOMAIN todo[c] : todo'[c][k] = todo[c][j]
    BY <1>1, HeadRemoved
  <2>2. \A k \in DOMAIN todo'["scanner"] : todo'["scanner"][k].shape = "single"
    <3>1. CASE c = "scanner"
      BY <2>1, <3>1 DEF OnceInv, OwnItems
    <3>2. CASE c # "scanner"
      BY <1>1, <3>2 DEF OnceInv, OwnItems, Capturers
    <3> QED BY <3>1, <3>2
  <2>3. ASSUME NEW d \in Devices PROVE \A k \in DOMAIN todo'[Sniffs(d)] : todo'[Sniffs(d)][k].device = d
    <3>1. CASE Sniffs(d) = c
      BY <2>1, <3>1 DEF OnceInv, OwnItems
    <3>2. CASE Sniffs(d) # c
      BY <1>1, <3>2, SnifferOf DEF OnceInv, OwnItems
    <3> QED BY <3>1, <3>2
  <2> QED BY <2>2, <2>3 DEF OwnItems, Sniffs
<1>10. \A d \in Devices : Outstanding(d)' => Outstanding(d)
  BY <1>4, <1>6, <1>7 DEF Outstanding
<1>11. UnmadeIsNowhere'
  BY <1>4, <1>6, <1>7 DEF OnceInv, UnmadeIsNowhere
<1>12. OnePlace'
  <2> SUFFICES ASSUME NEW d \in Devices
               PROVE  /\ \A l, m \in Lanes, j, k \in Nat : InLane(d, l, j)' /\ InLane(d, m, k)' => l = m /\ j = k
                      /\ \A l \in Lanes, k \in Nat, w \in Workers : ~(InLane(d, l, k)' /\ AtWorker(d, w)')
                      /\ \A v, w \in Workers : AtWorker(d, v)' /\ AtWorker(d, w)' => v = w
    BY DEF OnePlace
  <2>1. CASE Sniffs(d) = c
    <3>1. /\ \A l \in Lanes, k \in Nat : ~InLane(d, l, k)
          /\ \A w \in Workers : ~AtWorker(d, w)
      BY <1>4, <2>1 DEF OnceInv, UnmadeIsNowhere
    <3> QED BY <1>2, <1>7, <3>1
  <2>2. CASE Sniffs(d) # c
    BY <1>6, <1>7, <2>2 DEF OnceInv, OnePlace
  <2> QED BY <2>1, <2>2
<1>13. NotYetStored' /\ OncePerFrame'
  BY <1>1, <1>10 DEF OnceInv, NotYetStored, OncePerFrame
<1> QED BY <1>8, <1>9, <1>11, <1>12, <1>13 DEF OnceInv

\* What a take leaves: the head of the lane at the worker.
LEMMA TakeLeaves ==
  ASSUME TypeOK, NEW w \in Workers, NEW l \in Lanes, Take(w, l)
  PROVE  /\ 1 \in DOMAIN lanes[l] /\ worker[w].pc = "idle"
         /\ worker'[w].pc = "gate" /\ worker'[w].item = lanes[l][1]
         /\ \A v \in Workers \ {w} : worker'[v] = worker[v]
         /\ \A m \in Lanes \ {l} : lanes'[m] = lanes[m]
         /\ \A k \in Nat : k \in DOMAIN lanes'[l] =>
              k + 1 \in DOMAIN lanes[l] /\ k + 1 # 1 /\ lanes'[l][k] = lanes[l][k + 1]
         /\ \A k \in DOMAIN lanes[l] : k # 1 =>
              k - 1 \in DOMAIN lanes'[l] /\ lanes'[l][k - 1] = lanes[l][k]
<1>1. /\ lanes[l] \in Seq(Item) /\ lanes[l] # <<>> /\ worker[w] = Idle
      /\ worker' = [worker EXCEPT ![w] = [pc |-> "gate", item |-> Head(lanes[l])]]
      /\ lanes' = [lanes EXCEPT ![l] = Tail(@)]
      /\ lanes \in [Lanes -> Seq(Item)] /\ worker \in [Workers -> Held \cup {Idle}]
  BY DEF Take, TypeOK, QueueOK, Lanes
<1>2. /\ lanes'[l] = Tail(lanes[l]) /\ \A m \in Lanes \ {l} : lanes'[m] = lanes[m]
      /\ worker'[w].pc = "gate" /\ worker'[w].item = Head(lanes[l])
      /\ \A v \in Workers \ {w} : worker'[v] = worker[v]
  BY <1>1
<1>3. worker[w].pc = "idle"
  BY <1>1 DEF Idle
<1> QED BY <1>1, <1>2, <1>3, HeadRemoved

LEMMA OnceTake ==
  ASSUME TypeOK, OnceInv, NEW w \in Workers, NEW l \in Lanes, Take(w, l)
  PROVE  OnceInv'
<1>1. UNCHANGED <<wire, todo, capturer, updates>>
  BY DEF Take, history
<1>2. \A d \in Devices, v \in Workers : AtWorker(d, v)' =>
        \/ v # w /\ AtWorker(d, v)
        \/ v = w /\ InLane(d, l, 1)
  BY TakeLeaves DEF AtWorker, InLane
<1>3. \A d \in Devices, m \in Lanes, k \in Nat : InLane(d, m, k)' =>
        \/ m # l /\ InLane(d, m, k)
        \/ m = l /\ InLane(d, l, k + 1) /\ k + 1 # 1
  BY TakeLeaves DEF InLane
<1>4. \A d \in Devices : Unmade(d)' <=> Unmade(d)
  BY <1>1 DEF Unmade
<1>5. \A d \in Devices : Outstanding(d)' => Outstanding(d)
  BY <1>2, <1>3, <1>4 DEF Outstanding
<1>6. MadeOnce' /\ OwnItems'
  BY <1>1 DEF OnceInv, MadeOnce, OwnItems
<1>7. UnmadeIsNowhere'
  BY <1>2, <1>3, <1>4 DEF OnceInv, UnmadeIsNowhere
<1>8. OnePlace'
  <2> SUFFICES ASSUME NEW d \in Devices
               PROVE  /\ \A m, n \in Lanes, j, k \in Nat : InLane(d, m, j)' /\ InLane(d, n, k)' => m = n /\ j = k
                      /\ \A m \in Lanes, k \in Nat, v \in Workers : ~(InLane(d, m, k)' /\ AtWorker(d, v)')
                      /\ \A u, v \in Workers : AtWorker(d, u)' /\ AtWorker(d, v)' => u = v
    BY DEF OnePlace
  <2>1. /\ \A m, n \in Lanes, j, k \in Nat : InLane(d, m, j) /\ InLane(d, n, k) => m = n /\ j = k
        /\ \A m \in Lanes, k \in Nat, v \in Workers : ~(InLane(d, m, k) /\ AtWorker(d, v))
        /\ \A u, v \in Workers : AtWorker(d, u) /\ AtWorker(d, v) => u = v
    BY DEF OnceInv, OnePlace
  <2>2. \A m, n \in Lanes, j, k \in Nat : InLane(d, m, j)' /\ InLane(d, n, k)' => m = n /\ j = k
    BY <1>3, <2>1
  <2>3. \A m \in Lanes, k \in Nat, v \in Workers : ~(InLane(d, m, k)' /\ AtWorker(d, v)')
    BY <1>2, <1>3, <2>1
  <2>4. \A u, v \in Workers : AtWorker(d, u)' /\ AtWorker(d, v)' => u = v
    BY <1>2, <2>1
  <2> QED BY <2>2, <2>3, <2>4
<1>9. NotYetStored' /\ OncePerFrame'
  BY <1>1, <1>5 DEF OnceInv, NotYetStored, OncePerFrame
<1> QED BY <1>6, <1>7, <1>8, <1>9 DEF OnceInv

LEMMA OnceChecked ==
  ASSUME TypeOK, OnceInv, NEW w \in Workers, CheckStopped(w)
  PROVE  OnceInv'
<1>1. UNCHANGED <<wire, todo, lanes, capturer, updates>> /\ worker[w].pc = "gate"
  BY DEF CheckStopped, history
<1>2. /\ \A v \in Workers \ {w} : worker'[v] = worker[v]
      /\ worker'[w] = Idle \/ worker'[w] = [worker[w] EXCEPT !.pc = "process"]
      /\ worker[w] \in Held
  BY <1>1 DEF CheckStopped, TypeOK, QueueOK, Idle
<1>3. worker'[w].pc = "idle" \/ worker'[w].item = worker[w].item
  BY <1>2 DEF Idle, Held
<1>4. \A d \in Devices, v \in Workers : AtWorker(d, v)' => AtWorker(d, v)
  BY <1>1, <1>2, <1>3 DEF AtWorker
<1>5. (\A d \in Devices : Unmade(d)' => Unmade(d)) /\ MadeOnce'
  BY <1>1 DEF Unmade, OnceInv, MadeOnce
<1> QED BY <1>1, <1>4, <1>5, OnceKept

\* What processing an item adds to the updates.
LEMMA ProcessAdds ==
  ASSUME TypeOK, NEW w \in Workers, ProcessItem(w)
  PROVE  LET i == worker[w].item IN
         /\ i \in Item /\ worker[w].pc = "process" /\ worker'[w] = Idle
         /\ \A v \in Workers \ {w} : worker'[v] = worker[v]
         /\ \A d \in Devices, h \in Hosts : updates'[d][h] =
              IF d = i.device THEN updates[d][h] + Calls(i, search, pins, h) ELSE updates[d][h]
         /\ \A h \in Hosts : Calls(i, search, pins, h) \in Nat
<1> DEFINE i == worker[w].item
           more == [h \in Hosts |-> updates[i.device][h] + Calls(i, search, pins, h)]
<1>1. /\ worker[w].pc = "process" /\ worker' = [worker EXCEPT ![w] = Idle]
      /\ updates' = [updates EXCEPT ![i.device] = more]
      /\ worker \in [Workers -> Held \cup {Idle}] /\ updates \in [Devices -> [Hosts -> Nat]]
      /\ search \in BOOLEAN /\ pins \in SUBSET Private
  BY DEF ProcessItem, TypeOK, QueueOK, SettingsOK
<1>2. i \in Item
  BY <1>1 DEF Held, Idle
<1>3. \A h \in Hosts : more[h] = updates[i.device][h] + Calls(i, search, pins, h)
  OBVIOUS
<1>4. \A h \in Hosts : Calls(i, search, pins, h) \in Nat
  BY <1>1, <1>2, CallsOfItem
<1>5. i.device \in Devices
  BY <1>2 DEF Item, Devices
<1>6. worker'[w] = Idle /\ \A v \in Workers \ {w} : worker'[v] = worker[v]
  BY <1>1
<1> HIDE DEF i, more
<1>7. \A d \in Devices, h \in Hosts : updates'[d][h] =
        IF d = i.device THEN updates[d][h] + Calls(i, search, pins, h) ELSE updates[d][h]
  BY <1>1, <1>3, <1>5
<1> QED BY <1>1, <1>2, <1>4, <1>6, <1>7 DEF i

\* A put keeps the lanes sequences of items.
LEMMA PutTyped ==
  ASSUME TypeOK, NEW c \in Capturers, Put(c), NEW l \in Lanes
  PROVE  lanes'[l] \in Seq(Item)
<1>1. /\ todo[c] \in Seq(Item) /\ todo[c] # <<>> /\ lanes' = PutItem(lanes, Head(todo[c]))
      /\ lanes \in [Lanes -> Seq(Item)]
  BY DEF Put, TypeOK, QueueOK, Lanes
<1>2. Head(todo[c]) \in Item /\ LaneOf(Head(todo[c])) \in Lanes
  BY <1>1, HeadRemoved, LaneTyped DEF Lanes
<1> QED BY <1>1, <1>2, Appended DEF PutItem

\* The items a capturer makes have the ends of the frame.
LEMMA ItemsOfFrame ==
  ASSUME NEW f \in Frames, NEW c \in Capturers, NEW k \in DOMAIN ItemsOf(c, f)
  PROVE  OfFrame(ItemsOf(c, f)[k], f)
<1>1. CASE c = "scanner"
  <2> DEFINE a == LanItem(f, f.src, IF f.dst \in Us THEN "incoming" ELSE "other")
             b == LanItem(f, f.dst, IF f.src \in Us THEN "outgoing" ELSE "other")
  <2>1. OfFrame(a, f) /\ OfFrame(b, f)
    BY DEF LanItem, OfFrame
  <2>2. LanItems(f) \in {<<a>> \o <<b>>, <<a>> \o <<>>, <<>> \o <<b>>, <<>> \o <<>>}
    BY DEF LanItems, SourceItem, DestinationItem
  <2>3. ItemsOf(c, f) = LanItems(f)
    BY <1>1 DEF ItemsOf
  <2> HIDE DEF a, b
  <2>4. LanItems(f) \in {<<a, b>>, <<a>>, <<b>>, <<>>}
    <3>1. <<a>> \o <<b>> = <<a, b>>
      BY TwoItems
    <3>2. <<a>> \o <<>> = <<a>> /\ <<>> \o <<b>> = <<b>> /\ <<>> \o <<>> = <<>>
      OBVIOUS
    <3> QED BY <2>2, <3>1, <3>2
  <2> QED BY <2>1, <2>3, <2>4
<1>2. CASE c \in {"sniffer", "fritz"}
  <2> DEFINE a == IF c = "sniffer" THEN PairItem(f, "local", Direction(f))
                  ELSE PairItem(f, "fritzdump", FritzDirection(f))
  <2>1. OfFrame(a, f) /\ ItemsOf(c, f) = <<a>>
    BY <1>2 DEF PairItem, OfFrame, ItemsOf
  <2> HIDE DEF a
  <2> QED BY <2>1
<1> QED BY <1>1, <1>2 DEF Capturers

\* Every item on its way is of the frame on the wire.
LEMMA FromWireStep == TypeOK /\ FromWire /\ [Next]_vars => FromWire'
<1> SUFFICES ASSUME TypeOK, FromWire, [Next]_vars PROVE FromWire'
  OBVIOUS
<1>1. CASE Arrive
  BY <1>1 DEF Arrive, Settled, FromWire, Pending, Lanes, Idle
<1>2. ASSUME wire' = wire, \A i : Pending(i)' => Pending(i) \/ OfFrame(i, wire[1]) PROVE FromWire'
  BY <1>2 DEF FromWire, OfFrame
<1>3. ASSUME NEW c \in Capturers, Parse(c) PROVE FromWire'
  <2>1. /\ wire[1] \in Frames /\ UNCHANGED <<wire, lanes, worker>>
        /\ todo' \in {todo, [todo EXCEPT ![c] = ItemsOf(c, wire[1])]}
        /\ todo \in [Capturers -> Seq(Item)]
    BY <1>3, FrameOnWire DEF Parse, TypeOK, CaptureOK, QueueOK
  <2>2. \A b \in Capturers : todo'[b] = todo[b] \/ (b = c /\ todo'[b] = ItemsOf(c, wire[1]))
    BY <2>1
  <2>3. \A i : Pending(i)' => Pending(i) \/ \E k \in DOMAIN ItemsOf(c, wire[1]) : ItemsOf(c, wire[1])[k] = i
    BY <2>1, <2>2 DEF Pending
  <2> QED BY <1>2, <2>1, <2>3, ItemsOfFrame
<1>4. ASSUME NEW c \in Capturers, Put(c) PROVE FromWire'
  <2>1. UNCHANGED <<wire, worker>> /\ todo[c] \in Seq(Item) /\ todo[c] # <<>>
        /\ todo'[c] = Tail(todo[c]) /\ \A b \in Capturers \ {c} : todo'[b] = todo[b]
    BY <1>4, PutLeaves DEF Put, TypeOK, QueueOK
  <2>2. \A k \in DOMAIN todo'[c] : \E j \in DOMAIN todo[c] : todo'[c][k] = todo[c][j]
    BY <2>1, HeadRemoved
  <2>3. \A l \in Lanes : \A k \in DOMAIN lanes'[l] :
          \/ \E j \in DOMAIN lanes[l] : lanes'[l][k] = lanes[l][j]
          \/ lanes'[l][k] = todo[c][1] /\ 1 \in DOMAIN todo[c]
    <3> SUFFICES ASSUME NEW l \in Lanes, NEW k \in DOMAIN lanes'[l]
                 PROVE  \/ \E j \in DOMAIN lanes[l] : lanes'[l][k] = lanes[l][j]
                        \/ lanes'[l][k] = todo[c][1] /\ 1 \in DOMAIN todo[c]
      OBVIOUS
    <3>1. k \in Nat
      <4>1. lanes'[l] \in Seq(Item)
        BY <1>4, PutTyped
      <4> QED BY <4>1
    <3> QED BY <1>4, <3>1, PutLeaves
  <2>4. \A i : Pending(i)' => Pending(i)
    <3> SUFFICES ASSUME NEW i, Pending(i)' PROVE Pending(i)
      OBVIOUS
    <3>1. CASE \E b \in Capturers : \E k \in DOMAIN todo'[b] : todo'[b][k] = i
      <4>1. PICK b \in Capturers : \E k \in DOMAIN todo'[b] : todo'[b][k] = i
        BY <3>1
      <4>2. \E j \in DOMAIN todo[b] : todo[b][j] = i
        <5>1. CASE b = c
          BY <2>2, <4>1, <5>1
        <5>2. CASE b # c
          BY <2>1, <4>1, <5>2
        <5> QED BY <5>1, <5>2
      <4> QED BY <4>2 DEF Pending
    <3>2. CASE \E l \in Lanes : \E k \in DOMAIN lanes'[l] : lanes'[l][k] = i
      BY <2>3, <3>2 DEF Pending
    <3>3. CASE \E w \in Workers : worker'[w].pc # "idle" /\ worker'[w].item = i
      BY <2>1, <3>3 DEF Pending
    <3> QED BY <3>1, <3>2, <3>3 DEF Pending
  <2> QED BY <1>2, <2>1, <2>4
<1>5. ASSUME NEW w \in Workers, NEW l \in Lanes, Take(w, l) PROVE FromWire'
  <2>1. UNCHANGED <<wire, todo>> /\ lanes'[l] \in Seq(Item)
    BY <1>5, HeadRemoved DEF Take, TypeOK, QueueOK, Lanes
  <2>2. \A k \in DOMAIN lanes'[l] : \E j \in DOMAIN lanes[l] : lanes'[l][k] = lanes[l][j]
    <3> SUFFICES ASSUME NEW k \in DOMAIN lanes'[l]
                 PROVE  \E j \in DOMAIN lanes[l] : lanes'[l][k] = lanes[l][j]
      OBVIOUS
    <3>1. k \in Nat
      BY <2>1
    <3> QED BY <1>5, <3>1, TakeLeaves
  <2>3. \A m \in Lanes \ {l} : lanes'[m] = lanes[m]
    BY <1>5, TakeLeaves
  <2>4. \A v \in Workers : worker'[v] = worker[v] \/ worker'[v].item = lanes[l][1]
    BY <1>5, TakeLeaves
  <2>5. 1 \in DOMAIN lanes[l]
    BY <1>5, TakeLeaves
  <2>6. \A i : Pending(i)' => Pending(i)
    BY <2>1, <2>2, <2>3, <2>4, <2>5 DEF Pending
  <2> QED BY <1>2, <2>1, <2>6
<1>6. ASSUME NEW w \in Workers, CheckStopped(w) PROVE FromWire'
  <2>1. /\ UNCHANGED <<wire, todo, lanes>> /\ worker[w].pc = "gate"
        /\ \A v \in Workers \ {w} : worker'[v] = worker[v]
        /\ worker'[w] = Idle \/ worker'[w] = [worker[w] EXCEPT !.pc = "process"]
        /\ worker[w] \in Held
    BY <1>6 DEF CheckStopped, history, TypeOK, QueueOK, Idle
  <2>2. worker'[w].pc = "idle" \/ worker'[w].item = worker[w].item
    BY <2>1 DEF Idle, Held
  <2>3. \A i : Pending(i)' => Pending(i)
    BY <2>1, <2>2 DEF Pending
  <2> QED BY <1>2, <2>1, <2>3
<1>7. ASSUME NEW w \in Workers, ProcessItem(w) PROVE FromWire'
  <2>1. UNCHANGED <<wire, todo, lanes>> /\ worker'[w].pc = "idle"
        /\ \A v \in Workers \ {w} : worker'[v] = worker[v]
    <3>1. UNCHANGED <<wire, todo, lanes>>
      BY <1>7 DEF ProcessItem
    <3> QED BY <1>7, <3>1, ProcessAdds DEF Idle
  <2>2. \A i : Pending(i)' => Pending(i)
    BY <2>1 DEF Pending
  <2> QED BY <1>2, <2>1, <2>2
<1>8. CASE (\E c \in Capturers : Gate(c)) \/ Toggle \/ UNCHANGED vars
  <2>1. UNCHANGED <<wire, todo, lanes, worker>>
    BY <1>8 DEF Gate, Toggle, vars
  <2> QED BY <2>1 DEF FromWire, Pending, OfFrame
<1> QED BY <1>1, <1>3, <1>4, <1>5, <1>6, <1>7, <1>8 DEF Next, Lanes

LEMMA OnceProcessed ==
  ASSUME TypeOK, FromWire, OnceInv, NEW w \in Workers, ProcessItem(w)
  PROVE  OnceInv'
<1> DEFINE i == worker[w].item
           calls(h) == Calls(i, search, pins, h)
<1>1. /\ UNCHANGED <<wire, todo, lanes, capturer>> /\ i \in Item /\ worker[w].pc = "process"
      /\ worker'[w].pc = "idle" /\ \A v \in Workers \ {w} : worker'[v] = worker[v]
      /\ \A d \in Devices, h \in Hosts :
           updates'[d][h] = IF d = i.device THEN updates[d][h] + calls(h) ELSE updates[d][h]
  <2>1. UNCHANGED <<wire, todo, lanes, capturer>>
    BY DEF ProcessItem
  <2> QED BY <2>1, ProcessAdds DEF Idle
<1>2. i.device \in Devices /\ i.shape \in {"pair", "single"}
  BY <1>1 DEF Item, Devices
<1>3. i.shape = "pair" => AtWorker(i.device, w)
  BY <1>1 DEF AtWorker
<1>a. OfFrame(i, wire[1])
  BY <1>1 DEF FromWire, Pending
<1>b. \A h \in Hosts : /\ calls(h) \in Nat /\ (h \in Us => calls(h) = 0)
                       /\ i.shape = "single" /\ h \in Public => calls(h) = 0
                       /\ i.shape = "pair" => calls(h) <= Ends(wire[1], h)
  <2>1. \A h \in Hosts : Ends(i, h) = Ends(wire[1], h)
    BY <1>a DEF OfFrame, Ends
  <2>2. search \in BOOLEAN /\ pins \in SUBSET Private
    BY DEF TypeOK, SettingsOK
  <2> QED BY <1>1, <2>1, <2>2, CallsOfItem
<1>c. \A d \in Devices, h \in Hosts : updates[d][h] \in Nat
  BY DEF TypeOK, QueueOK
<1> HIDE DEF i, calls
<1>4. \A d \in Devices, v \in Workers : AtWorker(d, v)' => v # w /\ AtWorker(d, v)
  BY <1>1 DEF AtWorker
<1>5. /\ \A d \in Devices, l \in Lanes, k \in Nat : InLane(d, l, k)' <=> InLane(d, l, k)
      /\ \A d \in Devices : Unmade(d)' <=> Unmade(d)
  BY <1>1 DEF InLane, Unmade
<1>6. MadeOnce' /\ OwnItems'
  BY <1>1 DEF OnceInv, MadeOnce, OwnItems
<1>7. UnmadeIsNowhere' /\ OnePlace'
  BY <1>4, <1>5 DEF OnceInv, UnmadeIsNowhere, OnePlace
<1>8. \A d \in Devices : Outstanding(d)' => Outstanding(d) /\ ~(i.shape = "pair" /\ i.device = d)
  BY <1>2, <1>3, <1>4, <1>5 DEF OnceInv, UnmadeIsNowhere, OnePlace, Outstanding
<1>9. Public \subseteq Hosts /\ Us \subseteq Hosts
  BY CaptureAssumption DEF Public, Us
<1>10. \A d \in Devices, h \in Public : updates'[d][h] # updates[d][h] =>
         i.shape = "pair" /\ d = i.device /\ updates'[d][h] <= Ends(wire[1], h)
  <2> SUFFICES ASSUME NEW d \in Devices, NEW h \in Public, updates'[d][h] # updates[d][h]
               PROVE  i.shape = "pair" /\ d = i.device /\ updates'[d][h] <= Ends(wire[1], h)
    OBVIOUS
  <2>1. d = i.device /\ updates'[d][h] = updates[d][h] + calls(h) /\ calls(h) # 0
    BY <1>1, <1>9, <1>c
  <2>2. i.shape = "pair" /\ calls(h) <= Ends(wire[1], h)
    BY <1>2, <1>9, <1>b, <2>1
  <2>3. updates[d][h] = 0
    BY <1>3, <2>1, <2>2 DEF OnceInv, NotYetStored, Outstanding
  <2> QED BY <1>9, <1>b, <2>1, <2>2, <2>3
<1>11. NotYetStored'
  BY <1>8, <1>10 DEF OnceInv, NotYetStored
<1>12. OncePerFrame'
  <2>1. \A d \in Devices, h \in Us : updates'[d][h] = updates[d][h]
    BY <1>1, <1>9, <1>b, <1>c
  <2>2. wire # <<>> => \A d \in Devices, h \in Public : updates'[d][h] <= Ends(wire[1], h)
    BY <1>10 DEF OnceInv, OncePerFrame
  <2> QED BY <1>1, <2>1, <2>2 DEF OnceInv, OncePerFrame
<1> QED BY <1>6, <1>7, <1>11, <1>12 DEF OnceInv

LEMMA OnceStep ==
  ASSUME TypeOK, FromWire, OnceInv, [Next]_vars
  PROVE  OnceInv'
<1>1. ASSUME UNCHANGED <<wire, todo, lanes, capturer, worker, updates>> PROVE OnceInv'
  BY <1>1, OnceKept DEF OnceInv, MadeOnce, Unmade, AtWorker
<1>2. CASE Toggle \/ UNCHANGED vars
  BY <1>1, <1>2 DEF Toggle, vars, history
<1> QED BY <1>2, OnceArrive, OnceGate, OnceParse, OncePut, OnceTake, OnceChecked, OnceProcessed DEF Next, Lanes

\* However the two capturers of a frame, the lanes and the workers interleave, no
\* public endpoint is stored more often than once for each end of it that it is,
\* and none of our addresses ever.
THEOREM StoredOnce == Spec => []OncePerFrame
<1>1. Init => OnceInv
  <2> SUFFICES ASSUME Init PROVE OnceInv
    OBVIOUS
  <2>1. /\ \A c \in Capturers : todo[c] = <<>>
        /\ \A l \in Lanes : lanes[l] = <<>>
        /\ \A w \in Workers : worker[w].pc = "idle"
        /\ \A d \in Devices : \A h \in Hosts : updates[d][h] = 0
    BY DEF Init, Lanes, Idle
  <2>2. /\ \A d \in Devices : todo[Sniffs(d)] = <<>>
        /\ \A d \in Devices, l \in Lanes, k \in Nat : ~InLane(d, l, k)
        /\ \A d \in Devices, w \in Workers : ~AtWorker(d, w)
    BY <2>1, SnifferOf DEF InLane, AtWorker
  <2>3. MadeOnce /\ UnmadeIsNowhere /\ OnePlace
    BY <2>2 DEF MadeOnce, UnmadeIsNowhere, OnePlace
  <2>4. OwnItems
    BY <2>1, <2>2 DEF OwnItems, Capturers
  <2>5. NotYetStored /\ OncePerFrame
    BY <2>1, CaptureAssumption DEF NotYetStored, OncePerFrame, Public, Us, Init
  <2> QED BY <2>3, <2>4, <2>5 DEF OnceInv
<1>2. OnceInv => OncePerFrame
  BY DEF OnceInv
<1>3. Init => FromWire
  BY DEF Init, FromWire, Pending, Lanes, Idle
<1> QED BY <1>1, <1>2, <1>3, TypeCorrect, FromWireStep, OnceStep, PTL DEF Spec

-------------------------------------------------------------------------------
(***************************************************************************)
(* FrameStored.  While the settings stay put, every endpoint due of the    *)
(* frame on the wire is owed: the capturer that will make its item has not *)
(* passed on, or the item is on its way, or it has been stored.            *)
(***************************************************************************)
(* Who will see to it that an endpoint is stored.                          *)
Carrier(d, h) == IF d = "fritzdump" THEN "fritz"
                 ELSE IF h \in Public \/ wire[1].dst \notin Public THEN "sniffer" ELSE "scanner"
Stores(i, d, h) == i.device = d /\ Calls(i, search, pins, h) >= 1
Owed(d, h) == \/ capturer[Carrier(d, h)] # "done"
              \/ \E i \in Item : Pending(i) /\ Stores(i, d, h)
              \/ updates[d][h] >= 1
Seen(d) == \E c \in Capturers : (c = "fritz") = (d = "fritzdump") /\ (c \in kept \/ capturer[c] # "done")
NoneBefore == \A c \in Capturers : capturer[c] # "done" => todo[c] = <<>>
KeptPasses == steady => \A c \in kept : ~UdpFiltered(wire[1], showUdp)
NothingLost ==
  steady /\ wire # <<>> => \A d \in Devices \ stopped :
    Seen(d) /\ Tracked(wire[1]) /\ ~UdpFiltered(wire[1], showUdp) => \A h \in Due(d) : Owed(d, h)

StoreInv == NoneBefore /\ KeptPasses /\ NothingLost


\* The item that the carrier of an endpoint makes of the frame stores it.
LEMMA CarrierMakes ==
  ASSUME TypeOK, wire # <<>>, NEW d \in Devices, NEW h \in Due(d)
  PROVE  \E k \in DOMAIN ItemsOf(Carrier(d, h), wire[1]) : Stores(ItemsOf(Carrier(d, h), wire[1])[k], d, h)
<1> DEFINE f == wire[1]
<1>1. f \in Frames /\ search \in BOOLEAN /\ pins \in SUBSET Private
  BY FrameOnWire DEF TypeOK, SettingsOK
<1>2. \/ h \in {f.src, f.dst} \cap Public
      \/ h \in {f.src, f.dst} \cap (Private \ Us) /\ search /\ (d = "local" \/ f.dst \notin Public)
  BY DEF Due
<1>3. CASE h \in Public \/ f.dst \notin Public \/ d = "fritzdump"
  <2>1. Carrier(d, h) = IF d = "local" THEN "sniffer" ELSE "fritz"
    BY <1>3 DEF Carrier, Devices
  <2>2. PICK dir \in {"incoming", "outgoing", "other"} : ItemsOf(Carrier(d, h), f) = <<PairItem(f, d, dir)>>
    BY <1>1, <2>1, SniffedTyped
  <2> DEFINE p == PairItem(f, d, dir)
  <2>3. p.shape = "pair" /\ p.device = d
    BY <1>1, PairTyped
  <2>4. h \in Public \/ f.dst \notin Public
    BY <1>2, <1>3 DEF Devices
  <2>5. CallsOfPair(p, search, h) >= 1
    <3>1. CASE h \in Public
      BY <1>1, <1>2, <3>1, PublicAlwaysStored DEF Ends, One, Public
    <3>2. CASE h \notin Public
      BY <1>1, <1>2, <2>4, <3>2, PrivateStoredWhen
    <3> QED BY <3>1, <3>2
  <2>6. ItemsOf(Carrier(d, h), f) = <<p>>
    BY <2>2
  <2>7. Stores(p, d, h)
    BY <2>3, <2>5 DEF Stores, Calls
  <2> HIDE DEF p
  <2> QED BY <2>6, <2>7
<1>4. CASE h \notin Public /\ f.dst \in Public /\ d # "fritzdump"
  <2>1. Carrier(d, h) = "scanner" /\ d = "local"
    BY <1>4 DEF Carrier, Devices
  <2>2. h \in {f.src, f.dst} \cap (Private \ Us) /\ search
    BY <1>2, <1>4
  <2>3. PICK k \in DOMAIN LanItems(f) : LanItems(f)[k].only = h
    BY <1>1, <2>2, LanItemsTyped
  <2>4. LanItems(f)[k].shape = "single" /\ LanItems(f)[k].device = "local"
    BY <1>1, LanItemsTyped
  <2>5. Stores(LanItems(f)[k], d, h)
    BY <2>1, <2>2, <2>3, <2>4 DEF Stores, Calls, CallsOfSingle, One
  <2>6. ItemsOf(Carrier(d, h), f) = LanItems(f)
    BY <2>1 DEF ItemsOf
  <2> QED BY <2>5, <2>6
<1> QED BY <1>3, <1>4

LEMMA CarrierIs ==
  ASSUME NEW d \in Devices, NEW h
  PROVE  /\ Carrier(d, h) \in Capturers /\ ((Carrier(d, h) = "fritz") = (d = "fritzdump"))
         /\ Carrier(d, h) = "scanner" => h \notin Public
BY DEF Carrier, Capturers, Devices

\* A step of a capturer, of a worker, or none.
Moves == \/ \E c \in Capturers : Gate(c) \/ Parse(c) \/ Put(c)
         \/ \E w \in Workers : \/ \E l \in Lanes : Take(w, l)
                               \/ CheckStopped(w) \/ ProcessItem(w)
         \/ UNCHANGED vars

LEMMA MovesKeep ==
  ASSUME TypeOK, Moves, steady'
  PROVE  /\ UNCHANGED <<wire, search, showUdp, stopped, pins>> /\ steady
         /\ \A d \in Devices : Seen(d)' => Seen(d)
         /\ \A d \in Devices, h \in Hosts : updates[d][h] >= 1 => updates'[d][h] >= 1
<1>1. UNCHANGED <<wire, search, showUdp, stopped, pins>> /\ steady
  BY DEF Moves, Gate, Parse, Put, Take, CheckStopped, ProcessItem, vars, settings, history
<1>2. \A c \in Capturers : c \in kept' \/ capturer'[c] # "done" => c \in kept \/ capturer[c] # "done"
  <2>1. ASSUME NEW b \in Capturers, Gate(b)
        PROVE  \A c \in Capturers : c \in kept' \/ capturer'[c] # "done" => c \in kept \/ capturer[c] # "done"
    BY <2>1 DEF Gate, history, TypeOK, CaptureOK
  <2>2. ASSUME NEW b \in Capturers, Parse(b)
        PROVE  \A c \in Capturers : c \in kept' \/ capturer'[c] # "done" => c \in kept \/ capturer[c] # "done"
    BY <2>2 DEF Parse, TypeOK, CaptureOK
  <2>3. ASSUME UNCHANGED <<kept, capturer>>
        PROVE  \A c \in Capturers : c \in kept' \/ capturer'[c] # "done" => c \in kept \/ capturer[c] # "done"
    BY <2>3
  <2>4. ASSUME \/ \E b \in Capturers : Put(b)
               \/ \E w \in Workers : (\E l \in Lanes : Take(w, l)) \/ CheckStopped(w) \/ ProcessItem(w)
               \/ UNCHANGED vars
        PROVE  UNCHANGED <<kept, capturer>>
    BY <2>4 DEF Put, Take, CheckStopped, ProcessItem, vars, history
  <2> QED BY <2>1, <2>2, <2>3, <2>4 DEF Moves
<1>3. \A d \in Devices, h \in Hosts : \E n \in Nat : updates'[d][h] = updates[d][h] + n
  <2>0. \A d \in Devices, h \in Hosts : updates[d][h] \in Nat
    BY DEF TypeOK, QueueOK
  <2>1. CASE \E w \in Workers : ProcessItem(w)
    <3>1. PICK w \in Workers : ProcessItem(w)
      BY <2>1
    <3> SUFFICES ASSUME NEW d \in Devices, NEW h \in Hosts
                 PROVE  \E n \in Nat : updates'[d][h] = updates[d][h] + n
      OBVIOUS
    <3>2. CASE d = worker[w].item.device
      BY <3>1, <3>2, ProcessAdds
    <3>3. CASE d # worker[w].item.device
      <4>1. updates'[d][h] = updates[d][h]
        BY <3>1, <3>3, ProcessAdds
      <4> QED BY <2>0, <4>1
    <3> QED BY <3>2, <3>3
  <2>2. CASE UNCHANGED updates
    BY <2>0, <2>2
  <2>3. CASE ~\E w \in Workers : ProcessItem(w)
    BY <2>2, <2>3 DEF Moves, Gate, Parse, Put, Take, CheckStopped, vars, history
  <2> QED BY <2>1, <2>3
<1>4. \A d \in Devices, h \in Hosts : updates[d][h] \in Nat
  BY DEF TypeOK, QueueOK
<1>5. \A d \in Devices, h \in Hosts : updates[d][h] >= 1 => updates'[d][h] >= 1
  BY <1>3, <1>4
<1>6. \A d \in Devices : Seen(d)' => Seen(d)
  BY <1>2 DEF Seen
<1> QED BY <1>1, <1>5, <1>6

\* An item on its way stays so until a worker has processed it, unless its
\* device is stopped or a lane was full.
LEMMA PendingStep ==
  ASSUME TypeOK, NoneBefore, Moves, steady', NEW i \in Item, Pending(i)
  PROVE  \/ Pending(i)' \/ i.device \in stopped
         \/ \E w \in Workers : ProcessItem(w) /\ worker[w].item = i
<1>1. ASSUME NEW c \in Capturers, Gate(c) PROVE Pending(i)'
  <2>1. UNCHANGED <<todo, lanes, worker>>
    BY <1>1 DEF Gate
  <2> QED BY <2>1 DEF Pending
<1>2. ASSUME NEW c \in Capturers, Parse(c) PROVE Pending(i)'
  <2>1. UNCHANGED <<lanes, worker>> /\ todo[c] = <<>>
    BY <1>2 DEF Parse, NoneBefore
  <2>2. \A b \in Capturers \ {c} : todo'[b] = todo[b]
    BY <1>2 DEF Parse, TypeOK, QueueOK
  <2> QED BY <2>1, <2>2 DEF Pending
<1>3. ASSUME NEW c \in Capturers, Put(c) PROVE Pending(i)'
  <2>1. Room(lanes, Head(todo[c])) /\ UNCHANGED worker /\ todo[c] # <<>> /\ todo[c] \in Seq(Item)
    BY <1>3 DEF Put, TypeOK, QueueOK
  <2>2. CASE \E b \in Capturers : \E k \in DOMAIN todo[b] : todo[b][k] = i
    <3>0. PICK b \in Capturers : \E k \in DOMAIN todo[b] : todo[b][k] = i
      BY <2>2
    <3>1. PICK k \in DOMAIN todo[b] : todo[b][k] = i
      BY <3>0
    <3>2. CASE b # c
      <4>1. todo'[b] = todo[b]
        BY <1>3, <3>2, PutLeaves
      <4> QED BY <3>1, <4>1 DEF Pending
    <3>3. CASE b = c /\ k # 1
      <4>1. k - 1 \in DOMAIN todo'[c] /\ todo'[c][k - 1] = i
        <5>1. todo'[c] = Tail(todo[c])
          BY <1>3, PutLeaves
        <5>2. k \in DOMAIN todo[c] /\ todo[c][k] = i
          BY <3>1, <3>3
        <5> QED BY <2>1, <3>3, <5>1, <5>2, HeadRemoved
      <4> QED BY <4>1 DEF Pending
    <3>4. CASE b = c /\ k = 1
      <4>1. i = Head(todo[c])
        BY <2>1, <3>1, <3>4, HeadRemoved
      <4>2. \E j \in DOMAIN lanes'[LaneOf(i)] : lanes'[LaneOf(i)][j] = i
        BY <1>3, <2>1, <4>1, PutLeaves
      <4>3. LaneOf(i) \in Lanes
        BY LaneTyped DEF Lanes
      <4> QED BY <4>2, <4>3 DEF Pending
    <3> QED BY <3>2, <3>3, <3>4
  <2>3. CASE \E l \in Lanes : \E k \in DOMAIN lanes[l] : lanes[l][k] = i
    <3>0. PICK l \in Lanes : \E k \in DOMAIN lanes[l] : lanes[l][k] = i
      BY <2>3
    <3>1. PICK k \in DOMAIN lanes[l] : lanes[l][k] = i
      BY <3>0
    <3>2. k \in Nat
      BY DEF TypeOK, QueueOK, Lanes
    <3>3. k \in DOMAIN lanes'[l] /\ lanes'[l][k] = i
      BY <1>3, <3>1, <3>2, PutLeaves
    <3> QED BY <3>3 DEF Pending
  <2>4. CASE \E w \in Workers : worker[w].pc # "idle" /\ worker[w].item = i
    BY <2>1, <2>4 DEF Pending
  <2> QED BY <2>2, <2>3, <2>4 DEF Pending
<1>4. ASSUME NEW w \in Workers, NEW l \in Lanes, Take(w, l) PROVE Pending(i)'
  <2>1. UNCHANGED todo
    BY <1>4 DEF Take
  <2>2. CASE \E b \in Capturers : \E k \in DOMAIN todo[b] : todo[b][k] = i
    BY <2>1, <2>2 DEF Pending
  <2>3. CASE \E m \in Lanes : \E k \in DOMAIN lanes[m] : lanes[m][k] = i
    <3>0. PICK m \in Lanes : \E k \in DOMAIN lanes[m] : lanes[m][k] = i
      BY <2>3
    <3>1. PICK k \in DOMAIN lanes[m] : lanes[m][k] = i
      BY <3>0
    <3>2. CASE m # l
      <4>1. lanes'[m] = lanes[m]
        BY <1>4, <3>2, TakeLeaves
      <4> QED BY <3>1, <4>1 DEF Pending
    <3>3. CASE m = l /\ k # 1
      <4>1. k - 1 \in DOMAIN lanes'[l] /\ lanes'[l][k - 1] = i
        BY <1>4, <3>1, <3>3, TakeLeaves
      <4> QED BY <4>1 DEF Pending
    <3>4. CASE m = l /\ k = 1
      <4>1. worker'[w].pc # "idle" /\ worker'[w].item = i
        BY <1>4, <3>1, <3>4, TakeLeaves
      <4> QED BY <4>1 DEF Pending
    <3> QED BY <3>2, <3>3, <3>4
  <2>4. CASE \E v \in Workers : worker[v].pc # "idle" /\ worker[v].item = i
    <3>1. PICK v \in Workers : worker[v].pc # "idle" /\ worker[v].item = i
      BY <2>4
    <3>2. worker'[v] = worker[v]
      BY <1>4, <3>1, TakeLeaves
    <3> QED BY <3>1, <3>2 DEF Pending
  <2> QED BY <2>2, <2>3, <2>4 DEF Pending
<1>5. ASSUME NEW w \in Workers, CheckStopped(w) PROVE Pending(i)' \/ i.device \in stopped
  <2>1. /\ UNCHANGED <<todo, lanes>> /\ worker[w] \in Held
        /\ \A v \in Workers \ {w} : worker'[v] = worker[v]
        /\ worker'[w] = IF worker[w].item.device \in stopped THEN Idle ELSE [worker[w] EXCEPT !.pc = "process"]
    BY <1>5 DEF CheckStopped, TypeOK, QueueOK, Idle
  <2>2. worker[w].item.device \notin stopped => worker'[w].pc = "process" /\ worker'[w].item = worker[w].item
    BY <2>1 DEF Held
  <2> QED BY <2>1, <2>2 DEF Pending
<1>6. ASSUME NEW w \in Workers, ProcessItem(w) PROVE Pending(i)' \/ worker[w].item = i
  <2>1. UNCHANGED <<todo, lanes>> /\ \A v \in Workers \ {w} : worker'[v] = worker[v]
    BY <1>6, ProcessAdds DEF ProcessItem
  <2> QED BY <2>1 DEF Pending
<1>7. CASE UNCHANGED vars
  BY <1>7 DEF vars, Pending
<1> QED BY <1>1, <1>2, <1>3, <1>4, <1>5, <1>6, <1>7 DEF Moves

\* What is owed stays owed: the heart of the matter.
LEMMA OwedStep ==
  ASSUME TypeOK, WireInv, StoreInv, Moves, steady', wire # <<>>, Tracked(wire[1]),
         ~UdpFiltered(wire[1], showUdp), NEW d \in Devices \ stopped, NEW h \in Due(d), Owed(d, h)
  PROVE  Owed(d, h)'
<1> DEFINE c == Carrier(d, h)
<1>1. /\ UNCHANGED <<wire, search, showUdp, stopped, pins>> /\ steady
      /\ (\A e \in Hosts : updates[d][e] >= 1 => updates'[d][e] >= 1)
  BY MovesKeep
<1>2. Carrier(d, h)' = c /\ c \in Capturers /\ h \in Hosts /\ \A i : Stores(i, d, h)' <=> Stores(i, d, h)
  <2>1. wire[1].src \in Hosts /\ wire[1].dst \in Hosts
    BY FrameOnWire, FrameTyped
  <2> QED BY <1>1, <2>1, CarrierIs, CaptureAssumption DEF Carrier, Stores, Due, Public
<1>3. CASE capturer[c] # "done"
  <2>1. ASSUME NEW b \in Capturers, Gate(b) PROVE capturer'[c] # "done"
    <3>1. capturer' = [capturer EXCEPT ![b] = IF Admits(b) /\ Tracked(wire[1]) THEN "parse" ELSE "done"]
      BY <2>1 DEF Gate
    <3>2. Admits(c)
      <4>1. c = "scanner" => search
        BY CarrierIs DEF Due, Public
      <4>2. c = "sniffer" => "local" \notin stopped
        BY CarrierIs DEF Devices
      <4> QED BY <1>2, <4>1, <4>2 DEF Admits, Capturers
    <3> QED BY <1>2, <1>3, <3>1, <3>2 DEF TypeOK, CaptureOK
  <2>2. ASSUME NEW b \in Capturers, Parse(b), b # c PROVE capturer'[c] # "done"
    BY <1>2, <1>3, <2>2 DEF Parse, TypeOK, CaptureOK
  <2>3. ASSUME Parse(c) PROVE \E i \in Item : Pending(i)' /\ Stores(i, d, h)
    <3>1. todo' = [todo EXCEPT ![c] = ItemsOf(c, wire[1])]
      BY <2>3 DEF Parse
    <3>2. todo'[c] = ItemsOf(c, wire[1])
      BY <1>2, <3>1 DEF TypeOK, QueueOK
    <3>3. PICK k \in DOMAIN ItemsOf(c, wire[1]) : Stores(ItemsOf(c, wire[1])[k], d, h)
      BY CarrierMakes
    <3>4. ItemsOf(c, wire[1])[k] \in Item
      BY <1>2, FrameOnWire, ItemsTyped
    <3>5. PICK i \in Item : Stores(i, d, h) /\ \E j \in DOMAIN todo'[c] : todo'[c][j] = i
      BY <3>2, <3>3, <3>4
    <3>6. Pending(i)'
      BY <1>2, <3>5 DEF Pending
    <3> QED BY <3>5, <3>6
  <2>4. ASSUME \/ \E b \in Capturers : Put(b)
               \/ \E w \in Workers : (\E l \in Lanes : Take(w, l)) \/ CheckStopped(w) \/ ProcessItem(w)
               \/ UNCHANGED vars
        PROVE  capturer'[c] # "done"
    BY <1>3, <2>4 DEF Put, Take, CheckStopped, ProcessItem, vars, history
  <2> QED BY <1>2, <2>1, <2>2, <2>3, <2>4 DEF Moves, Owed
<1>4. CASE \E i \in Item : Pending(i) /\ Stores(i, d, h)
  <2>1. PICK i \in Item : Pending(i) /\ Stores(i, d, h)
    BY <1>4
  <2>2. \/ Pending(i)' \/ \E w \in Workers : ProcessItem(w) /\ worker[w].item = i
    BY <2>1, PendingStep DEF StoreInv, Stores
  <2>3. CASE Pending(i)'
    BY <1>2, <2>1, <2>3 DEF Owed
  <2>4. CASE \E w \in Workers : ProcessItem(w) /\ worker[w].item = i
    <3>1. PICK w \in Workers : ProcessItem(w) /\ worker[w].item = i
      BY <2>4
    <3>2. /\ updates'[d][h] = updates[d][h] + Calls(i, search, pins, h)
          /\ Calls(i, search, pins, h) \in Nat /\ Calls(i, search, pins, h) >= 1
      BY <1>2, <2>1, <3>1, ProcessAdds DEF Stores
    <3>3. updates[d][h] \in Nat
      BY <1>2 DEF TypeOK, QueueOK
    <3> QED BY <3>2, <3>3 DEF Owed
  <2> QED BY <2>2, <2>3, <2>4
<1>5. CASE updates[d][h] >= 1
  BY <1>1, <1>2, <1>5 DEF Owed
<1> QED BY <1>3, <1>4, <1>5 DEF Owed

LEMMA StoreStep ==
  ASSUME TypeOK, WireInv, StoreInv, [Next]_vars
  PROVE  StoreInv'
<1>1. CASE Arrive
  <2>1. /\ \A c \in Capturers : todo'[c] = <<>>
        /\ kept' = {} /\ wire' # <<>>
    BY <1>1 DEF Arrive, Settled
  <2>2. PICK seers \in {{"sniffer", "scanner"}, {"fritz"}} :
          capturer' = [c \in Capturers |-> IF c \in seers THEN "gate" ELSE "done"]
    BY <1>1 DEF Arrive
  <2>3. ASSUME NEW d \in Devices, Seen(d)', NEW h \in Due(d)' PROVE Owed(d, h)'
    <3>1. Carrier(d, h)' \in Capturers /\ ((Carrier(d, h)' = "fritz") = (d = "fritzdump"))
      BY DEF Carrier, Capturers, Devices
    <3>2. PICK c \in Capturers : (c = "fritz") = (d = "fritzdump") /\ c \in seers
      BY <2>1, <2>2, <2>3 DEF Seen
    <3>3. Carrier(d, h)' \in seers
      BY <3>1, <3>2 DEF Capturers
    <3>4. capturer'[Carrier(d, h)'] # "done"
      BY <2>2, <3>1, <3>3
    <3> QED BY <3>4 DEF Owed
  <2> QED BY <2>1, <2>3 DEF StoreInv, NoneBefore, KeptPasses, NothingLost
<1>2. CASE Toggle
  <2>1. ~steady' /\ UNCHANGED <<capturer, todo>>
    BY <1>2 DEF Toggle
  <2> QED BY <2>1 DEF StoreInv, NoneBefore, KeptPasses, NothingLost
<1>3. CASE Moves
  <2>1. NoneBefore'
    <3>1. ASSUME NEW b \in Capturers, Gate(b) PROVE NoneBefore'
      BY <3>1 DEF Gate, TypeOK, CaptureOK, StoreInv, NoneBefore
    <3>2. ASSUME NEW b \in Capturers, Parse(b) PROVE NoneBefore'
      BY <3>2 DEF Parse, TypeOK, CaptureOK, QueueOK, StoreInv, NoneBefore
    <3>3. ASSUME NEW b \in Capturers, Put(b) PROVE NoneBefore'
      BY <3>3 DEF Put, TypeOK, CaptureOK, QueueOK, StoreInv, NoneBefore
    <3>4. ASSUME \/ \E w \in Workers : (\E l \in Lanes : Take(w, l)) \/ CheckStopped(w) \/ ProcessItem(w)
                 \/ UNCHANGED vars
          PROVE  NoneBefore'
      BY <3>4 DEF Take, CheckStopped, ProcessItem, vars, StoreInv, NoneBefore
    <3> QED BY <1>3, <3>1, <3>2, <3>3, <3>4 DEF Moves
  <2>2. KeptPasses'
    <3> SUFFICES ASSUME steady' PROVE \A c \in kept' : ~UdpFiltered(wire'[1], showUdp')
      BY DEF KeptPasses
    <3>1. UNCHANGED <<wire, showUdp>> /\ \A c \in kept : ~UdpFiltered(wire[1], showUdp)
      BY <1>3, MovesKeep DEF StoreInv, KeptPasses
    <3>2. ASSUME NEW b \in Capturers, Parse(b) PROVE \A c \in kept' : ~UdpFiltered(wire[1], showUdp)
      BY <3>1, <3>2 DEF Parse
    <3>3. CASE ~\E b \in Capturers : Parse(b)
      <4>1. kept' = kept
        BY <1>3, <3>3 DEF Moves, Gate, Put, Take, CheckStopped, ProcessItem, vars, history
      <4> QED BY <3>1, <4>1
    <3> QED BY <3>1, <3>2, <3>3
  <2>3. NothingLost'
    <3> SUFFICES ASSUME steady', wire' # <<>>, NEW d \in Devices \ stopped', Seen(d)', Tracked(wire'[1]),
                        ~UdpFiltered(wire'[1], showUdp'), NEW h \in Due(d)'
                 PROVE  Owed(d, h)'
      BY DEF NothingLost
    <3>1. UNCHANGED <<wire, search, showUdp, stopped, pins>> /\ steady /\ Seen(d)
      BY <1>3, MovesKeep
    <3>2. h \in Due(d)
      BY <3>1 DEF Due
    <3>3. Owed(d, h)
      BY <3>1, <3>2 DEF StoreInv, NothingLost
    <3> QED BY <1>3, <3>1, <3>2, <3>3, OwedStep
  <2> QED BY <2>1, <2>2, <2>3 DEF StoreInv
<1> QED BY <1>1, <1>2, <1>3 DEF Next, Moves, Lanes

\* With settings that stay put and room in the lanes, a frame that a running
\* device classified is stored for every endpoint due, in every order of the
\* capturers, the lanes and the workers.
THEOREM DueIsStored == Spec => []FrameStored
<1>1. Init => WireInv /\ StoreInv
  BY DEF Init, WireInv, StoreInv, NoneBefore, KeptPasses, NothingLost
<1>2. TypeOK /\ WireInv /\ StoreInv => FrameStored
  <2> SUFFICES ASSUME TypeOK, WireInv, StoreInv, Settled, steady, NEW d \in Devices \ stopped, NEW c \in kept,
                      (c = "fritz") = (d = "fritzdump"), NEW h \in Due(d)
               PROVE  updates[d][h] >= 1
    BY DEF FrameStored
  <2>1. Seen(d) /\ wire # <<>> /\ Tracked(wire[1]) /\ ~UdpFiltered(wire[1], showUdp)
    BY DEF WireInv, StoreInv, KeptPasses, Seen, TypeOK, CaptureOK
  <2>2. Owed(d, h)
    BY <2>1 DEF StoreInv, NothingLost
  <2>3. capturer[Carrier(d, h)] = "done"
    BY CarrierIs DEF Settled
  <2>4. \A i : ~Pending(i)
    BY DEF Pending, Settled, Lanes, Idle
  <2> QED BY <2>2, <2>3, <2>4 DEF Owed
<1> QED BY <1>1, <1>2, TypeCorrect, WireStep, StoreStep, PTL DEF Spec
==============================================================================
