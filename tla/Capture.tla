-------------------------------- MODULE Capture --------------------------------
(***************************************************************************)
(* From a frame on the LAN to the calls of update_ip.  Two capture         *)
(* processes see every frame of the interface: the sniffer thread of the   *)
(* hub (external_packet_callback) and the forked internal scanner          *)
(* (internal_packet_callback).  A frame of the FRITZ!Box mirror reaches    *)
(* fritzdump_packet_callback only.  Each classifies it with                *)
(* classify_packet, counts it and puts items on the two lanes of the       *)
(* packet queue; packet workers check Start/Stop and decide which          *)
(* endpoints are stored.  The sensor's on_packet, which shares the         *)
(* classification, is given as the set of endpoints it records.            *)
(*                                                                         *)
(* Abstractions.  A frame is its endpoints, its protocol ("other": what    *)
(* classify_packet answers None for, non-IP, oversized, unparseable or     *)
(* untracked), its kind of ports and whether it is a fragment.  The        *)
(* inside of the queue is the subject of PacketQueue, vendors of           *)
(* MacVendors, the write buffer of IpStore.                                *)
(* LanItemsOfDestination, CallsOfPairUnguarded and CountLate are faults no *)
(* specification uses: each shows that some property would notice it.      *)
(***************************************************************************)
EXTENDS Naturals, Sequences, FiniteSets

CONSTANTS
  LocalIp,      \* my_local_ip
  PublicIp,     \* my_public_ip
  Hosts,        \* the addresses seen in frames, ours included
  Private,      \* those is_private_ip accepts
  Workers,      \* PACKET_WORKERS threads
  LaneMax,      \* maxsize of each lane
  MaxFrames,    \* model bound: frames
  MaxToggles    \* model bound: changes of a setting, a pin or Start/Stop

ASSUME CaptureAssumption ==
  /\ {LocalIp, PublicIp} \subseteq Hosts /\ Private \subseteq Hosts
  /\ PublicIp \notin Private
  /\ LaneMax \in Nat \ {0} /\ MaxFrames \in Nat /\ MaxToggles \in Nat

Us == {LocalIp, PublicIp}
Public == Hosts \ (Private \cup Us)
Devices == {"local", "fritzdump"}
Capturers == {"sniffer", "scanner", "fritz"}

\* "noisy" ports are UDP_FILTER_PORTS, "webSrc" and "webDst" name the end that
\* uses port 80 or 443.
Kinds == {<<"TCP", "plain">>, <<"TCP", "webSrc">>, <<"TCP", "webDst">>, <<"UDP", "plain">>,
          <<"UDP", "noisy">>, <<"ICMP", "plain">>, <<"other", "plain">>}
Frames ==
  {[src |-> s, dst |-> d, protocol |-> k[1], ports |-> k[2], fragment |-> g] :
     s \in Hosts, d \in Hosts, k \in Kinds, g \in BOOLEAN}

-------------------------------------------------------------------------------
(* capture_core: what a frame is.                                          *)

\* classify_packet answers None for what it does not track.
Tracked(f) == f.protocol # "other"
UdpFiltered(f, showAllUdp) == f.protocol = "UDP" /\ f.ports = "noisy" /\ ~showAllUdp

\* classify_direction.
Direction(f) ==
  IF f.dst \in Us THEN "incoming"
  ELSE IF f.src \in Us THEN "outgoing"
  ELSE IF f.ports = "webSrc" THEN "incoming"
  ELSE IF f.ports = "webDst" THEN "outgoing"
  ELSE "other"

\* fritzdump_packet_callback: the box sees the home LAN.
FritzDirection(f) ==
  IF f.src \in Private /\ f.dst \notin Private THEN "outgoing"
  ELSE IF f.dst \in Private /\ f.src \notin Private THEN "incoming"
  ELSE "other"

\* The sensor's on_packet: the endpoints it folds into its buffer.
SensorRecords(f) ==
  IF Direction(f) = "incoming" THEN {f.src}
  ELSE IF Direction(f) = "outgoing" THEN {f.dst}
  ELSE {f.src, f.dst}

-------------------------------------------------------------------------------
(* Items: what the callbacks put on the queue.                             *)

\* One item with both endpoints; `only` is unused.
PairItem(f, device, direction) ==
  [device |-> device, shape |-> "pair", only |-> f.src, src |-> f.src, dst |-> f.dst,
   direction |-> direction, protocol |-> f.protocol]

\* internal_packet_callback: one item for each private endpoint that is not us.
LanItem(f, ip, direction) ==
  [device |-> "local", shape |-> "single", only |-> ip, src |-> f.src, dst |-> f.dst,
   direction |-> direction, protocol |-> f.protocol]

SourceItem(f) ==
  IF f.src \in Private \ Us
  THEN <<LanItem(f, f.src, IF f.dst \in Us THEN "incoming" ELSE "other")>> ELSE <<>>
DestinationItem(f) ==
  IF f.dst \in Private \ Us
  THEN <<LanItem(f, f.dst, IF f.src \in Us THEN "outgoing" ELSE "other")>> ELSE <<>>

LanItemsOfDestination(f) == DestinationItem(f)
LanItems(f) == SourceItem(f) \o DestinationItem(f)

ItemsOf(c, f) ==
  IF c = "sniffer" THEN <<PairItem(f, "local", Direction(f))>>
  ELSE IF c = "fritz" THEN <<PairItem(f, "fritzdump", FritzDirection(f))>>
  ELSE LanItems(f)

\* _is_external.
LaneOf(i) ==
  IF i.shape = "single" THEN IF i.only \in Private THEN "low" ELSE "high"
  ELSE IF i.src \in Private /\ i.dst \in Private THEN "low" ELSE "high"

-------------------------------------------------------------------------------
(* What the packet workers store of an item.                               *)

\* process_external_packet_item: whether it calls update_ip for the source and
\* whether for the destination.  The branch of internal search is the elif of the
\* destination's condition.
SourceStored(i, search) ==
  i.src \in Public \/ (search /\ i.dst \notin Public /\ i.src \in Private \ Us)
DestinationStored(i, search) == i.dst \in Public \/ (search /\ i.dst \in Private \ Us)

\* The calls of update_ip for an address: a frame from an address to itself makes
\* two, one for each end.
One(b) == IF b THEN 1 ELSE 0
CallsOfPairUnguarded(i, search, h) ==
  One(i.src = h /\ i.src \in Public) + One(i.dst = h /\ DestinationStored(i, search))
  + One(i.src = h /\ search /\ i.dst \notin Public /\ i.src \notin Us)
CallsOfPair(i, search, h) ==
  One(i.src = h /\ SourceStored(i, search)) + One(i.dst = h /\ DestinationStored(i, search))

\* process_internal_packet_item: a private address needs internal search or a pin.
CallsOfSingle(i, search, pins, h) ==
  One(i.only = h /\ (h \in Private => search \/ h \in pins))

Calls(i, search, pins, h) ==
  IF i.shape = "single" THEN CallsOfSingle(i, search, pins, h) ELSE CallsOfPair(i, search, h)

-------------------------------------------------------------------------------
VARIABLES
  search,    \* is_internal_search_active
  showUdp,   \* showAllUDPPackets
  stopped,   \* disabled_devices
  pins,      \* pinned_ips_cache
  wire,      \* the frame being captured, as a sequence of at most one
  capturer,  \* where each capturer is with that frame
  todo,      \* the items each has made of it and not yet put on the queue
  lanes,     \* the two lanes of the packet queue
  worker,    \* where each packet worker is with its item
  stats,     \* SharedStats: packets per protocol, fragments
  frames, toggles,          \* counters for the model bounds
  parsed,    \* history: the capturers that classified this frame
  kept,      \* history: those whose UDP filter let it pass
  steady,    \* history: no change of a setting and no full lane since it arrived
  updates    \* history: calls of update_ip for this frame, per device and endpoint

settings == <<search, showUdp, stopped, pins, toggles>>
history == <<parsed, kept, steady, updates>>
vars == <<settings, wire, capturer, todo, lanes, worker, stats, frames, history>>

Idle == [pc |-> "idle"]
Counters == {"TCP", "UDP", "ICMP", "fragmented"}

Init ==
  /\ search \in BOOLEAN /\ showUdp \in BOOLEAN
  /\ stopped \in SUBSET Devices
  /\ pins \in {{}, Private}
  /\ wire = <<>>
  /\ capturer = [c \in Capturers |-> "done"]
  /\ todo = [c \in Capturers |-> <<>>]
  /\ lanes = [l \in {"high", "low"} |-> <<>>]
  /\ worker = [w \in Workers |-> Idle]
  /\ stats = [s \in Counters |-> 0]
  /\ frames = 0 /\ toggles = 0
  /\ parsed = {} /\ kept = {} /\ steady = FALSE
  /\ updates = [d \in Devices |-> [h \in Hosts |-> 0]]

Settled ==
  /\ \A c \in Capturers : capturer[c] = "done" /\ todo[c] = <<>>
  /\ \A l \in {"high", "low"} : lanes[l] = <<>>
  /\ \A w \in Workers : worker[w] = Idle

\* The next frame, between two hosts or of one to itself: on the LAN both local
\* processes see it, on the mirror one does.
Arrive ==
  /\ Settled /\ frames < MaxFrames
  /\ frames' = frames + 1
  /\ \E f \in Frames : wire' = <<f>>
  /\ \E seers \in {{"sniffer", "scanner"}, {"fritz"}} :
       capturer' = [c \in Capturers |-> IF c \in seers THEN "gate" ELSE "done"]
  /\ stats' = [s \in Counters |-> 0]
  /\ parsed' = {} /\ kept' = {} /\ steady' = TRUE
  /\ updates' = [d \in Devices |-> [h \in Hosts |-> 0]]
  /\ UNCHANGED <<settings, todo, lanes, worker>>

\* The early returns: the sniffer's on Start/Stop, the scanner's on internal search.
Admits(c) ==
  CASE c = "sniffer" -> "local" \notin stopped
    [] c = "scanner" -> search
    [] OTHER -> TRUE

Gate(c) ==
  /\ capturer[c] = "gate"
  /\ capturer' = [capturer EXCEPT ![c] = IF Admits(c) /\ Tracked(wire[1]) THEN "parse" ELSE "done"]
  /\ UNCHANGED <<settings, wire, todo, lanes, worker, stats, frames, history>>

\* parse_ip_packet: a fragment is counted before the UDP filter, a packet after
\* it.  FritzDump's frames leave these counters alone.
CountLate(c, f, filtered) ==
  [s \in Counters |->
     stats[s] + IF c # "fritz" /\ ~filtered /\ (s = f.protocol \/ (s = "fragmented" /\ f.fragment))
                THEN 1 ELSE 0]
Count(c, f, filtered) ==
  [s \in Counters |->
     stats[s] + IF c # "fritz" /\ ((s = "fragmented" /\ f.fragment) \/ (s = f.protocol /\ ~filtered))
                THEN 1 ELSE 0]

Parse(c) ==
  LET f == wire[1]
      filtered == UdpFiltered(f, showUdp)
  IN
  /\ capturer[c] = "parse"
  /\ stats' = Count(c, f, filtered)
  /\ parsed' = parsed \cup {c}
  /\ kept' = IF filtered THEN kept ELSE kept \cup {c}
  /\ todo' = IF filtered THEN todo ELSE [todo EXCEPT ![c] = ItemsOf(c, f)]
  /\ capturer' = [capturer EXCEPT ![c] = "done"]
  /\ UNCHANGED <<settings, wire, lanes, worker, frames, steady, updates>>

\* queue.put of the next item; a full lane drops it.
Room(ls, i)    == Len(ls[LaneOf(i)]) < LaneMax
PutItem(ls, i) == IF Room(ls, i) THEN [ls EXCEPT ![LaneOf(i)] = Append(@, i)] ELSE ls

Put(c) ==
  LET i == Head(todo[c]) IN
  /\ todo[c] # <<>>
  /\ todo' = [todo EXCEPT ![c] = Tail(@)]
  /\ lanes' = PutItem(lanes, i)
  /\ steady' = (steady /\ Room(lanes, i))
  /\ UNCHANGED <<settings, wire, capturer, worker, stats, frames, parsed, kept, updates>>

-------------------------------------------------------------------------------
(* The packet workers: process_packets.                                    *)

Take(w, l) ==
  /\ worker[w] = Idle /\ lanes[l] # <<>>
  /\ worker' = [worker EXCEPT ![w] = [pc |-> "gate", item |-> Head(lanes[l])]]
  /\ lanes' = [lanes EXCEPT ![l] = Tail(@)]
  /\ UNCHANGED <<settings, wire, capturer, todo, stats, frames, history>>

\* The Start/Stop chokepoint.
CheckStopped(w) ==
  /\ worker[w].pc = "gate"
  /\ worker' = [worker EXCEPT ![w] =
        IF worker[w].item.device \in stopped THEN Idle ELSE [@ EXCEPT !.pc = "process"]]
  /\ UNCHANGED <<settings, wire, capturer, todo, lanes, stats, frames, history>>

ProcessItem(w) ==
  LET i == worker[w].item IN
  /\ worker[w].pc = "process"
  /\ updates' = [updates EXCEPT ![i.device] =
        [h \in Hosts |-> @[h] + Calls(i, search, pins, h)]]
  /\ worker' = [worker EXCEPT ![w] = Idle]
  /\ UNCHANGED <<settings, wire, capturer, todo, lanes, stats, frames, parsed, kept, steady>>

\* The operator changes a setting, Start/Stop or a pin meanwhile.
Toggle ==
  /\ toggles < MaxToggles
  /\ toggles' = toggles + 1
  /\ \/ search' = ~search /\ UNCHANGED <<showUdp, stopped, pins>>
     \/ showUdp' = ~showUdp /\ UNCHANGED <<search, stopped, pins>>
     \/ /\ \E d \in Devices : stopped' = IF d \in stopped THEN stopped \ {d} ELSE stopped \cup {d}
        /\ UNCHANGED <<search, showUdp, pins>>
     \/ /\ \E h \in Private : pins' = IF h \in pins THEN pins \ {h} ELSE pins \cup {h}
        /\ UNCHANGED <<search, showUdp, stopped>>
  /\ steady' = FALSE
  /\ UNCHANGED <<wire, capturer, todo, lanes, worker, stats, frames, parsed, kept, updates>>

-------------------------------------------------------------------------------
Next ==
  \/ Arrive
  \/ \E c \in Capturers : Gate(c) \/ Parse(c) \/ Put(c)
  \/ \E w \in Workers :
       \/ \E l \in {"high", "low"} : Take(w, l)
       \/ CheckStopped(w) \/ ProcessItem(w)
  \/ Toggle

Spec == Init /\ [][Next]_vars

-------------------------------------------------------------------------------
\* Two processes capture the same frame, yet a public endpoint is updated at most
\* once for each end of the frame that it is, and an address of ours never: only
\* private addresses, whose packets buffer_ip_write does not count, can come more
\* often.
Ends(f, h) == One(f.src = h) + One(f.dst = h)
OncePerFrame ==
  wire # <<>> => \A d \in Devices :
    /\ \A h \in Public : updates[d][h] <= Ends(wire[1], h)
    /\ \A h \in Us : updates[d][h] = 0

\* With settings that stay put and room in the lanes, a classified frame of a
\* running device is stored for each of its public endpoints, and with internal
\* search for each private endpoint that is not us (docstring of
\* process_external_packet_item, app.py:3383-3387).  The mirror has no internal
\* scanner: there the private source of a frame to a public destination is not
\* stored, as the branch is the elif of the destination's condition.
Due(d) ==
  LET f == wire[1]
      own == {f.src, f.dst} \cap (Private \ Us)
  IN
  ({f.src, f.dst} \cap Public) \cup
  (IF search /\ (d = "local" \/ f.dst \notin Public) THEN own ELSE {})
FrameStored ==
  Settled /\ steady =>
    \A d \in Devices \ stopped : \A c \in kept :
      (c = "fritz") = (d = "fritzdump") => \A h \in Due(d) : updates[d][h] >= 1

\* SharedStats: each process counts a frame once, a fragment even when the UDP
\* filter then drops it ("BEFORE any UDP-filter drop", app.py:2861-2865).
CountersExact ==
  wire # <<>> =>
    /\ stats["fragmented"] = IF wire[1].fragment THEN Cardinality(parsed \ {"fritz"}) ELSE 0
    /\ stats["TCP"] + stats["UDP"] + stats["ICMP"] = Cardinality(kept \ {"fritz"})
===============================================================================
