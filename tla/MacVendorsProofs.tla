--------------------------- MODULE MacVendorsProofs ---------------------------
(* Theorems about MacVendors, for every set of MACs and threads, every     *)
(* queue bound and every TTL: who holds a mark, that a parked MAC is left  *)
(* alone, and whose vendor a row names.                                    *)
EXTENDS MacVendors, TLAPS

USE MacVendorsAssumption

\* The records keep their type when they move to another place.
LEMMA WorkerMoves ==
  ASSUME NEW r \in Worker, NEW p \in {"mark", "put", "unmark", "write"}
  PROVE  [r EXCEPT !.pc = p] \in Worker
BY DEF Worker

LEMMA LookupReads ==
  ASSUME NEW r \in Lookup
  PROVE  [r EXCEPT !.pc = "read"] \in Lookup
BY DEF Lookup

LEMMA LookupRemembers ==
  ASSUME NEW r \in Lookup, NEW v \in Vendors \cup {None}
  PROVE  [r EXCEPT !.pc = "remember", !.vendor = v] \in Lookup
BY DEF Lookup

Steps == {"cached", "ask", "learn", "save", "remember", "update", "park", "discard"}

LEMMA EnricherGoes ==
  ASSUME NEW r \in Enricher, NEW p \in Steps
  PROVE  [r EXCEPT !.pc = p] \in Enricher
BY DEF Enricher, Steps

LEMMA EnricherAnswers ==
  ASSUME NEW r \in Enricher, NEW p \in Steps, NEW v \in Vendors
  PROVE  [r EXCEPT !.pc = p, !.vendor = v] \in Enricher
BY DEF Enricher, Steps

LEMMA EmitTyped ==
  ASSUME items \in Seq(Item), NEW ip \in Ips, NEW m \in Macs, NEW v \in Vendors \cup {None},
         Emit(ip, m, v)
  PROVE  items' \in Seq(Item)
<1> DEFINE i == [ip |-> ip, mac |-> m, vendor |-> IF v = None THEN Unknown ELSE v]
<1>1. i \in Item
  BY DEF Item, Vendors
<1> QED
  BY <1>1 DEF Emit

LEMMA RememberedTyped ==
  ASSUME hot \in [Macs -> HotEntry], now \in Nat, NEW m \in Macs,
         NEW v \in Vendors \cup {None}, NEW ttl \in Nat
  PROVE  Remembered(m, v, ttl) \in [Macs -> HotEntry]
BY DEF Remembered, HotEntry

LEMMA HeadTail ==
  ASSUME NEW S, NEW s \in Seq(S), s # << >>
  PROVE  /\ Head(s) \in S /\ Head(s) = s[1] /\ 1 \in DOMAIN s
         /\ Tail(s) \in Seq(S) /\ Len(Tail(s)) = Len(s) - 1
         /\ \A i \in DOMAIN Tail(s) : i + 1 \in DOMAIN s /\ Tail(s)[i] = s[i + 1]
         /\ \A i \in DOMAIN s : i # 1 => i - 1 \in DOMAIN Tail(s) /\ Tail(s)[i - 1] = s[i]
OBVIOUS

LEMMA AppendElements ==
  ASSUME NEW S, NEW s \in Seq(S), NEW x \in S
  PROVE  \A i \in DOMAIN Append(s, x) :
            Append(s, x)[i] = x \/ (i \in DOMAIN s /\ Append(s, x)[i] = s[i])
OBVIOUS

LEMMA Busy ==
  /\ \A w \in PacketWorkers : worker[w] \in Worker \cup {Idle} /\ worker[w].pc # "idle"
                              => worker[w] \in Worker
  /\ enricher \in Enricher \cup {Idle} /\ enricher.pc # "idle" => enricher \in Enricher
  /\ \A c \in Capturers : lookup[c] \in Lookup \cup {Idle} /\ lookup[c].pc # "idle"
                          => lookup[c] \in Lookup
  /\ Idle \notin Worker /\ Idle \notin Enricher
BY DEF Idle, Worker, Enricher

LEMMA RowTyped ==
  ASSUME NEW r \in Row \cup {NoRow}, NEW e \in Row \cup {NoRow}, e # NoRow
  PROVE  Upsert(r, e) \in Row
BY DEF Upsert, Row, NoRow, Vendors

LEMMA RowPatched ==
  ASSUME NEW r \in Row \cup {NoRow}, NEW m \in Macs, Patches(r, m), NEW v \in Vendors
  PROVE  [r EXCEPT !.vendor = v] \in Row
<1>1. r \in Row
  BY DEF Patches, NoRow
<1> QED
  BY <1>1 DEF Row

\* Every variable has its type in every reachable state.
LEMMA TypeStep == TypeOK /\ [Next]_vars => TypeOK'
<1> SUFFICES ASSUME TypeOK, [Next]_vars PROVE TypeOK'
  OBVIOUS
<1> USE DEF TypeOK, caches, pipeline, store
<1>1. CASE Tick
  BY <1>1 DEF Tick
<1>2. ASSUME NEW c \in Capturers, Capture(c) PROVE TypeOK'
  <2>1. ASSUME NEW ip \in Ips, NEW m \in Macs, Frame(c, ip, m) PROVE TypeOK'
    <3>1. [pc |-> "hot", ip |-> ip, mac |-> m, vendor |-> None] \in Lookup
      BY DEF Lookup
    <3> QED
      BY <2>1, <3>1 DEF Frame
  <2>2. CASE HotCheck(c)
    <3>1. lookup[c] \in Lookup /\ lookup[c].ip \in Ips /\ lookup[c].mac \in Macs
      BY <2>2, Busy DEF HotCheck, Lookup
    <3>2. items' \in Seq(Item)
      <4>1. hot[lookup[c].mac].vendor \in Vendors \cup {None}
        BY <3>1 DEF HotEntry
      <4> QED
        BY <2>2, <3>1, <4>1, EmitTyped DEF HotCheck
    <3>3. hot' \in [Macs -> HotEntry]
      <4>1. NoEntry \in HotEntry
        BY DEF HotEntry, NoEntry
      <4> QED
        BY <2>2, <4>1 DEF HotCheck
    <3>4. lookup' \in [Capturers -> Lookup \cup {Idle}]
      BY <2>2, <3>1, LookupReads DEF HotCheck
    <3> QED
      BY <2>2, <3>2, <3>3, <3>4 DEF HotCheck
  <2>3. CASE TableRead(c)
    <3>1. lookup[c] \in Lookup /\ lookup[c].ip \in Ips /\ lookup[c].mac \in Macs
      BY <2>3, Busy DEF TableRead, Lookup
    <3>2. items' \in Seq(Item)
      BY <2>3, <3>1, EmitTyped DEF TableRead
    <3>3. lookup' \in [Capturers -> Lookup \cup {Idle}]
      <4>1. [lookup[c] EXCEPT !.pc = "remember", !.vendor = table[lookup[c].mac]] \in Lookup
        BY <3>1, LookupRemembers
      <4> QED
        BY <2>3, <4>1 DEF TableRead
    <3> QED
      BY <2>3, <3>2, <3>3 DEF TableRead
  <2>4. CASE HotFill(c)
    <3>1. /\ lookup[c] \in Lookup /\ lookup[c].ip \in Ips /\ lookup[c].mac \in Macs
          /\ lookup[c].vendor \in Vendors \cup {None}
      BY <2>4, Busy DEF HotFill, Lookup
    <3>2. items' \in Seq(Item)
      BY <2>4, <3>1, EmitTyped DEF HotFill
    <3>3. hot' \in [Macs -> HotEntry]
      BY <2>4, <3>1, RememberedTyped DEF HotFill
    <3> QED
      BY <2>4, <3>2, <3>3 DEF HotFill
  <2> QED
    BY <1>2, <2>1, <2>2, <2>3, <2>4 DEF Capture
<1>3. ASSUME NEW ip \in Ips, NEW m \in Macs, FrameUnresolved(ip, m) PROVE TypeOK'
  <2>1. items' \in Seq(Item)
    BY <1>3, EmitTyped DEF FrameUnresolved, Vendors
  <2> QED
    BY <1>3, <2>1 DEF FrameUnresolved
<1>4. ASSUME NEW w \in PacketWorkers, Process(w) PROVE TypeOK'
  <2>1. CASE TakeItem(w)
    <3>1. Head(items) \in Item /\ Tail(items) \in Seq(Item)
      BY <2>1, HeadTail DEF TakeItem
    <3>2. worker' \in [PacketWorkers -> Worker \cup {Idle}]
      BY <2>1, <3>1 DEF TakeItem, Worker
    <3> QED
      BY <2>1, <3>1, <3>2 DEF TakeItem
  <2> DEFINE m == worker[w].item.mac
  <2>2. worker[w].pc # "idle" => worker[w] \in Worker /\ m \in Macs /\ worker[w].item \in Item
    BY Busy DEF Worker, Item
  <2>3. CASE Mark(w)
    <3>1. worker[w] \in Worker /\ m \in Macs
      BY <2>2, <2>3 DEF Mark
    <3>2. worker' \in [PacketWorkers -> Worker \cup {Idle}]
      <4>1. \E p \in {"put", "write"} : worker' = [worker EXCEPT ![w].pc = p]
        BY <2>3 DEF Mark
      <4>2. PICK p \in {"put", "write"} : worker' = [worker EXCEPT ![w].pc = p]
        BY <4>1
      <4>3. [worker[w] EXCEPT !.pc = p] \in Worker
        BY <3>1, WorkerMoves
      <4> QED
        BY <4>2, <4>3
    <3>3. inflight' \subseteq Macs /\ negative' \in [Macs -> Nat]
      <4>1. CASE inflight' = inflight /\ negative' = negative
        BY <4>1
      <4>2. CASE inflight' = inflight \cup {m} /\ negative' = [negative EXCEPT ![m] = 0]
        BY <3>1, <4>2
      <4> QED
        BY <2>3, <4>1, <4>2 DEF Mark
    <3> QED
      BY <2>3, <3>2, <3>3 DEF Mark
  <2>4. CASE Put(w)
    <3>1. worker' \in [PacketWorkers -> Worker \cup {Idle}]
      BY <2>2, <2>4, WorkerMoves DEF Put, Room
    <3>2. queue' \in Seq(Macs) /\ Len(queue') <= QueueMax
      <4>1. CASE queue' = queue
        BY <4>1
      <4>2. CASE Len(queue) < QueueMax /\ queue' = Append(queue, m)
        <5>1. queue' \in Seq(Macs) /\ Len(queue') = Len(queue) + 1
          BY <2>2, <2>4, <4>2 DEF Put, Room
        <5> QED
          BY <4>2, <5>1
      <4> QED
        BY <2>4, <4>1, <4>2 DEF Put, Room
    <3> QED
      BY <2>4, <3>1, <3>2 DEF Put, Room
  <2>5. CASE Unmark(w)
    <3>1. worker' \in [PacketWorkers -> Worker \cup {Idle}]
      BY <2>2, <2>5, WorkerMoves DEF Unmark
    <3> QED
      BY <2>5, <3>1 DEF Unmark, Released
  <2>6. CASE Write(w)
    <3>1. [mac |-> m, vendor |-> worker[w].item.vendor] \in Row /\ worker[w].item.ip \in Ips
      BY <2>2, <2>6 DEF Write, Row, Item
    <3>2. buffer' \in [Ips -> Row \cup {NoRow}]
      BY <2>6, <3>1 DEF Write
    <3>3. worker' \in [PacketWorkers -> Worker \cup {Idle}]
      BY <2>6 DEF Write
    <3> QED
      BY <2>6, <3>2, <3>3 DEF Write
  <2> QED
    BY <1>4, <2>1, <2>3, <2>4, <2>5, <2>6 DEF Process
<1>5. ASSUME NEW ip \in Ips, Flush(ip) PROVE TypeOK'
  <2>1. Upsert(rows[ip], buffer[ip]) \in Row
    BY <1>5, RowTyped DEF Flush
  <2>2. rows' \in [Ips -> Row \cup {NoRow}]
    BY <1>5, <2>1 DEF Flush
  <2>3. buffer' \in [Ips -> Row \cup {NoRow}]
    BY <1>5 DEF Flush
  <2>4. moved' \subseteq Ips
    BY <1>5 DEF Flush
  <2> QED
    BY <1>5, <2>2, <2>3, <2>4 DEF Flush
<1>6. CASE Enrich
  <2> DEFINE m == enricher.mac
  <2>1. enricher.pc # "idle" => enricher \in Enricher /\ m \in Macs /\ enricher.vendor \in Vendors
    BY Busy DEF Enricher
  <2>2. CASE Take
    <3>1. Head(queue) \in Macs /\ Tail(queue) \in Seq(Macs) /\ Len(Tail(queue)) <= QueueMax
      BY <2>2, HeadTail DEF Take
    <3>2. enricher' \in Enricher
      BY <2>2, <3>1 DEF Take, Enricher, Vendors
    <3> QED
      BY <2>2, <3>1, <3>2 DEF Take
  <2>3. CASE Cached
    <3>1. enricher' \in Enricher
      <4>1. enricher \in Enricher
        BY <2>1, <2>3 DEF Cached, At
      <4>2. CASE \E p \in Steps : Goto(p)
        BY <4>1, <4>2, EnricherGoes DEF Goto
      <4>3. CASE table[m] \in Macs /\ Answer("remember", table[m])
        <5>1. table[m] \in Vendors /\ "remember" \in Steps
          BY <4>3 DEF Vendors, Steps
        <5> QED
          BY <4>1, <4>3, <5>1, EnricherAnswers DEF Answer
      <4> QED
        BY <2>3, <4>2, <4>3 DEF Cached, Steps
    <3> QED
      BY <2>3, <3>1 DEF Cached
  <2>4. CASE Ask
    <3>1. enricher' \in Enricher
      <4>1. enricher \in Enricher
        BY <2>1, <2>4 DEF Ask, At
      <4>2. CASE \E p \in Steps : Goto(p)
        BY <4>1, <4>2, EnricherGoes DEF Goto
      <4>3. CASE \E p \in Steps, v \in Vendors : Answer(p, v)
        <5>1. PICK p \in Steps, v \in Vendors : Answer(p, v)
          BY <4>3
        <5>2. [enricher EXCEPT !.pc = p, !.vendor = v] \in Enricher
          BY <4>1, EnricherAnswers
        <5> QED
          BY <5>1, <5>2 DEF Answer
      <4>4. m \in Vendors /\ Unknown \in Vendors
        BY <2>1, <2>4 DEF Ask, At, Vendors
      <4> QED
        BY <2>4, <4>2, <4>3, <4>4 DEF Ask, Steps
    <3> QED
      BY <2>4, <3>1 DEF Ask
  <2>5. CASE Learn
    <3>1. enricher' \in Enricher
      BY <2>1, <2>5, EnricherGoes DEF Learn, At, Goto, Steps
    <3>2. hot' \in [Macs -> HotEntry]
      BY <2>1, <2>5, RememberedTyped DEF Learn, At
    <3> QED
      BY <2>5, <3>1, <3>2 DEF Learn
  <2>6. CASE Save
    <3>1. enricher' \in Enricher
      BY <2>1, <2>6, EnricherGoes DEF Save, At, Goto, Steps
    <3> QED
      BY <2>1, <2>6, <3>1 DEF Save, At
  <2>7. CASE Remember
    <3>1. enricher' \in Enricher
      BY <2>1, <2>7, EnricherGoes DEF Remember, At, Goto, Steps
    <3>2. hot' \in [Macs -> HotEntry]
      BY <2>1, <2>7, RememberedTyped DEF Remember, At
    <3> QED
      BY <2>7, <3>1, <3>2 DEF Remember
  <2>8. CASE Update
    <3>1. enricher' \in Enricher
      BY <2>1, <2>8, EnricherGoes DEF Update, At, Goto, Steps
    <3>2. \A ip \in Ips : Patches(rows[ip], m) =>
            [rows[ip] EXCEPT !.vendor = enricher.vendor] \in Row
      BY <2>1, <2>8, RowPatched DEF Update, At
    <3> QED
      BY <2>8, <3>1, <3>2 DEF Update
  <2>9. CASE Park
    <3>1. enricher' \in Enricher
      BY <2>1, <2>9, EnricherGoes DEF Park, At, Goto, Steps
    <3> QED
      BY <2>1, <2>9, <3>1 DEF Park, At
  <2>10. CASE Discard
    BY <2>10 DEF Discard, Released
  <2> QED
    BY <1>6, <2>2, <2>3, <2>4, <2>5, <2>6, <2>7, <2>8, <2>9, <2>10 DEF Enrich
<1>7. CASE UNCHANGED vars
  BY <1>7 DEF vars
<1> QED
  BY <1>1, <1>2, <1>3, <1>4, <1>5, <1>6, <1>7 DEF Next

LEMMA TypeInit == Init => TypeOK
BY DEF Init, TypeOK, NoEntry, HotEntry, NoRow

THEOREM TypeCorrect == Spec => []TypeOK
BY TypeInit, TypeStep, PTL DEF Spec

-------------------------------------------------------------------------------
(* Ownership of marks.                                                     *)

\* The hands of packet workers and of the enrichment worker.
held == [w \in Scheduling |-> worker[w].item.mac]
taken == IF enricher = Idle THEN {} ELSE {enricher.mac}

\* OneHolder, hand by hand: no two hands hold the same MAC, and the MACs in
\* hands are those marked.
Owned(q, marked, h, t) ==
  /\ \A i, j \in DOMAIN q : q[i] = q[j] => i = j
  /\ \A w, v \in DOMAIN h : h[w] = h[v] => w = v
  /\ \A i \in DOMAIN q, w \in DOMAIN h : q[i] # h[w]
  /\ \A m, n \in t : m = n
  /\ \A i \in DOMAIN q : q[i] \notin t
  /\ \A w \in DOMAIN h : h[w] \notin t
  /\ \A i \in DOMAIN q : q[i] \in marked
  /\ \A w \in DOMAIN h : h[w] \in marked
  /\ t \subseteq marked
  /\ \A m \in marked : \/ \E i \in DOMAIN q : q[i] = m
                       \/ \E w \in DOMAIN h : h[w] = m
                       \/ m \in t
Own == Owned(queue, inflight, held, taken)

\* Owned put together from its parts.
LEMMA OwnedIntro ==
  ASSUME NEW q, NEW marked, NEW h, NEW t,
         \A i, j \in DOMAIN q : q[i] = q[j] => i = j,
         \A w, v \in DOMAIN h : h[w] = h[v] => w = v,
         \A m, n \in t : m = n,
         \A i \in DOMAIN q : /\ q[i] \notin t /\ q[i] \in marked
                            /\ \A w \in DOMAIN h : q[i] # h[w],
         \A w \in DOMAIN h : h[w] \notin t /\ h[w] \in marked,
         t \subseteq marked,
         \A m \in marked : \/ \E i \in DOMAIN q : q[i] = m
                           \/ \E w \in DOMAIN h : h[w] = m
                           \/ m \in t
  PROVE  Owned(q, marked, h, t)
BY DEF Owned

\* g is h with one more point, or with one less.
Grows(g, h, w, m) ==
  DOMAIN g = DOMAIN h \cup {w} /\ g[w] = m /\ \A v \in DOMAIN h : g[v] = h[v]
Shrinks(g, h, w) ==
  DOMAIN g = DOMAIN h \ {w} /\ \A v \in DOMAIN g : g[v] = h[v]

\* A MAC given to a worker that held none: Mark.
LEMMA OwnMarked ==
  ASSUME NEW q, NEW marked, NEW h, NEW t, Owned(q, marked, h, t), NEW w, NEW m,
         w \notin DOMAIN h, m \notin marked, NEW g, Grows(g, h, w, m)
  PROVE  Owned(q, marked \cup {m}, g, t)
<1>1. \A v \in DOMAIN h : g[v] = h[v] /\ g[v] \in marked /\ g[v] # m
  BY DEF Owned, Grows
<1>2. \A v \in DOMAIN g : (v = w /\ g[v] = m) \/ v \in DOMAIN h
  BY DEF Grows
<1>3. \A v, u \in DOMAIN g : g[v] = g[u] => v = u
  BY <1>1, <1>2 DEF Owned
<1>4. \A v \in DOMAIN g : g[v] \in marked \cup {m} /\ g[v] \notin t
  BY <1>1, <1>2 DEF Owned
<1>5. \A i \in DOMAIN q, v \in DOMAIN g : q[i] # g[v]
  BY <1>1, <1>2 DEF Owned
<1>6. \A n \in marked \cup {m} : \/ \E i \in DOMAIN q : q[i] = n
                                 \/ \E v \in DOMAIN g : g[v] = n
                                 \/ n \in t
  BY DEF Owned, Grows
<1>7. /\ \A i, j \in DOMAIN q : q[i] = q[j] => i = j
      /\ \A i, j \in t : i = j
      /\ t \subseteq marked \cup {m}
      /\ \A i \in DOMAIN q : q[i] \notin t /\ q[i] \in marked \cup {m}
  BY DEF Owned
<1> QED
  BY <1>3, <1>4, <1>5, <1>6, <1>7, OwnedIntro

\* A MAC passed from a worker to the end of the queue: Put.
LEMMA OwnQueued ==
  ASSUME NEW q \in Seq(Macs), NEW marked, NEW h, NEW t, Owned(q, marked, h, t),
         NEW w \in DOMAIN h, h[w] \in Macs, NEW g, Shrinks(g, h, w)
  PROVE  Owned(Append(q, h[w]), marked, g, t)
<1> DEFINE r == Append(q, h[w])
           last == Len(q) + 1
<1>1. /\ DOMAIN r = DOMAIN q \cup {last}
      /\ \A i \in DOMAIN q : r[i] = q[i]
      /\ r[last] = h[w]
  OBVIOUS
<1> HIDE DEF r, last
<1>2. \A i, j \in DOMAIN r : r[i] = r[j] => i = j
  BY <1>1 DEF Owned
<1>3. \A v, u \in DOMAIN g : g[v] = g[u] => v = u
  BY DEF Owned, Shrinks
<1>4. \A i \in DOMAIN r, v \in DOMAIN g : r[i] # g[v]
  BY <1>1 DEF Owned, Shrinks
<1>5. \A i \in DOMAIN r : r[i] \notin t /\ r[i] \in marked
  BY <1>1 DEF Owned
<1>6. \A v \in DOMAIN g : g[v] \notin t /\ g[v] \in marked
  BY DEF Owned, Shrinks
<1>7. \A m \in marked : \/ \E i \in DOMAIN r : r[i] = m
                        \/ \E v \in DOMAIN g : g[v] = m
                        \/ m \in t
  BY <1>1 DEF Owned, Shrinks
<1>8. (\A m, n \in t : m = n) /\ t \subseteq marked
  BY DEF Owned
<1>9. Owned(r, marked, g, t)
  BY <1>2, <1>3, <1>4, <1>5, <1>6, <1>7, <1>8, OwnedIntro
<1> QED
  BY <1>9 DEF r

\* A MAC passed from the head of the queue to the enrichment worker: Take.
LEMMA OwnTaken ==
  ASSUME NEW q \in Seq(Macs), q # << >>, NEW marked, NEW h, Owned(q, marked, h, {})
  PROVE  Owned(Tail(q), marked, h, {Head(q)})
<1> DEFINE r == Tail(q)
           m == Head(q)
<1>1. /\ 1 \in DOMAIN q /\ m = q[1]
      /\ \A i \in DOMAIN r : i + 1 \in DOMAIN q /\ r[i] = q[i + 1] /\ i + 1 # 1
      /\ \A i, j \in DOMAIN r : i + 1 = j + 1 => i = j
      /\ \A i \in DOMAIN q : i # 1 => i - 1 \in DOMAIN r /\ r[i - 1] = q[i]
  BY HeadTail
<1> HIDE DEF r, m
<1>2. \A i, j \in DOMAIN r : r[i] = r[j] => i = j
  BY <1>1 DEF Owned
<1>3. \A i \in DOMAIN r : r[i] # m /\ r[i] \in marked /\ \A w \in DOMAIN h : r[i] # h[w]
  BY <1>1 DEF Owned
<1>4. m \in marked /\ \A w \in DOMAIN h : h[w] # m
  BY <1>1 DEF Owned
<1>5. \A n \in marked : \/ \E i \in DOMAIN r : r[i] = n
                        \/ \E w \in DOMAIN h : h[w] = n
                        \/ n \in {m}
  <2> SUFFICES ASSUME NEW n \in marked, n # m, \A w \in DOMAIN h : h[w] # n
               PROVE  \E i \in DOMAIN r : r[i] = n
    OBVIOUS
  <2>1. PICK i \in DOMAIN q : q[i] = n
    BY DEF Owned
  <2> QED
    BY <1>1, <2>1
<1>6. Owned(r, marked, h, {m})
  <2>1. \A w, v \in DOMAIN h : h[w] = h[v] => w = v
    BY DEF Owned
  <2>2. \A w \in DOMAIN h : h[w] \in marked
    BY DEF Owned
  <2> QED
    BY <1>2, <1>3, <1>4, <1>5, <2>1, <2>2, OwnedIntro
<1> QED
  BY <1>6 DEF r, m

\* A mark given up by the worker that held its MAC: Unmark.
LEMMA OwnUnmarked ==
  ASSUME NEW q, NEW marked, NEW h, NEW t, Owned(q, marked, h, t), NEW w \in DOMAIN h,
         NEW g, Shrinks(g, h, w)
  PROVE  Owned(q, marked \ {h[w]}, g, t)
<1>1. \A v \in DOMAIN g : g[v] = h[v] /\ g[v] # h[w] /\ g[v] \in marked /\ g[v] \notin t
  BY DEF Owned, Shrinks
<1>2. \A v, u \in DOMAIN g : g[v] = g[u] => v = u
  BY DEF Owned, Shrinks
<1>3. \A i \in DOMAIN q : q[i] # h[w] /\ \A v \in DOMAIN g : q[i] # g[v]
  BY DEF Owned, Shrinks
<1>4. \A m \in marked \ {h[w]} : \/ \E i \in DOMAIN q : q[i] = m
                                 \/ \E v \in DOMAIN g : g[v] = m
                                 \/ m \in t
  BY DEF Owned, Shrinks
<1>5. /\ \A i, j \in DOMAIN q : q[i] = q[j] => i = j
      /\ \A i, j \in t : i = j
      /\ t \subseteq marked \ {h[w]}
      /\ \A i \in DOMAIN q : q[i] \notin t /\ q[i] \in marked
  BY DEF Owned
<1> QED
  BY <1>1, <1>2, <1>3, <1>4, <1>5, OwnedIntro

\* A mark given up by the enrichment worker: Discard.
LEMMA OwnDiscarded ==
  ASSUME NEW q, NEW marked, NEW h, NEW m, Owned(q, marked, h, {m})
  PROVE  Owned(q, marked \ {m}, h, {})
BY DEF Owned

-------------------------------------------------------------------------------
(* The inductive invariant.                                                *)

\* The negative entry of a parked MAC stays until its time is over, and until
\* then its MAC is in nobody's hands but those of the worker that parked it.
Quiet ==
  /\ \A m \in Macs : quiet[m] > now => negative[m] = quiet[m]
  /\ \A i \in DOMAIN queue : quiet[queue[i]] <= now
  /\ \A w \in Scheduling : quiet[worker[w].item.mac] <= now
  /\ enricher # Idle /\ enricher.pc # "discard" => quiet[enricher.mac] <= now

IInv == TypeOK /\ Own /\ Quiet

LEMMA InvInit == Init => IInv
<1> SUFFICES ASSUME Init PROVE IInv
  OBVIOUS
<1>1. TypeOK
  BY TypeInit
<1>2. Scheduling = {}
  BY DEF Init, Scheduling, Idle
<1>3. DOMAIN queue = {} /\ inflight = {} /\ DOMAIN held = {} /\ taken = {}
  BY <1>2 DEF Init, held, taken
<1>4. Own
  BY <1>3 DEF Own, Owned
<1>5. Quiet
  BY <1>2, <1>3 DEF Quiet, Init
<1> QED
  BY <1>1, <1>4, <1>5 DEF IInv

\* A step that leaves the queue, the marks, the worker that schedules and the
\* negative cache alone, and keeps the enrichment worker's MAC in its hands.
LEMMA InvUntouched ==
  ASSUME IInv, TypeOK', queue' = queue, inflight' = inflight, negative' = negative,
         quiet' = quiet, now' \in Nat, now <= now', held' = held, taken' = taken,
         enricher' # Idle /\ enricher'.pc # "discard" =>
            enricher # Idle /\ enricher.pc # "discard" /\ enricher'.mac = enricher.mac
  PROVE  IInv'
<1>1. Own'
  BY DEF IInv, Own
<1>2. /\ now \in Nat /\ quiet \in [Macs -> Nat] /\ queue \in Seq(Macs)
      /\ enricher # Idle => enricher.mac \in Macs
  BY DEF IInv, TypeOK, Enricher
<1>3. \A m \in Macs : quiet[m] <= now => quiet[m] <= now'
  BY <1>2
<1>4. Scheduling' = Scheduling /\ \A w \in Scheduling : worker'[w].item.mac = worker[w].item.mac
  <2>1. DOMAIN held = Scheduling /\ DOMAIN held' = Scheduling'
    BY DEF held
  <2>2. \A w \in Scheduling : held[w] = worker[w].item.mac
    BY DEF held
  <2>3. \A w \in Scheduling' : held'[w] = worker'[w].item.mac
    BY DEF held
  <2> QED
    BY <2>1, <2>2, <2>3
<1>5. \A w \in Scheduling : worker[w].item.mac \in Macs
  BY Busy DEF IInv, TypeOK, Scheduling, Worker, Item
<1>6. Quiet'
  <2>1. \A m \in Macs : quiet[m] > now' => negative[m] = quiet[m]
    BY <1>2 DEF IInv, Quiet
  <2>2. \A i \in DOMAIN queue : quiet[queue[i]] <= now'
    BY <1>2, <1>3 DEF IInv, Quiet
  <2>3. \A w \in Scheduling : quiet[worker[w].item.mac] <= now'
    BY <1>3, <1>5 DEF IInv, Quiet
  <2>4. enricher' # Idle /\ enricher'.pc # "discard" => quiet[enricher'.mac] <= now'
    BY <1>2, <1>3 DEF IInv, Quiet
  <2> QED
    BY <1>4, <2>1, <2>2, <2>3, <2>4 DEF Quiet
<1> QED
  BY <1>1, <1>6 DEF IInv

\* Where a packet worker's step leaves the marks it holds.
LEMMA HeldBy ==
  ASSUME TypeOK, NEW w \in PacketWorkers, NEW r,
         worker' = [worker EXCEPT ![w] = r]
  PROVE  /\ w \notin Scheduling /\ r.pc \notin {"put", "unmark"} => held' = held
         /\ w \in Scheduling /\ r.pc \in {"put", "unmark"} /\ r.item = worker[w].item
            => held' = held
         /\ w \notin Scheduling /\ r.pc \in {"put", "unmark"} => Grows(held', held, w, r.item.mac)
         /\ w \in Scheduling /\ r.pc \notin {"put", "unmark"} => Shrinks(held', held, w)
<1>1. /\ \A v \in PacketWorkers \ {w} : worker'[v] = worker[v]
      /\ worker'[w] = r
  BY DEF TypeOK
<1>2. /\ r.pc \in {"put", "unmark"} => Scheduling' = Scheduling \cup {w}
      /\ r.pc \notin {"put", "unmark"} => Scheduling' = Scheduling \ {w}
  BY <1>1 DEF Scheduling
<1>3. Scheduling \subseteq PacketWorkers
  BY DEF Scheduling
<1>4. /\ held = [v \in Scheduling |-> worker[v].item.mac]
      /\ held' = [v \in Scheduling' |-> worker'[v].item.mac]
  BY DEF held
<1>5. ASSUME w \notin Scheduling, r.pc \notin {"put", "unmark"} PROVE held' = held
  BY <1>1, <1>2, <1>3, <1>4, <1>5
<1>6. ASSUME w \in Scheduling, r.pc \in {"put", "unmark"}, r.item = worker[w].item
      PROVE held' = held
  BY <1>1, <1>2, <1>3, <1>4, <1>6
<1>7. ASSUME w \notin Scheduling, r.pc \in {"put", "unmark"}
      PROVE Grows(held', held, w, r.item.mac)
  BY <1>1, <1>2, <1>3, <1>4, <1>7 DEF Grows
<1>8. ASSUME w \in Scheduling, r.pc \notin {"put", "unmark"} PROVE Shrinks(held', held, w)
  BY <1>1, <1>2, <1>3, <1>4, <1>8 DEF Shrinks
<1> QED
  BY <1>5, <1>6, <1>7, <1>8

\* The packet workers' steps on the marks.
LEMMA InvProcess ==
  ASSUME IInv, TypeOK', NEW w \in PacketWorkers, Process(w)
  PROVE  IInv'
<1> USE DEF caches, pipeline, store
<1> DEFINE m == worker[w].item.mac
<1>0. /\ TypeOK /\ Own /\ Quiet
      /\ worker[w].pc # "idle" => worker[w] \in Worker /\ m \in Macs
      /\ now \in Nat /\ quiet \in [Macs -> Nat] /\ negative \in [Macs -> Nat]
  BY Busy DEF IInv, TypeOK, Worker, Item
<1>1. CASE TakeItem(w)
  <2>1. held' = held
    <3>1. w \notin Scheduling
      BY <1>1 DEF TakeItem, Scheduling, Idle
    <3>2. PICK r : worker' = [worker EXCEPT ![w] = r] /\ r.pc \notin {"put", "unmark"}
      <4> DEFINE r == [pc |-> IF Head(items).vendor = Unknown THEN "mark" ELSE "write",
                       item |-> Head(items)]
      <4>1. r.pc \notin {"put", "unmark"}
        OBVIOUS
      <4>2. worker' = [worker EXCEPT ![w] = r]
        BY <1>1 DEF TakeItem
      <4> QED
        BY <4>1, <4>2
    <3> QED
      BY <1>0, <3>1, <3>2, HeldBy
  <2> QED
    BY <1>0, <1>1, <2>1, InvUntouched DEF TakeItem, taken
<1>2. CASE Mark(w)
  <2>1. w \notin Scheduling
    BY <1>2 DEF Mark, Scheduling
  <2>2. CASE ~MaySchedule(m)
    <3>1. held' = held
      <4>1. PICK r : worker' = [worker EXCEPT ![w] = r] /\ r.pc \notin {"put", "unmark"}
        <5>1. [worker[w] EXCEPT !.pc = "write"].pc = "write"
          BY <1>0, <1>2 DEF Mark, Worker
        <5> QED
          BY <1>2, <2>2, <5>1 DEF Mark
      <4> QED
        BY <1>0, <2>1, <4>1, HeldBy
    <3> QED
      BY <1>0, <1>2, <2>2, <3>1, InvUntouched DEF Mark, taken
  <2>3. CASE MaySchedule(m)
    <3>1. m \in Macs /\ m \notin inflight /\ negative[m] <= now
      BY <1>0, <1>2, <2>3 DEF Mark, MaySchedule, Parked
    <3>2. quiet[m] <= now
      BY <1>0, <3>1 DEF Quiet
    <3>3. Grows(held', held, w, m)
      <4>1. PICK r : /\ worker' = [worker EXCEPT ![w] = r]
                     /\ r.pc \in {"put", "unmark"} /\ r.item = worker[w].item
        <5>1. /\ [worker[w] EXCEPT !.pc = "put"].pc = "put"
              /\ [worker[w] EXCEPT !.pc = "put"].item = worker[w].item
          BY <1>0, <1>2 DEF Mark, Worker
        <5> QED
          BY <1>2, <2>3, <5>1 DEF Mark
      <4> QED
        BY <1>0, <2>1, <4>1, HeldBy
    <3>4. Own'
      <4>1. DOMAIN held = Scheduling /\ taken' = taken
        BY <1>2 DEF held, taken, Mark
      <4>2. Owned(queue, inflight \cup {m}, held', taken)
        BY <1>0, <2>1, <3>1, <3>3, <4>1, OwnMarked DEF Own
      <4> QED
        BY <1>2, <2>3, <4>1, <4>2 DEF Own, Mark
    <3>5. Quiet'
      <4>1. \A n \in Macs : quiet[n] > now => negative'[n] = quiet[n]
        BY <1>0, <1>2, <2>3, <3>1, <3>2 DEF Quiet, Mark
      <4>2. \A v \in Scheduling' : quiet[worker'[v].item.mac] <= now
        <5>1. /\ \A v \in Scheduling' : held'[v] = worker'[v].item.mac
              /\ \A v \in Scheduling : held[v] = worker[v].item.mac
              /\ DOMAIN held = Scheduling /\ DOMAIN held' = Scheduling'
          BY DEF held
        <5> QED
          BY <1>0, <3>2, <3>3, <5>1 DEF Quiet, Grows
      <4> QED
        BY <1>0, <1>2, <4>1, <4>2 DEF Quiet, Mark
    <3> QED
      BY <3>4, <3>5 DEF IInv
  <2> QED
    BY <2>2, <2>3
<1>3. CASE Put(w)
  <2>1. w \in Scheduling /\ held[w] = m /\ m \in Macs
    BY <1>0, <1>3 DEF Put, Room, Scheduling, held
  <2>2. CASE Len(queue) < QueueMax
    <3>1. Shrinks(held', held, w)
      <4>1. PICK r : worker' = [worker EXCEPT ![w] = r] /\ r.pc \notin {"put", "unmark"}
        <5>1. [worker[w] EXCEPT !.pc = "write"].pc = "write"
          BY <1>0, <1>3 DEF Put, Room, Worker
        <5> QED
          BY <1>3, <2>2, <5>1 DEF Put, Room
      <4> QED
        BY <1>0, <2>1, <4>1, HeldBy
    <3>2. Own'
      <4>1. DOMAIN held = Scheduling /\ taken' = taken /\ queue \in Seq(Macs)
        BY <1>0, <1>3 DEF held, taken, Put, Room, TypeOK
      <4>2. Owned(Append(queue, held[w]), inflight, held', taken)
        BY <1>0, <2>1, <3>1, <4>1, OwnQueued DEF Own
      <4> QED
        BY <1>3, <2>1, <2>2, <4>1, <4>2 DEF Own, Put, Room
    <3>3. Quiet'
      <4>1. quiet[m] <= now
        BY <1>0, <2>1 DEF Quiet
      <4>2. \A i \in DOMAIN queue' : quiet[queue'[i]] <= now
        <5>1. queue' = Append(queue, m) /\ queue \in Seq(Macs)
          BY <1>0, <1>3, <2>2 DEF Put, Room, TypeOK
        <5>2. \A i \in DOMAIN queue' : queue'[i] = m \/ (i \in DOMAIN queue /\ queue'[i] = queue[i])
          BY <5>1, <2>1, AppendElements
        <5> QED
          BY <1>0, <4>1, <5>2 DEF Quiet
      <4>3. \A v \in Scheduling' : quiet[worker'[v].item.mac] <= now
        <5>1. /\ \A v \in Scheduling' : held'[v] = worker'[v].item.mac
              /\ \A v \in Scheduling : held[v] = worker[v].item.mac
              /\ DOMAIN held = Scheduling /\ DOMAIN held' = Scheduling'
          BY DEF held
        <5> QED
          BY <1>0, <3>1, <5>1 DEF Quiet, Shrinks
      <4> QED
        BY <1>0, <1>3, <4>2, <4>3 DEF Quiet, Put, Room
    <3> QED
      BY <3>2, <3>3 DEF IInv
  <2>3. CASE ~(Len(queue) < QueueMax)
    <3>1. held' = held
      <4>1. PICK r : /\ worker' = [worker EXCEPT ![w] = r]
                     /\ r.pc \in {"put", "unmark"} /\ r.item = worker[w].item
        <5>1. /\ [worker[w] EXCEPT !.pc = "unmark"].pc = "unmark"
              /\ [worker[w] EXCEPT !.pc = "unmark"].item = worker[w].item
          BY <1>0, <1>3 DEF Put, Room, Worker
        <5> QED
          BY <1>3, <2>3, <5>1 DEF Put, Room
      <4> QED
        BY <1>0, <2>1, <4>1, HeldBy
    <3> QED
      BY <1>0, <1>3, <2>3, <3>1, InvUntouched DEF Put, Room, taken
  <2> QED
    BY <2>2, <2>3
<1>4. CASE Unmark(w)
  <2>1. w \in Scheduling /\ held[w] = m /\ m \in Macs
    BY <1>0, <1>4 DEF Unmark, Scheduling, held
  <2>2. Shrinks(held', held, w)
    <3>1. PICK r : worker' = [worker EXCEPT ![w] = r] /\ r.pc \notin {"put", "unmark"}
      <4>1. [worker[w] EXCEPT !.pc = "write"].pc = "write"
        BY <1>0, <1>4 DEF Unmark, Worker
      <4> QED
        BY <1>4, <4>1 DEF Unmark
    <3> QED
      BY <1>0, <2>1, <3>1, HeldBy
  <2>3. Own'
    <3>1. DOMAIN held = Scheduling /\ taken' = taken
      BY <1>4 DEF held, taken, Unmark
    <3>2. Owned(queue, inflight \ {held[w]}, held', taken)
      BY <1>0, <2>1, <2>2, <3>1, OwnUnmarked DEF Own
    <3> QED
      BY <1>4, <2>1, <3>1, <3>2 DEF Own, Unmark, Released
  <2>4. Quiet'
    <3>1. \A v \in Scheduling' : quiet[worker'[v].item.mac] <= now
      <4>1. /\ \A v \in Scheduling' : held'[v] = worker'[v].item.mac
            /\ \A v \in Scheduling : held[v] = worker[v].item.mac
            /\ DOMAIN held = Scheduling /\ DOMAIN held' = Scheduling'
        BY DEF held
      <4> QED
        BY <1>0, <2>2, <4>1 DEF Quiet, Shrinks
    <3> QED
      BY <1>0, <1>4, <3>1 DEF Quiet, Unmark
  <2> QED
    BY <2>3, <2>4 DEF IInv
<1>5. CASE Write(w)
  <2>1. held' = held
    <3>1. w \notin Scheduling
      BY <1>5 DEF Write, Scheduling
    <3>2. worker' = [worker EXCEPT ![w] = Idle] /\ Idle.pc \notin {"put", "unmark"}
      BY <1>5 DEF Write, Idle
    <3> QED
      BY <1>0, <3>1, <3>2, HeldBy
  <2> QED
    BY <1>0, <1>5, <2>1, InvUntouched DEF Write, taken
<1> QED
  BY <1>1, <1>2, <1>3, <1>4, <1>5 DEF Process

\* The enrichment worker's steps on the marks.
LEMMA InvEnrich ==
  ASSUME IInv, TypeOK', Enrich
  PROVE  IInv'
<1> USE DEF caches, pipeline, store
<1> DEFINE m == enricher.mac
<1>0. /\ TypeOK /\ Own /\ Quiet
      /\ enricher.pc # "idle" => enricher \in Enricher /\ enricher # Idle /\ m \in Macs
      /\ now \in Nat /\ quiet \in [Macs -> Nat] /\ negative \in [Macs -> Nat]
      /\ queue \in Seq(Macs)
  BY Busy DEF IInv, TypeOK, Enricher, Idle
<1>1. worker' = worker => held' = held /\ Scheduling' = Scheduling
  BY DEF held, Scheduling
<1>2. CASE Take
  <2>1. /\ Head(queue) \in Macs /\ Head(queue) = queue[1] /\ 1 \in DOMAIN queue
        /\ \A i \in DOMAIN Tail(queue) : i + 1 \in DOMAIN queue /\ Tail(queue)[i] = queue[i + 1]
    BY <1>0, <1>2, HeadTail DEF Take
  <2>2. /\ enricher'.mac = Head(queue) /\ enricher' # Idle
        /\ taken = {} /\ taken' = {Head(queue)}
    BY <1>2 DEF Take, Idle, taken
  <2>3. Own'
    <3>1. Owned(Tail(queue), inflight, held, {Head(queue)})
      BY <1>0, <1>2, <2>2, OwnTaken DEF Own, Take
    <3> QED
      BY <1>1, <1>2, <2>2, <3>1 DEF Own, Take
  <2>4. Quiet'
    <3>1. \A i \in DOMAIN queue' : quiet[queue'[i]] <= now
      BY <1>0, <1>2, <2>1 DEF Quiet, Take
    <3>2. quiet[enricher'.mac] <= now
      BY <1>0, <2>1, <2>2 DEF Quiet
    <3> QED
      BY <1>0, <1>1, <1>2, <3>1, <3>2 DEF Quiet, Take
  <2> QED
    BY <2>3, <2>4 DEF IInv
<1>3. CASE Cached \/ Ask \/ Learn \/ Save \/ Remember \/ Update
  <2>1. /\ enricher.pc \notin {"idle", "discard"}
        /\ UNCHANGED <<now, negative, inflight, queue, worker, quiet>>
    BY <1>3 DEF Cached, Ask, Learn, Save, Remember, Update, At
  <2>2. (\E p \in Steps : Goto(p)) \/ (\E p \in Steps : \E v : Answer(p, v))
    BY <1>3 DEF Cached, Ask, Learn, Save, Remember, Update, Steps
  <2>3. enricher'.mac = m /\ enricher' # Idle
    <3>1. enricher \in Enricher
      BY <1>0, <2>1
    <3>2. ASSUME NEW p \in Steps, Goto(p) PROVE enricher'.mac = m /\ enricher'.pc \in Steps
      BY <3>1, <3>2 DEF Enricher, Goto
    <3>3. ASSUME NEW p \in Steps, NEW v, Answer(p, v)
          PROVE  enricher'.mac = m /\ enricher'.pc \in Steps
      BY <3>1, <3>3 DEF Enricher, Answer
    <3> QED
      BY <2>2, <3>2, <3>3 DEF Steps, Idle
  <2>4. taken' = taken
    BY <1>0, <2>1, <2>3 DEF taken
  <2>5. enricher # Idle /\ enricher.pc # "discard" /\ now' \in Nat /\ now <= now'
    BY <1>0, <2>1
  <2> QED
    BY <1>1, <2>1, <2>3, <2>4, <2>5, InvUntouched
<1>4. CASE Park
  <2>1. /\ enricher \in Enricher /\ enricher # Idle /\ m \in Macs
        /\ enricher' = [enricher EXCEPT !.pc = "discard"]
    BY <1>0, <1>4 DEF Park, At, Goto
  <2>2. enricher'.mac = m /\ enricher' # Idle /\ enricher'.pc = "discard"
    BY <2>1 DEF Enricher, Idle
  <2>3. Own'
    <3>1. taken' = taken
      BY <2>1, <2>2 DEF taken
    <3> QED
      BY <1>0, <1>1, <1>4, <3>1 DEF Own, Park
  <2>4. Quiet'
    <3>1. taken = {m}
      BY <2>1 DEF taken
    <3>2. /\ \A i \in DOMAIN queue : queue[i] # m
          /\ \A w \in Scheduling : worker[w].item.mac # m
      BY <1>0, <3>1 DEF Own, Owned, held
    <3>3. /\ \A i \in DOMAIN queue : queue[i] \in Macs
          /\ \A w \in Scheduling : worker[w].item.mac \in Macs
      BY <1>0, Busy DEF TypeOK, Scheduling, Worker, Item
    <3>4. \A n \in Macs : n # m => quiet'[n] = quiet[n] /\ negative'[n] = negative[n]
      BY <1>0, <1>4 DEF Park
    <3>5. quiet'[m] = negative'[m]
      BY <1>0, <1>4, <2>1 DEF Park
    <3>6. /\ \A n \in Macs : quiet'[n] > now => negative'[n] = quiet'[n]
          /\ \A i \in DOMAIN queue : quiet'[queue[i]] <= now
          /\ \A w \in Scheduling : quiet'[worker[w].item.mac] <= now
      BY <1>0, <3>2, <3>3, <3>4, <3>5 DEF Quiet
    <3> QED
      BY <1>1, <1>4, <2>2, <3>6 DEF Quiet, Park
  <2> QED
    BY <2>3, <2>4 DEF IInv
<1>5. CASE Discard
  <2>1. enricher # Idle /\ enricher' = Idle /\ taken = {m} /\ taken' = {}
    BY <1>0, <1>5 DEF Discard, At, taken
  <2>2. Own'
    <3>1. Owned(queue, inflight \ {m}, held, {})
      BY <1>0, <2>1, OwnDiscarded DEF Own
    <3> QED
      BY <1>1, <1>5, <2>1, <3>1 DEF Own, Discard, Released
  <2>3. Quiet'
    BY <1>0, <1>1, <1>5, <2>1 DEF Quiet, Discard
  <2> QED
    BY <2>2, <2>3 DEF IInv
<1> QED
  BY <1>2, <1>3, <1>4, <1>5 DEF Enrich

LEMMA InvStep == IInv /\ [Next]_vars => IInv'
<1> SUFFICES ASSUME IInv, [Next]_vars PROVE IInv'
  OBVIOUS
<1> USE DEF caches, pipeline, store
<1>1. TypeOK /\ TypeOK' /\ now \in Nat
  BY TypeStep DEF IInv, TypeOK
<1>2. ASSUME worker' = worker, enricher' = enricher PROVE held' = held /\ taken' = taken
  BY <1>2 DEF held, taken, Scheduling
<1>3. ASSUME UNCHANGED <<negative, inflight, queue, worker, enricher, quiet>>,
             now' \in Nat, now <= now'
      PROVE  IInv'
  BY <1>1, <1>2, <1>3, InvUntouched
<1>4. CASE Tick
  BY <1>1, <1>3, <1>4 DEF Tick
<1>5. ASSUME NEW c \in Capturers, Capture(c) PROVE IInv'
  BY <1>1, <1>3, <1>5 DEF Capture, Frame, HotCheck, TableRead, HotFill
<1>6. ASSUME NEW ip \in Ips, NEW m \in Macs, FrameUnresolved(ip, m) PROVE IInv'
  BY <1>1, <1>3, <1>6 DEF FrameUnresolved
<1>7. ASSUME NEW ip \in Ips, Flush(ip) PROVE IInv'
  BY <1>1, <1>3, <1>7 DEF Flush
<1>8. CASE UNCHANGED vars
  BY <1>1, <1>3, <1>8 DEF vars
<1> QED
  BY <1>1, <1>4, <1>5, <1>6, <1>7, <1>8, InvProcess, InvEnrich DEF Next

LEMMA Invariance == Spec => []IInv
BY InvInit, InvStep, PTL DEF Spec

\* A mark is in exactly one pair of hands, at any number of threads and any
\* queue bound (app.py:431-483).
THEOREM MarksHaveOneHolder == Spec => []OneHolder
<1>1. IInv => OneHolder
  <2> SUFFICES ASSUME IInv, NEW m \in Macs
               PROVE  /\ m \in inflight <=> Holders(m) # {}
                      /\ \A h, g \in Holders(m) : h = g
    BY DEF OneHolder
  <2> DEFINE A == {<<"queue", i>> : i \in {j \in DOMAIN queue : queue[j] = m}}
             B == {<<"worker", w>> : w \in {v \in Scheduling : worker[v].item.mac = m}}
             C == IF enricher # Idle /\ enricher.mac = m THEN {<<"enricher", m>>} ELSE {}
  <2>1. /\ DOMAIN held = Scheduling
        /\ \A w \in Scheduling : held[w] = worker[w].item.mac
        /\ m \in taken <=> C # {}
    BY DEF held, taken
  <2>2. /\ A # {} <=> \E i \in DOMAIN queue : queue[i] = m
        /\ B # {} <=> \E w \in DOMAIN held : held[w] = m
    BY <2>1
  <2>3. Own
    BY DEF IInv
  <2>4. m \in inflight <=> A # {} \/ B # {} \/ C # {}
    BY <2>1, <2>2, <2>3 DEF Own, Owned
  <2>5. /\ \A h, g \in A : h = g
        /\ \A h, g \in B : h = g
        /\ \A h, g \in C : h = g
    BY <2>1, <2>3 DEF Own, Owned
  <2>6. /\ A = {} \/ B = {}
        /\ A = {} \/ C = {}
        /\ B = {} \/ C = {}
    BY <2>1, <2>2, <2>3 DEF Own, Owned
  <2>7. Holders(m) = A \cup B \cup C
    BY DEF Holders
  <2> HIDE DEF A, B, C
  <2> QED
    BY <2>4, <2>5, <2>6, <2>7
<1> QED
  BY <1>1, Invariance, PTL

\* A parked MAC is not asked about before its time, whatever the interleaving
\* of packet workers and enrichment worker (app.py:411-413).
THEOREM ParkedStaysQuiet == Spec => []QuietAfterPark
<1>1. IInv => QuietAfterPark
  BY DEF IInv, Quiet, QuietAfterPark, At, Idle
<1> QED
  BY <1>1, Invariance, PTL

-------------------------------------------------------------------------------
(* Whose vendor is named where.                                            *)

\* v is the vendor of m, or none is known.
Names(m, v) == v \in {m, Unknown}
MayName(m, v) == v \in {m, Unknown, None}

\* Every place a vendor passes through keeps it with the MAC it is of.
CachesTrue == \A m \in Macs : MayName(m, hot[m].vendor) /\ MayName(m, table[m])
LookupsTrue == \A c \in Capturers :
  lookup[c].pc # "idle" => MayName(lookup[c].mac, lookup[c].vendor)
ItemsTrue == \A i \in DOMAIN items : Names(items[i].mac, items[i].vendor)
WorkersTrue == \A w \in PacketWorkers :
  worker[w].pc # "idle" => Names(worker[w].item.mac, worker[w].item.vendor)
EnricherTrue == enricher.pc # "idle" => Names(enricher.mac, enricher.vendor)
BufferTrue == \A ip \in Ips : Names(buffer[ip].mac, buffer[ip].vendor)

SourcesTrue == CachesTrue /\ LookupsTrue /\ ItemsTrue /\ WorkersTrue /\ EnricherTrue /\ BufferTrue
VendorInv == SourcesTrue /\ VendorIsTheMacs

LEMMA EmitTrue ==
  ASSUME TypeOK, ItemsTrue, NEW ip \in Ips, NEW m \in Macs, NEW v, MayName(m, v), Emit(ip, m, v)
  PROVE  ItemsTrue'
<1> DEFINE i == [ip |-> ip, mac |-> m, vendor |-> IF v = None THEN Unknown ELSE v]
<1>1. i \in Item /\ Names(i.mac, i.vendor)
  BY DEF Item, Vendors, Names, MayName
<1>2. items \in Seq(Item)
  BY DEF TypeOK
<1> HIDE DEF i
<1>3. \A k \in DOMAIN Append(items, i) :
        Append(items, i)[k] = i \/ (k \in DOMAIN items /\ Append(items, i)[k] = items[k])
  BY <1>1, <1>2, AppendElements
<1>4. items' = items \/ items' = Append(items, i)
  BY DEF Emit, i
<1>5. CASE items' = items
  BY <1>5 DEF ItemsTrue
<1>6. CASE items' = Append(items, i)
  BY <1>1, <1>3, <1>6 DEF ItemsTrue
<1> QED
  BY <1>4, <1>5, <1>6

\* A capture thread that is done, or that looks on, leaves the others alone.
LEMMA LookupDone ==
  ASSUME lookup \in [Capturers -> Lookup \cup {Idle}], LookupsTrue, NEW c \in Capturers,
         lookup' = [lookup EXCEPT ![c] = Idle]
  PROVE  LookupsTrue'
<1>1. \A d \in Capturers : lookup'[d] = IF d = c THEN Idle ELSE lookup[d]
  OBVIOUS
<1>2. lookup'[c].pc = "idle"
  BY <1>1 DEF Idle
<1>3. \A d \in Capturers \ {c} : lookup'[d] = lookup[d]
  BY <1>1
<1> QED
  BY <1>2, <1>3 DEF LookupsTrue

LEMMA LookupGoesOn ==
  ASSUME lookup \in [Capturers -> Lookup \cup {Idle}], LookupsTrue, NEW c \in Capturers,
         NEW r, MayName(r.mac, r.vendor), lookup' = [lookup EXCEPT ![c] = r]
  PROVE  LookupsTrue'
<1>1. lookup'[c] = r /\ \A d \in Capturers \ {c} : lookup'[d] = lookup[d]
  OBVIOUS
<1> QED
  BY <1>1 DEF LookupsTrue

LEMMA CaptureTrue ==
  ASSUME TypeOK, VendorInv, NEW c \in Capturers, Capture(c)
  PROVE  VendorInv'
<1>0. CachesTrue /\ LookupsTrue /\ ItemsTrue /\ hot \in [Macs -> HotEntry]
      /\ lookup \in [Capturers -> Lookup \cup {Idle}] /\ lookup[c] \in Lookup \cup {Idle}
  BY DEF VendorInv, SourcesTrue, TypeOK
<1>1. UNCHANGED <<table, worker, enricher, store>>
  BY DEF Capture, Frame, HotCheck, TableRead, HotFill, caches, store
<1>2. /\ WorkersTrue' /\ EnricherTrue' /\ BufferTrue' /\ VendorIsTheMacs'
  BY <1>1 DEF VendorInv, SourcesTrue, WorkersTrue, EnricherTrue, BufferTrue, VendorIsTheMacs, store
<1> SUFFICES CachesTrue' /\ LookupsTrue' /\ ItemsTrue'
  BY <1>2 DEF VendorInv, SourcesTrue
<1>3. ASSUME NEW ip \in Ips, NEW m \in Macs, Frame(c, ip, m)
      PROVE  CachesTrue' /\ LookupsTrue' /\ ItemsTrue'
  BY <1>0, <1>3 DEF Frame, CachesTrue, LookupsTrue, ItemsTrue, MayName, caches
<1>4. CASE HotCheck(c)
  <2> DEFINE m == lookup[c].mac
  <2>1. lookup[c] \in Lookup /\ m \in Macs /\ lookup[c].ip \in Ips /\ MayName(m, lookup[c].vendor)
    BY <1>0, <1>4 DEF HotCheck, Lookup, Idle, LookupsTrue
  <2>2. UNCHANGED table
    BY <1>1
  <2>3. CASE hot[m].expiry > now
    <3>1. Emit(lookup[c].ip, m, hot[m].vendor) /\ UNCHANGED hot
          /\ lookup' = [lookup EXCEPT ![c] = Idle]
      BY <1>4, <2>3 DEF HotCheck
    <3>2. MayName(m, hot[m].vendor)
      BY <1>0, <2>1 DEF CachesTrue
    <3>3. ItemsTrue'
      BY <1>0, <2>1, <3>1, <3>2, EmitTrue
    <3>4. LookupsTrue'
      BY <1>0, <3>1, LookupDone
    <3>5. CachesTrue'
      BY <1>0, <2>2, <3>1 DEF CachesTrue
    <3> QED
      BY <3>3, <3>4, <3>5
  <2>4. CASE ~(hot[m].expiry > now)
    <3>1. UNCHANGED items /\ hot' = [hot EXCEPT ![m] = NoEntry]
          /\ lookup' = [lookup EXCEPT ![c].pc = "read"]
      BY <1>4, <2>4 DEF HotCheck
    <3>2. CachesTrue'
      BY <1>0, <2>2, <3>1 DEF CachesTrue, NoEntry, MayName
    <3> DEFINE r == [lookup[c] EXCEPT !.pc = "read"]
    <3>3. lookup' = [lookup EXCEPT ![c] = r] /\ r.mac = m /\ r.vendor = lookup[c].vendor
      BY <1>0, <2>1, <3>1 DEF Lookup
    <3> HIDE DEF r
    <3>4. LookupsTrue'
      BY <1>0, <2>1, <3>3, LookupGoesOn
    <3> QED
      BY <1>0, <3>1, <3>2, <3>4 DEF ItemsTrue
  <2> QED
    BY <2>3, <2>4
<1>5. CASE TableRead(c)
  <2> DEFINE m == lookup[c].mac
  <2>1. lookup[c] \in Lookup /\ m \in Macs /\ lookup[c].ip \in Ips
    BY <1>0, <1>5 DEF TableRead, Lookup, Idle
  <2>2. CachesTrue'
    BY <1>0, <1>5 DEF TableRead, caches, CachesTrue
  <2>3. CASE lookup' = [lookup EXCEPT ![c] = [@ EXCEPT !.pc = "remember", !.vendor = table[m]]]
             /\ UNCHANGED items
    <3> DEFINE r == [lookup[c] EXCEPT !.pc = "remember", !.vendor = table[m]]
    <3>1. lookup' = [lookup EXCEPT ![c] = r] /\ r.mac = m /\ r.vendor = table[m]
      BY <1>0, <2>1, <2>3 DEF Lookup
    <3> HIDE DEF r
    <3>2. MayName(m, table[m])
      BY <1>0, <2>1 DEF CachesTrue
    <3>3. LookupsTrue'
      BY <1>0, <3>1, <3>2, LookupGoesOn
    <3> QED
      BY <1>0, <2>2, <2>3, <3>3 DEF ItemsTrue
  <2>4. CASE Emit(lookup[c].ip, m, None) /\ lookup' = [lookup EXCEPT ![c] = Idle]
    <3>1. MayName(m, None)
      BY DEF MayName
    <3>2. ItemsTrue'
      BY <1>0, <2>1, <2>4, <3>1, EmitTrue
    <3>3. LookupsTrue'
      BY <1>0, <2>4, LookupDone
    <3> QED
      BY <2>2, <3>2, <3>3
  <2> QED
    BY <1>5, <2>3, <2>4 DEF TableRead
<1>6. CASE HotFill(c)
  <2> DEFINE l == lookup[c]
  <2>1. l \in Lookup /\ l.mac \in Macs /\ l.ip \in Ips /\ MayName(l.mac, l.vendor)
    BY <1>0, <1>6 DEF HotFill, Lookup, Idle, LookupsTrue
  <2>2. /\ Emit(l.ip, l.mac, l.vendor) /\ UNCHANGED table
        /\ lookup' = [lookup EXCEPT ![c] = Idle]
    BY <1>6 DEF HotFill
  <2>3. hot'[l.mac].vendor = l.vendor /\ \A m \in Macs \ {l.mac} : hot'[m] = hot[m]
    BY <1>0, <1>6, <2>1 DEF HotFill, Remembered
  <2>4. ItemsTrue'
    BY <1>0, <2>1, <2>2, EmitTrue
  <2>5. CachesTrue'
    BY <1>0, <2>1, <2>2, <2>3 DEF CachesTrue
  <2>6. LookupsTrue'
    BY <1>0, <2>2, LookupDone
  <2> QED
    BY <2>4, <2>5, <2>6
<1> QED
  BY <1>3, <1>4, <1>5, <1>6 DEF Capture

LEMMA ProcessTrue ==
  ASSUME TypeOK, VendorInv, NEW w \in PacketWorkers, Process(w)
  PROVE  VendorInv'
<1>0. /\ CachesTrue /\ LookupsTrue /\ ItemsTrue /\ WorkersTrue /\ EnricherTrue /\ BufferTrue
      /\ VendorIsTheMacs
      /\ worker \in [PacketWorkers -> Worker \cup {Idle}] /\ items \in Seq(Item)
      /\ buffer \in [Ips -> Row \cup {NoRow}]
  BY DEF VendorInv, SourcesTrue, TypeOK
<1>1. UNCHANGED <<hot, table, lookup, enricher, rows, moved>>
  BY DEF Process, TakeItem, Mark, Put, Unmark, Write, caches, store
<1>2. CachesTrue' /\ LookupsTrue' /\ EnricherTrue' /\ VendorIsTheMacs'
  BY <1>0, <1>1 DEF CachesTrue, LookupsTrue, EnricherTrue, VendorIsTheMacs
<1> SUFFICES ItemsTrue' /\ WorkersTrue' /\ BufferTrue'
  BY <1>2 DEF VendorInv, SourcesTrue
<1>3. ASSUME NEW r, r.pc = "idle" \/ Names(r.item.mac, r.item.vendor),
             worker' = [worker EXCEPT ![w] = r]
      PROVE  WorkersTrue'
  <2>1. worker'[w] = r /\ \A v \in PacketWorkers \ {w} : worker'[v] = worker[v]
    BY <1>0, <1>3
  <2> QED
    BY <1>0, <1>3, <2>1 DEF WorkersTrue
<1>4. CASE TakeItem(w)
  <2> DEFINE i == Head(items)
             r == [pc |-> IF i.vendor = Unknown THEN "mark" ELSE "write", item |-> i]
  <2>1. /\ items # << >> /\ items' = Tail(items) /\ UNCHANGED buffer
        /\ worker' = [worker EXCEPT ![w] = r]
    BY <1>4 DEF TakeItem, store
  <2>2. /\ i = items[1] /\ 1 \in DOMAIN items
        /\ \A k \in DOMAIN Tail(items) : k + 1 \in DOMAIN items /\ Tail(items)[k] = items[k + 1]
    BY <1>0, <2>1, HeadTail
  <2>3. Names(i.mac, i.vendor)
    BY <1>0, <2>2 DEF ItemsTrue
  <2>4. ItemsTrue'
    BY <1>0, <2>1, <2>2 DEF ItemsTrue
  <2>5. r.item = i
    OBVIOUS
  <2> HIDE DEF r
  <2>6. WorkersTrue'
    BY <1>3, <2>1, <2>3, <2>5
  <2> QED
    BY <1>0, <2>1, <2>4, <2>6 DEF BufferTrue
<1>5. CASE Mark(w) \/ Put(w) \/ Unmark(w)
  <2>1. UNCHANGED <<items, buffer>>
    BY <1>5 DEF Mark, Put, Unmark, store
  <2>2. PICK p \in {"put", "write", "unmark"} : worker' = [worker EXCEPT ![w].pc = p]
    BY <1>5 DEF Mark, Put, Unmark
  <2>3. worker[w] \in Worker /\ worker[w].pc # "idle"
    BY <1>0, <1>5 DEF Mark, Put, Unmark, Idle
  <2> DEFINE r == [worker[w] EXCEPT !.pc = p]
  <2>4. worker' = [worker EXCEPT ![w] = r] /\ r.item = worker[w].item
    BY <1>0, <2>2, <2>3 DEF Worker
  <2> HIDE DEF r
  <2>5. Names(r.item.mac, r.item.vendor)
    BY <1>0, <2>3, <2>4 DEF WorkersTrue
  <2>6. WorkersTrue'
    BY <1>3, <2>4, <2>5
  <2> QED
    BY <1>0, <2>1, <2>6 DEF ItemsTrue, BufferTrue
<1>6. CASE Write(w)
  <2> DEFINE i == worker[w].item
             e == [mac |-> i.mac, vendor |-> i.vendor]
  <2>1. /\ UNCHANGED items /\ worker' = [worker EXCEPT ![w] = Idle]
        /\ UNCHANGED buffer \/ buffer' = [buffer EXCEPT ![i.ip] = e]
    BY <1>6 DEF Write
  <2>2. Idle.pc = "idle"
    BY DEF Idle
  <2>3. WorkersTrue'
    BY <1>3, <2>1, <2>2
  <2>4. Names(e.mac, e.vendor)
    BY <1>0, <1>6 DEF Write, WorkersTrue
  <2> HIDE DEF e, i
  <2>5. \A ip \in Ips : buffer'[ip] = buffer[ip] \/ buffer'[ip] = e
    BY <1>0, <2>1
  <2>6. BufferTrue'
    BY <1>0, <2>4, <2>5 DEF BufferTrue
  <2> QED
    BY <1>0, <2>1, <2>3, <2>6 DEF ItemsTrue
<1> QED
  BY <1>4, <1>5, <1>6 DEF Process

LEMMA EnrichTrue ==
  ASSUME TypeOK, VendorInv, Enrich
  PROVE  VendorInv'
<1>0. /\ CachesTrue /\ LookupsTrue /\ ItemsTrue /\ WorkersTrue /\ EnricherTrue /\ BufferTrue
      /\ VendorIsTheMacs
      /\ enricher \in Enricher \cup {Idle} /\ rows \in [Ips -> Row \cup {NoRow}]
      /\ hot \in [Macs -> HotEntry] /\ table \in [Macs -> Vendors \cup {None}]
      /\ queue \in Seq(Macs)
  BY DEF VendorInv, SourcesTrue, TypeOK
<1>1. UNCHANGED <<lookup, items, worker, buffer, moved>>
  BY DEF Enrich, Take, Cached, Ask, Learn, Save, Remember, Update, Park, Discard, pipeline, store
<1>2. LookupsTrue' /\ ItemsTrue' /\ WorkersTrue' /\ BufferTrue'
  BY <1>0, <1>1 DEF LookupsTrue, ItemsTrue, WorkersTrue, BufferTrue
<1> SUFFICES CachesTrue' /\ EnricherTrue' /\ VendorIsTheMacs'
  BY <1>2 DEF VendorInv, SourcesTrue
<1> DEFINE m == enricher.mac
<1>3. ASSUME enricher.pc # "idle"
      PROVE  /\ enricher \in Enricher /\ m \in Macs /\ Names(m, enricher.vendor)
             /\ MayName(m, table[m])
  <2>1. enricher \in Enricher
    BY <1>0, <1>3 DEF Idle
  <2> QED
    BY <1>0, <1>3, <2>1 DEF Enricher, EnricherTrue, CachesTrue
<1>4. ASSUME NEW p, enricher \in Enricher, Names(m, enricher.vendor), Goto(p)
      PROVE  EnricherTrue'
  <2>1. enricher'.mac = m /\ enricher'.vendor = enricher.vendor
    BY <1>4 DEF Goto, Enricher
  <2> QED
    BY <1>4, <2>1 DEF EnricherTrue
<1>5. ASSUME NEW p, NEW v, enricher \in Enricher, Names(m, v), Answer(p, v)
      PROVE  EnricherTrue'
  <2>1. enricher'.mac = m /\ enricher'.vendor = v
    BY <1>5 DEF Answer, Enricher
  <2> QED
    BY <1>5, <2>1 DEF EnricherTrue
<1>6. ASSUME UNCHANGED <<hot, table>> PROVE CachesTrue'
  BY <1>0, <1>6 DEF CachesTrue
<1>7. ASSUME UNCHANGED <<rows, moved>> PROVE VendorIsTheMacs'
  BY <1>0, <1>7 DEF VendorIsTheMacs
<1>8. CASE Take
  <2>1. UNCHANGED <<hot, table, rows, moved>> /\ enricher'.vendor = Unknown
    BY <1>8 DEF Take, caches, store
  <2> QED
    BY <1>6, <1>7, <2>1 DEF EnricherTrue, Names
<1>9. CASE Cached \/ Ask
  <2>1. UNCHANGED <<hot, table, rows, moved>> /\ enricher.pc # "idle"
    BY <1>9 DEF Cached, Ask, caches, store, At
  <2>2. EnricherTrue'
    <3>1. CASE Cached
      <4>1. \/ Goto("ask") \/ Goto("park")
            \/ table[m] \in Macs /\ Answer("remember", table[m])
        BY <3>1 DEF Cached
      <4>2. table[m] \in Macs => Names(m, table[m])
        BY <1>3, <2>1 DEF MayName, Names
      <4> QED
        BY <1>3, <1>4, <1>5, <2>1, <4>1, <4>2
    <3>2. CASE Ask
      <4>1. Names(m, m) /\ Names(m, Unknown)
        BY DEF Names
      <4>2. Answer("learn", m) \/ Answer("save", Unknown) \/ Goto("park") \/ Goto("discard")
        BY <3>2 DEF Ask
      <4> QED
        BY <1>3, <1>4, <1>5, <2>1, <4>1, <4>2
    <3> QED
      BY <1>9, <3>1, <3>2
  <2> QED
    BY <1>6, <1>7, <2>1, <2>2
<1>10. CASE Learn \/ Remember
  <2>1. /\ enricher.pc # "idle" /\ UNCHANGED <<table, rows, moved>>
        /\ hot' = Remembered(m, enricher.vendor, HotTTL)
        /\ Goto("save") \/ Goto("update")
    BY <1>10 DEF Learn, Remember, store, At
  <2>2. hot'[m].vendor = enricher.vendor /\ \A k \in Macs \ {m} : hot'[k] = hot[k]
    BY <1>0, <1>3, <2>1 DEF Remembered
  <2>3. MayName(m, enricher.vendor)
    BY <1>3, <2>1 DEF Names, MayName
  <2>4. CachesTrue'
    BY <1>0, <2>1, <2>2, <2>3 DEF CachesTrue
  <2> QED
    BY <1>3, <1>4, <1>7, <2>1, <2>4
<1>11. CASE Save
  <2>1. /\ enricher.pc # "idle" /\ UNCHANGED <<hot, rows, moved>>
        /\ UNCHANGED table \/ table' = [table EXCEPT ![m] = enricher.vendor]
        /\ \E p : Goto(p)
    BY <1>11 DEF Save, store, At
  <2>2. MayName(m, enricher.vendor)
    BY <1>3, <2>1 DEF Names, MayName
  <2>3. \A k \in Macs : table'[k] = table[k] \/ (k = m /\ table'[k] = enricher.vendor)
    BY <1>0, <2>1
  <2>4. CachesTrue'
    BY <1>0, <2>1, <2>2, <2>3 DEF CachesTrue
  <2> QED
    BY <1>3, <1>4, <1>7, <2>1, <2>4
<1>12. CASE Update
  <2>1. /\ enricher.pc # "idle" /\ UNCHANGED <<hot, table, moved>> /\ Goto("discard")
        /\ \/ rows' = [ip \in Ips |-> IF Patches(rows[ip], m)
                                      THEN [rows[ip] EXCEPT !.vendor = enricher.vendor] ELSE rows[ip]]
           \/ UNCHANGED rows
    BY <1>12, <1>1 DEF Update, caches, At
  <2>2. ASSUME NEW ip \in Ips, Misnamed(rows[ip])'
        PROVE  ip \in moved'
    <3>1. CASE rows'[ip] = rows[ip]
      BY <1>0, <2>1, <2>2, <3>1 DEF VendorIsTheMacs, Misnamed
    <3>2. CASE rows'[ip] # rows[ip]
      <4>1. Patches(rows[ip], m) /\ rows'[ip] = [rows[ip] EXCEPT !.vendor = enricher.vendor]
        BY <2>1, <3>2
      <4>2. rows[ip].mac = m /\ rows[ip] \in Row
        BY <1>0, <1>3, <2>1, <4>1 DEF Patches, NoRow
      <4>3. rows'[ip].mac = m /\ rows'[ip].vendor = enricher.vendor
        BY <4>1, <4>2 DEF Row
      <4> QED
        BY <1>3, <2>1, <2>2, <4>3 DEF Names, Misnamed
    <3> QED
      BY <3>1, <3>2
  <2>3. VendorIsTheMacs'
    BY <2>2 DEF VendorIsTheMacs
  <2> QED
    BY <1>3, <1>4, <1>6, <2>1, <2>3
<1>13. CASE Park
  <2>1. enricher.pc # "idle" /\ UNCHANGED <<hot, table, rows, moved>> /\ Goto("discard")
    BY <1>13 DEF Park, store, At
  <2> QED
    BY <1>3, <1>4, <1>6, <1>7, <2>1
<1>14. CASE Discard
  <2>1. enricher' = Idle /\ UNCHANGED <<hot, table, rows, moved>>
    BY <1>14 DEF Discard, caches, store
  <2> QED
    BY <1>6, <1>7, <2>1 DEF EnricherTrue, Idle
<1> QED
  BY <1>8, <1>9, <1>10, <1>11, <1>12, <1>13, <1>14 DEF Enrich

LEMMA FlushTrue ==
  ASSUME TypeOK, VendorInv, NEW ip \in Ips, Flush(ip)
  PROVE  VendorInv'
<1>0. /\ CachesTrue /\ LookupsTrue /\ ItemsTrue /\ WorkersTrue /\ EnricherTrue /\ BufferTrue
      /\ VendorIsTheMacs /\ moved \subseteq Ips
      /\ buffer \in [Ips -> Row \cup {NoRow}] /\ rows \in [Ips -> Row \cup {NoRow}]
  BY DEF VendorInv, SourcesTrue, TypeOK
<1>1. UNCHANGED <<hot, table, lookup, items, worker, enricher>>
  BY DEF Flush, caches, pipeline
<1>2. CachesTrue' /\ LookupsTrue' /\ ItemsTrue' /\ WorkersTrue' /\ EnricherTrue'
  BY <1>0, <1>1 DEF CachesTrue, LookupsTrue, ItemsTrue, WorkersTrue, EnricherTrue
<1>3. BufferTrue'
  <2>1. \A k \in Ips : buffer'[k] = buffer[k] \/ buffer'[k] = NoRow
    BY <1>0 DEF Flush
  <2> QED
    BY <1>0, <2>1 DEF BufferTrue, NoRow, Names
<1>4. CASE UNCHANGED <<rows, moved>>
  BY <1>0, <1>2, <1>3, <1>4 DEF VendorInv, SourcesTrue, VendorIsTheMacs
<1>5. CASE ~UNCHANGED <<rows, moved>>
  <2> DEFINE e == buffer[ip]
             old == rows[ip]
             row == Upsert(old, e)
  <2>1. /\ rows' = [rows EXCEPT ![ip] = row]
        /\ moved' = IF e.vendor = Unknown /\ row.mac # old.mac /\ Misnamed(row)
                    THEN moved \cup {ip}
                    ELSE IF Misnamed(row) THEN moved ELSE moved \ {ip}
    BY <1>5 DEF Flush
  <2>2. row.mac = e.mac /\ row.vendor = IF e.vendor # Unknown THEN e.vendor ELSE old.vendor
    BY DEF Upsert
  <2>3. Names(e.mac, e.vendor)
    BY <1>0 DEF BufferTrue
  <2>4. Misnamed(row) => e.vendor = Unknown /\ row.vendor = old.vendor
    BY <2>2, <2>3 DEF Misnamed, Names
  <2>5. Misnamed(old) => ip \in moved
    BY <1>0 DEF VendorIsTheMacs
  <2> HIDE DEF row, e
  <2>6. Misnamed(row) => ip \in moved'
    <3> SUFFICES ASSUME Misnamed(row)
                 PROVE  ip \in moved'
      OBVIOUS
    <3>1. CASE row.mac = old.mac
      <4>1. Misnamed(old)
        BY <2>4, <3>1 DEF Misnamed
      <4> QED
        BY <2>1, <2>5, <3>1, <4>1
    <3>2. CASE row.mac # old.mac
      BY <2>1, <2>4, <3>2
    <3> QED
      BY <3>1, <3>2
  <2>7. rows'[ip] = row /\ \A k \in Ips \ {ip} : rows'[k] = rows[k] /\ (k \in moved <=> k \in moved')
    BY <1>0, <2>1
  <2>8. VendorIsTheMacs'
    BY <1>0, <2>6, <2>7 DEF VendorIsTheMacs, Misnamed
  <2> QED
    BY <1>2, <1>3, <2>8 DEF VendorInv, SourcesTrue
<1> QED
  BY <1>4, <1>5

LEMMA VendorStep == TypeOK /\ VendorInv /\ [Next]_vars => VendorInv'
<1> SUFFICES ASSUME TypeOK, VendorInv, [Next]_vars
             PROVE  VendorInv'
  OBVIOUS
<1>1. CASE UNCHANGED <<hot, table, lookup, items, worker, enricher, buffer, rows, moved>>
  BY <1>1 DEF VendorInv, SourcesTrue, CachesTrue, LookupsTrue, ItemsTrue, WorkersTrue,
              EnricherTrue, BufferTrue, VendorIsTheMacs
<1>2. CASE Tick \/ UNCHANGED vars
  BY <1>1, <1>2 DEF Tick, vars, caches, pipeline, store
<1>3. ASSUME NEW ip \in Ips, NEW m \in Macs, FrameUnresolved(ip, m)
      PROVE  VendorInv'
  <2>1. Emit(ip, m, Unknown) /\ UNCHANGED <<hot, table, lookup, worker, enricher, buffer, rows, moved>>
    BY <1>3 DEF FrameUnresolved, caches, store
  <2>2. ItemsTrue'
    <3>1. ItemsTrue /\ MayName(m, Unknown)
      BY DEF VendorInv, SourcesTrue, MayName
    <3> QED
      BY <2>1, <3>1, EmitTrue
  <2> QED
    BY <2>1, <2>2 DEF VendorInv, SourcesTrue, CachesTrue, LookupsTrue, WorkersTrue,
                      EnricherTrue, BufferTrue, VendorIsTheMacs
<1> QED
  BY <1>2, <1>3, CaptureTrue, ProcessTrue, EnrichTrue, FlushTrue DEF Next

\* A row names its own MAC's vendor, but for one that a placeholder write moved to
\* another MAC, however lookups, lost marks, failed writes and flushes interleave
\* (app.py:464-469, 2139-2141).
THEOREM VendorStaysWithMac == Spec => []VendorIsTheMacs
<1>1. Init => VendorInv
  BY DEF Init, VendorInv, SourcesTrue, CachesTrue, LookupsTrue, ItemsTrue, WorkersTrue,
         EnricherTrue, BufferTrue, VendorIsTheMacs, NoEntry, NoRow, Idle, Names, MayName, Misnamed
<1>2. VendorInv => VendorIsTheMacs
  BY DEF VendorInv
<1> QED
  BY <1>1, <1>2, TypeCorrect, VendorStep, PTL DEF Spec
===============================================================================
