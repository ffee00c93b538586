---------------------------- MODULE FritzCapture ----------------------------
(***************************************************************************)
(* The FritzDump source: the hub's fritzdump_reader thread starts, watches *)
(* and stops a capture worker and tails the capture files the worker       *)
(* writes (PcapTailReader, FritzDumpSource).  A worker is a process tree:  *)
(* its leader run.sh, which is all the hub watches, and the captures it    *)
(* started, which are in its process group and may outlive it.             *)
(*                                                                         *)
(* Abstractions.  A file is a sequence of cells: the global header "G",    *)
(* then for each record a header "H", which knows how many cells of body   *)
(* "B" follow.  Offsets count cells, so a half-written header is a header  *)
(* not written.  A cell that is no record header, read as one, holds any   *)
(* length.  Files that are not classic pcap and frames scapy cannot decode *)
(* are left out, as is what happens to a packet after queue.put            *)
(* (PacketQueue).  A launch is a choice: the back-off after an early end,  *)
(* whose clock is not kept, or Popen may put it off.                       *)
(* SpanCut and the other variants beside a definition are faults no        *)
(* specification uses.                                                     *)
(***************************************************************************)
EXTENDS Naturals, FiniteSets, Sequences, FiniteSetsExt

CONSTANTS
  Files,       \* capture file paths under FRITZDUMP_DIR
  Procs,       \* process trees a worker can be
  NoProc,      \* no worker: _fritzdump_worker is None
  Bodies,      \* body lengths of a record, in cells
  MaxPackets,  \* max_packets of read_new
  Budget,      \* byte_budget of read_new, in cells
  MaxRecords,  \* model bound: records in a file
  MaxFaults    \* model bound: rotations, removals, failed listings, ends of the hub

\* byte_budget (8 MiB) exceeds the largest record read (_MAX_SNAPLEN, 256 KiB).
ASSUME FritzCaptureAssumption ==
  /\ NoProc \notin Procs
  /\ Bodies \subseteq Nat \ {0} /\ IsFiniteSet(Bodies)
  /\ MaxPackets \in Nat \ {0} /\ Budget \in Nat
  /\ \A n \in Bodies : n < Budget
  /\ MaxRecords \in Nat /\ MaxFaults \in Nat

VARIABLES
  there,     \* the files that exist
  disk,      \* their cells
  offset,    \* offset of each file's reader, 0 with none or with no header read
  pc,        \* where the reader's loop is
  todo,      \* the files this poll has still to read
  stopped,   \* device_is_disabled(FRITZDUMP_DEVICE_ID)
  handle,    \* _fritzdump_worker
  target,    \* the worker the exit handler has sent SIGTERM and waits for, or NoProc
  procs,     \* the workers of which any process is running
  leads,     \* those whose leader is running
  hub,       \* the hub process: up, in its atexit cleanup, or down
  faults,    \* counter for the model bound
  got, bad, doubt,      \* history: see Read
  lost                  \* history: leaders whose hub ended, or failed to kill them

files == <<there, disk>>
reader == <<offset, pc, todo>>
trees == <<procs, leads, lost>>
worker == <<stopped, handle, target, hub, trees>>
history == <<got, bad, doubt>>
vars == <<files, reader, worker, faults, history>>

Cell == [kind: {"G", "H", "B"}, left: Nat, rec: Nat]
Doubts == {"stale", "strayed", "forgotten"}

TypeOK ==
  /\ there \subseteq Files
  /\ disk \in [Files -> Seq(Cell)]
  /\ offset \in [Files -> Nat]
  /\ \A f \in Files : "stale" \notin doubt[f] => offset[f] <= Len(disk[f])
  /\ pc \in {"check", "wait", "manage", "list", "read", "gone"}
  /\ todo \subseteq Files /\ (pc # "read" => todo = {})
  /\ stopped \in BOOLEAN
  /\ handle \in Procs \cup {NoProc} /\ target \in Procs \cup {NoProc}
  /\ procs \subseteq Procs /\ leads \subseteq procs /\ lost \subseteq leads
  /\ hub \in {"up", "closing", "down"}
  /\ faults \in 0..MaxFaults
  /\ got \in [Files -> Nat] /\ bad \in [Files -> BOOLEAN]
  /\ doubt \in [Files -> SUBSET Doubts]

Init ==
  /\ there = {} /\ disk = [f \in Files |-> <<>>]
  /\ offset = [f \in Files |-> 0] /\ pc = "check" /\ todo = {}
  /\ stopped \in BOOLEAN /\ handle = NoProc /\ target = NoProc
  /\ procs = {} /\ leads = {} /\ lost = {} /\ hub = "up"
  /\ faults = 0
  /\ got = [f \in Files |-> 0] /\ bad = [f \in Files |-> FALSE]
  /\ doubt = [f \in Files |-> {}]

-------------------------------------------------------------------------------
(* The capture files, as the worker writes them (external).                *)

NextCells(s) ==
  LET c == s[Len(s)] IN
  IF s = <<>> THEN {[kind |-> "G", left |-> 0, rec |-> 0]}
  ELSE IF c.left > 0 THEN {[kind |-> "B", left |-> c.left - 1, rec |-> c.rec]}
  ELSE {[kind |-> "H", left |-> n, rec |-> c.rec + 1] : n \in Bodies}

Grow(f) ==
  /\ procs # {}
  /\ there' = there \cup {f}
  /\ \E c \in NextCells(disk[f]) : /\ c.rec <= MaxRecords
                                   /\ disk' = [disk EXCEPT ![f] = Append(@, c)]
  /\ UNCHANGED <<reader, worker, faults, history>>

\* A new generation begins at the start of the file, or the file goes.
Rotate(f) ==
  /\ disk[f] # <<>> /\ faults < MaxFaults
  /\ faults' = faults + 1
  /\ disk' = [disk EXCEPT ![f] = <<>>]
  /\ there' \in {there, there \ {f}}
  /\ got' = [got EXCEPT ![f] = 0] /\ bad' = [bad EXCEPT ![f] = FALSE]
  /\ doubt' = [doubt EXCEPT ![f] = IF offset[f] = 0 THEN {} ELSE (@ \cup {"stale"}) \ {"forgotten"}]
  /\ UNCHANGED <<reader, worker>>

-------------------------------------------------------------------------------
(* FritzDumpSource.poll and PcapTailReader.read_new.                       *)

\* Files not listed lose their reader: they vanished, or os.walk met an error,
\* which it swallows.
Forget(present) ==
  /\ offset' = [f \in Files |-> IF f \in present THEN offset[f] ELSE 0]
  /\ doubt' = [f \in Files |->
        IF f \in present THEN doubt[f]
        ELSE IF f \in there /\ offset[f] # 0 THEN {"forgotten"}
        ELSE doubt[f] \ {"stale", "strayed"}]

List ==
  /\ pc = "list"
  /\ \E present \in SUBSET there :
       /\ IF present = there THEN UNCHANGED faults
                             ELSE faults < MaxFaults /\ faults' = faults + 1
       /\ todo' = present
       /\ pc' = IF present = {} THEN "check" ELSE "read"
       /\ Forget(present)
  /\ UNCHANGED <<files, worker, got, bad>>

\* The dump directory itself is missing: the poll is skipped, readers stay.
NoDirectory ==
  /\ pc = "list" /\ there = {}
  /\ pc' = "check"
  /\ UNCHANGED <<files, offset, todo, worker, faults, history>>

\* What one read returns, from a cell on.
WindowShort(f, from) == SubSeq(disk[f], from + 1, Min({Len(disk[f]), from + Budget - 1}))
Window(f, from) == SubSeq(disk[f], from + 1, Min({Len(disk[f]), from + Budget}))

\* The walk over the data read: a complete record ends where its header says; a
\* cell read as a header that is none may end anywhere.
SpanCut(data, p) == Min({p + 1 + data[p + 1].left, Len(data)})
Span(data, p) == p + 1 + data[p + 1].left
Header(data, p) == data[p + 1].kind = "H"

Starts(cuts) == ({0} \cup cuts) \ {Max({0} \cup cuts)}
Walk(data, cuts) ==
  LET last == Max({0} \cup cuts) IN
  /\ Cardinality(cuts) <= MaxPackets
  /\ \A p \in Starts(cuts) :
       Header(data, p) => Span(data, p) = Min({q \in cuts : q > p})
  /\ \/ Cardinality(cuts) = MaxPackets
     \/ last = Len(data)
     \/ Header(data, last) => Span(data, last) > Len(data)

\* History: how many records of this generation were handed on, whether anything
\* but the next one was, and why that may be: the offset is of an earlier
\* generation ("stale") and was used ("strayed"), or the reader was forgotten.
Hand(f, heads) ==
  LET recs == {h.rec : h \in {c \in heads : c.kind = "H"}} IN
  /\ got' = [got EXCEPT ![f] = Max({@} \cup recs)]
  /\ bad' = [bad EXCEPT ![f] = @ \/ (\E h \in heads : h.kind # "H")
                                 \/ recs # (got[f] + 1)..(got[f] + Cardinality(heads))]

\* The file shrank below the offset: it starts again.
ShrankUnseen(f) == FALSE
Shrank(f) == Len(disk[f]) < offset[f]

Read(f) ==
  LET base == IF Shrank(f) THEN 0 ELSE offset[f]
      from == IF base = 0 THEN 1 ELSE base
      data == Window(f, from)
  IN
  /\ pc = "read" /\ f \in todo
  /\ todo' = todo \ {f}
  /\ pc' = IF todo = {f} THEN "check" ELSE "read"
  /\ IF f \notin there THEN UNCHANGED <<offset, history>>
     ELSE /\ doubt' = [doubt EXCEPT ![f] =
                IF Len(disk[f]) < offset[f] THEN @ \ {"stale", "strayed"}
                ELSE IF "stale" \in @ THEN @ \cup {"strayed"} ELSE @]
          /\ IF Len(disk[f]) < from
             THEN offset' = [offset EXCEPT ![f] = base] /\ UNCHANGED <<got, bad>>
             ELSE \E cuts \in {s \in SUBSET (1..Len(data)) : Walk(data, s)} :
                    /\ offset' = [offset EXCEPT ![f] = from + Max({0} \cup cuts)]
                    /\ Hand(f, {data[p + 1] : p \in Starts(cuts)})
  /\ UNCHANGED <<files, worker, faults>>

-------------------------------------------------------------------------------
(* fritzdump_reader: the worker's life.                                    *)

\* _terminate_fritzdump_worker: SIGTERM to the group, which its processes end on in
\* their own time (LeaderEnds, TreeEnds) or not; then at most five seconds for the
\* leader alone, and SIGKILL to the group only if it is still there.
NotKilled(ps, p) == ps
Killed(ps, p) == ps \ {p}

Kill(p) ==
  /\ procs' = Killed(procs, p) /\ leads' = Killed(leads, p) /\ lost' = Killed(lost, p)

\* The device is stopped: its worker is signalled, or that raises; reading pauses.
Dropped == handle' = NoProc /\ pc' = "check"

Pause ==
  /\ pc = "check" /\ stopped /\ handle # NoProc
  /\ \/ pc' = "wait" /\ UNCHANGED <<handle, trees>>
     \/ /\ Dropped
        /\ lost' = lost \cup ({handle} \cap leads) /\ UNCHANGED <<procs, leads>>
  /\ UNCHANGED <<files, offset, todo, stopped, target, hub, faults, history>>

\* The wait is over.  The handle is dropped in every case: what the leader left
\* behind is not looked for, a kill that fails is only logged.
Stop ==
  /\ pc = "wait" /\ Dropped
  /\ \/ handle \notin leads /\ UNCHANGED trees
     \/ handle \in leads /\ Kill(handle)
     \/ handle \in leads /\ lost' = lost \cup {handle} /\ UNCHANGED <<procs, leads>>
  /\ UNCHANGED <<files, offset, todo, stopped, target, hub, faults, history>>

Resume ==
  /\ pc = "check" /\ ~stopped
  /\ pc' = "manage"
  /\ UNCHANGED <<files, offset, todo, worker, faults, history>>

\* poll() of the handle: it sees the leader only.
EndedAnyway == handle # NoProc
Ended == handle # NoProc /\ handle \notin leads

\* _spawn_fritzdump_worker: a new process group.  Which free name it is given does not
\* matter.
Launch ==
  LET free == Procs \ (procs \cup {target})
      p == CHOOSE q \in free : TRUE
  IN  /\ free # {}
      /\ handle' = p /\ procs' = procs \cup {p} /\ leads' = leads \cup {p}

\* No worker: one is launched, or not.  A worker whose leader ended is dropped as it
\* is.
Manage ==
  /\ pc = "manage"
  /\ \/ handle = NoProc /\ Launch
     \/ handle = NoProc /\ UNCHANGED <<handle, procs, leads>>
     \/ Ended /\ handle' = NoProc /\ UNCHANGED <<procs, leads>>
     \/ ~Ended /\ handle # NoProc /\ UNCHANGED <<handle, procs, leads>>
  /\ pc' = "list"
  /\ UNCHANGED <<files, offset, todo, stopped, target, hub, lost, faults, history>>

\* The leader ends by itself or on a signal, its captures running on; or nothing of
\* the worker is left.
LeaderEnds(p) ==
  /\ p \in leads
  /\ leads' = leads \ {p} /\ lost' = lost \ {p}
  /\ UNCHANGED <<files, reader, stopped, handle, target, hub, procs, faults, history>>

TreeEnds(p) ==
  /\ p \in procs
  /\ procs' = procs \ {p} /\ leads' = leads \ {p} /\ lost' = lost \ {p}
  /\ UNCHANGED <<files, reader, stopped, handle, target, hub, faults, history>>

\* The operator presses Start or Stop.
Press ==
  /\ hub = "up"
  /\ stopped' = ~stopped
  /\ UNCHANGED <<files, reader, handle, target, hub, trees, faults, history>>

\* cleanup, at exit, ends the worker the same way: the reader is a daemon thread and
\* still runs.
Cleanup ==
  /\ hub = "up" /\ faults < MaxFaults
  /\ hub' = "closing" /\ target' = handle /\ faults' = faults + 1
  /\ UNCHANGED <<files, reader, stopped, handle, trees, history>>

\* Its wait is over: SIGKILL if the leader is still there, or that fails.
CleanupStop ==
  /\ target # NoProc /\ target' = NoProc
  /\ \/ UNCHANGED trees
     \/ target \in leads /\ Kill(target)
  /\ UNCHANGED <<files, reader, stopped, handle, hub, faults, history>>

\* The process is gone, after its cleanup or without it.
HubEnds ==
  /\ \/ hub = "up" /\ faults < MaxFaults /\ faults' = faults + 1
     \/ hub = "closing" /\ UNCHANGED faults
  /\ hub' = "down" /\ pc' = "gone" /\ todo' = {}
  /\ handle' = NoProc /\ target' = NoProc
  /\ lost' = leads
  /\ UNCHANGED <<files, offset, stopped, procs, leads, history>>

\* A new one starts, with no reader of any file.
HubStarts ==
  /\ hub = "down"
  /\ hub' = "up" /\ pc' = "check"
  /\ Forget({})
  /\ UNCHANGED <<files, todo, stopped, handle, target, trees, faults, got, bad>>

ReaderStep ==
  \/ Pause \/ Stop \/ Resume \/ Manage \/ List \/ NoDirectory
  \/ \E f \in Files : Read(f)

Next ==
  \/ ReaderStep
  \/ \E f \in Files : Grow(f) \/ Rotate(f)
  \/ \E p \in Procs : LeaderEnds(p) \/ TreeEnds(p)
  \/ Press \/ Cleanup \/ CleanupStop \/ HubEnds \/ HubStarts

Spec == Init /\ [][Next]_vars

\* The reader's loop runs and catches every exception; nobody else owes a step.
FairSpec == Spec /\ WF_vars(ReaderStep)

-------------------------------------------------------------------------------
(* Properties.                                                             *)

\* "yielding only complete records and leaving a half-written trailing record for
\* the next poll" (capture_sources): of each generation of a file the packets handed
\* on are its records, whole, once and in order, unless the reader was forgotten (a
\* restart, a failed listing) or used an offset of an earlier generation.
OnceInOrder == \A f \in Files : bad[f] => doubt[f] \cap {"strayed", "forgotten"} # {}

\* A worker of this hub whose leader runs is the one it holds, so it never runs two
\* leaders nor loses one it could still stop, but for one whose killing failed (and
\* beside those of an earlier hub).  No more than that: the captures of a leader that
\* ended by itself, or of one that SIGTERM ended, are not looked for, and may run
\* beside the next worker's, although the group is there to "kill the whole tree"
\* (app.py:3212-3213).
OneWorker == leads \ lost \subseteq {handle}

\* "On Stop, the worker is killed" (fritzdump_reader): while the device stays
\* stopped no leader of this hub goes on running, but one whose killing failed.
StopKillsWorker == <>[](stopped /\ hub = "up") => <>[](leads \subseteq lost)

\* While the device stays started every complete record on disk is read, through
\* the listings that failed and the rotations the reader could see.  A record longer
\* than _MAX_SNAPLEN is none of the model's: read_new never gets past one.
Complete(f) ==
  {disk[f][i].rec : i \in {j \in DOMAIN disk[f] : disk[f][j].kind = "B" /\ disk[f][j].left = 0}}
AllRead ==
  <>[](~stopped /\ hub = "up") =>
    \A f \in Files : <>[]("strayed" \in doubt[f] \/ \A r \in Complete(f) : r <= got[f])
==============================================================================
