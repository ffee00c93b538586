------------------------- MODULE FritzCaptureProofs -------------------------
(***************************************************************************)
(* The worker's life and what the tail reader hands on, proved for any     *)
(* files, process ids, record lengths and bounds.                          *)
(***************************************************************************)
EXTENDS FritzCapture, FiniteSetTheorems, WellFoundedInduction, TLAPS

\* What the worker's variables may hold.
WorkerTypeOK ==
  /\ procs \subseteq Procs /\ leads \subseteq procs /\ lost \subseteq leads
  /\ handle \in Procs \cup {NoProc} /\ target \in Procs \cup {NoProc}

\* A step of the reader's loop over the files, of a file or of a listing leaves
\* the worker alone.
LEMMA FileStepsKeepWorker ==
  ASSUME (\E f \in Files : Read(f) \/ Grow(f) \/ Rotate(f)) \/ Resume \/ List \/ NoDirectory
  PROVE  UNCHANGED worker
  BY DEF Read, Grow, Rotate, Resume, List, NoDirectory

LEMMA WorkerTypeInductive ==
  ASSUME WorkerTypeOK, [Next]_vars
  PROVE  WorkerTypeOK'
  <1>1. CASE UNCHANGED vars
    BY <1>1 DEF WorkerTypeOK, vars, worker, trees
  <1>2. CASE (\E f \in Files : Read(f) \/ Grow(f) \/ Rotate(f)) \/ Resume \/ List \/ NoDirectory
    BY <1>2, FileStepsKeepWorker DEF WorkerTypeOK, worker, trees
  <1>3. CASE Pause
    BY <1>3 DEF Pause, Dropped, trees, WorkerTypeOK
  <1>4. CASE Stop
    BY <1>4 DEF Stop, Dropped, Kill, Killed, trees, WorkerTypeOK
  <1>5. CASE Manage
    <2>1. CASE UNCHANGED <<procs, leads>>
      BY <1>5, <2>1 DEF Manage, Launch, WorkerTypeOK
    <2>2. CASE ~UNCHANGED <<procs, leads>>
      <3>1. PICK p \in Procs : handle' = p /\ procs' = procs \cup {p} /\ leads' = leads \cup {p}
        BY <1>5, <2>2 DEF Manage, Launch
      <3> QED
        BY <1>5, <3>1 DEF Manage, Launch, WorkerTypeOK
    <2> QED
      BY <2>1, <2>2
  <1>6. CASE \E p \in Procs : LeaderEnds(p) \/ TreeEnds(p)
    BY <1>6 DEF LeaderEnds, TreeEnds, WorkerTypeOK
  <1>7. CASE Press \/ HubStarts
    BY <1>7 DEF Press, HubStarts, trees, WorkerTypeOK
  <1>8. CASE Cleanup \/ HubEnds
    BY <1>8 DEF Cleanup, HubEnds, trees, WorkerTypeOK
  <1>9. CASE CleanupStop
    BY <1>9 DEF CleanupStop, Kill, Killed, trees, WorkerTypeOK
  <1> QED
    BY <1>1, <1>2, <1>3, <1>4, <1>5, <1>6, <1>7, <1>8, <1>9 DEF Next, ReaderStep

\* OneWorker needs the type only to know that no process is NoProc, the handle of
\* a hub that holds none.
LEMMA OneWorkerInductive ==
  ASSUME WorkerTypeOK, OneWorker, [Next]_vars
  PROVE  OneWorker'
  <1>1. CASE UNCHANGED vars
    BY <1>1 DEF OneWorker, vars, worker, trees
  <1>2. CASE (\E f \in Files : Read(f) \/ Grow(f) \/ Rotate(f)) \/ Resume \/ List \/ NoDirectory
    BY <1>2, FileStepsKeepWorker DEF OneWorker, worker, trees
  <1>3. CASE Pause
    BY <1>3 DEF Pause, Dropped, trees, OneWorker
  <1>4. CASE Stop
    BY <1>4 DEF Stop, Dropped, Kill, Killed, trees, OneWorker
  <1>5. CASE Manage
    <2>1. CASE UNCHANGED <<procs, leads>>
      BY <1>5, <2>1 DEF Manage, Launch, Ended, OneWorker
    <2>2. CASE ~UNCHANGED <<procs, leads>>
      <3>1. PICK p \in Procs : handle' = p /\ leads' = leads \cup {p}
        BY <1>5, <2>2 DEF Manage, Launch
      <3>2. leads \ lost = {} /\ lost' = lost
        BY <1>5, <2>2, FritzCaptureAssumption DEF Manage, Launch, OneWorker, WorkerTypeOK
      <3> QED
        BY <3>1, <3>2 DEF OneWorker
    <2> QED
      BY <2>1, <2>2
  <1>6. CASE \E p \in Procs : LeaderEnds(p) \/ TreeEnds(p)
    BY <1>6 DEF LeaderEnds, TreeEnds, OneWorker
  <1>7. CASE Press \/ HubStarts \/ Cleanup
    BY <1>7 DEF Press, HubStarts, Cleanup, trees, OneWorker
  <1>8. CASE HubEnds
    BY <1>8 DEF HubEnds, OneWorker
  <1>9. CASE CleanupStop
    BY <1>9 DEF CleanupStop, Kill, Killed, trees, OneWorker
  <1> QED
    BY <1>1, <1>2, <1>3, <1>4, <1>5, <1>6, <1>7, <1>8, <1>9 DEF Next, ReaderStep

\* A hub never runs two leaders, nor loses one it could still stop: through starts,
\* stops, a wait that runs out, leaders that end before their captures, the exit
\* handler beside the reader and ends of the hub, a running leader it started is the
\* one it holds, but for one whose killing failed (OneWorker).
THEOREM WorkerIsHeld == Spec => []OneWorker
  <1>1. Init => WorkerTypeOK /\ OneWorker
    BY DEF Init, WorkerTypeOK, OneWorker
  <1>2. WorkerTypeOK /\ OneWorker /\ [Next]_vars => WorkerTypeOK' /\ OneWorker'
    BY WorkerTypeInductive, OneWorkerInductive
  <1> QED
    BY <1>1, <1>2, PTL DEF Spec

-------------------------------------------------------------------------------
(* Least and greatest elements.                                            *)

\* A non-empty set of numbers has a least element.
LEMMA LeastExists ==
  ASSUME NEW S \in SUBSET Nat, S # {}
  PROVE  \E m \in S : \A y \in S : m <= y
<1> DEFINE Below(x) == 0..x
           T == {Below(x) : x \in S}
<1>1. IsWellFoundedOn(StrictSubsetOrdering(Nat), FiniteSubsetsOf(Nat))
  BY FS_StrictSubsetOrderingWellFounded
<1>2. \A x \in S : Below(x) \in FiniteSubsetsOf(Nat)
  BY FS_Interval DEF FiniteSubsetsOf
<1>3. T \subseteq FiniteSubsetsOf(Nat) /\ T # {}
  BY <1>2
<1> HIDE DEF T
<1>4. PICK t \in T : \A u \in T : ~(<<u, t>> \in StrictSubsetOrdering(Nat))
  BY <1>1, <1>3, WFMin
<1>5. PICK m \in S : t = Below(m)
  BY DEF T
<1>6. ASSUME NEW y \in S, y < m
      PROVE  FALSE
  <2>1. Below(y) \in T /\ Below(y) \subseteq Nat /\ Below(m) \subseteq Nat
    BY DEF T
  <2>2. Below(y) \subseteq Below(m) /\ m \in Below(m) /\ m \notin Below(y)
    BY <1>6
  <2> HIDE DEF Below
  <2>3. <<Below(y), Below(m)>> \in StrictSubsetOrdering(Nat)
    BY <2>1, <2>2 DEF StrictSubsetOrdering
  <2> QED
    BY <2>1, <2>3, <1>4, <1>5
<1> QED
  BY <1>6

LEMMA MinIs ==
  ASSUME NEW S \in SUBSET Nat, S # {}
  PROVE  Min(S) \in S /\ \A y \in S : Min(S) <= y
BY LeastExists DEF Min

\* A non-empty set of numbers no larger than n has a greatest element.
LEMMA MaxIs ==
  ASSUME NEW S \in SUBSET Nat, S # {}, NEW n \in Nat, \A x \in S : x <= n
  PROVE  Max(S) \in S /\ \A y \in S : Max(S) >= y
<1> DEFINE T == {k \in Nat : \A x \in S : x <= k}
<1>1. T \in SUBSET Nat /\ n \in T
  OBVIOUS
<1>2. PICK m \in T : \A k \in T : m <= k
  BY <1>1, LeastExists
<1>3. m \in S
  <2> SUFFICES ASSUME m \notin S
               PROVE  FALSE
    OBVIOUS
  <2>1. PICK x \in S : TRUE
    OBVIOUS
  <2>2. m - 1 \in Nat /\ \A y \in S : y <= m - 1
    BY <2>1
  <2> QED
    BY <1>2, <2>2
<1> QED
  BY <1>3 DEF Max

-------------------------------------------------------------------------------
(* The form of a capture file, and what a walk over a part of it finds.    *)

\* The cell d may come after c.
Follows(c, d) ==
  \/ c.left > 0 /\ d.kind = "B" /\ d.left = c.left - 1 /\ d.rec = c.rec
  \/ c.left = 0 /\ d.kind = "H" /\ d.left \in Bodies /\ d.rec = c.rec + 1

\* The file is a global header and whole records, the last perhaps cut short.
Formed(s) ==
  /\ s \in Seq(Cell)
  /\ Len(s) > 0 => s[1].left = 0 /\ s[1].rec = 0
  /\ \A i \in 1..Len(s) : i < Len(s) => Follows(s[i], s[i + 1])

LEMMA CellFields ==
  ASSUME NEW c \in Cell
  PROVE  c.left \in Nat /\ c.rec \in Nat
BY DEF Cell

\* The number of the record never falls, and a header begins a new one.
LEMMA RecordsRise ==
  ASSUME NEW s, Formed(s), NEW i \in 1..Len(s), NEW j \in 1..Len(s), i <= j
  PROVE  /\ s[i].rec <= s[j].rec
         /\ i < j /\ s[j].kind = "H" => s[i].rec < s[j].rec
<1> DEFINE Falls == {k \in 1..Len(s) : i <= k /\ s[k].rec < s[i].rec}
<1>0. s \in Seq(Cell) /\ Len(s) \in Nat
  BY DEF Formed
<1>1. \A k \in 1..Len(s) : s[k].rec \in Nat /\ s[k].left \in Nat
  BY <1>0, CellFields
<1>2. \A k \in 1..Len(s) : k < Len(s) => Follows(s[k], s[k + 1])
  BY DEF Formed
<1>3. Falls = {}
  <2> SUFFICES ASSUME Falls # {}
               PROVE  FALSE
    OBVIOUS
  <2>1. PICK k \in Falls : \A y \in Falls : k <= y
    <3>1. Falls \in SUBSET Nat
      OBVIOUS
    <3> HIDE DEF Falls
    <3> QED
      BY <3>1, LeastExists
  <2>2. k # i /\ k - 1 \in 1..Len(s) /\ i <= k - 1 /\ k - 1 \notin Falls
    BY <2>1, <1>0, <1>1
  <2>3. Follows(s[k - 1], s[k])
    BY <1>2, <2>2
  <2>4. s[k - 1].rec <= s[k].rec
    BY <2>3, <2>2, <1>1 DEF Follows
  <2> QED
    BY <2>1, <2>2, <2>4, <1>1
<1>4. \A k \in 1..Len(s) : i <= k => s[i].rec <= s[k].rec
  BY <1>3, <1>1
<1>5. ASSUME i < j, s[j].kind = "H"
      PROVE  s[i].rec < s[j].rec
  <2>1. j - 1 \in 1..Len(s) /\ i <= j - 1 /\ Follows(s[j - 1], s[j])
    BY <1>5, <1>2, <1>0
  <2>2. s[j].rec = s[j - 1].rec + 1
    BY <2>1, <1>5 DEF Follows
  <2> QED
    BY <2>1, <2>2, <1>4, <1>1
<1> QED
  BY <1>4, <1>5

\* The cell a header points past is the last of its record.
LEMMA HeaderSpans ==
  ASSUME NEW s, Formed(s), NEW i \in 1..Len(s), i + s[i].left <= Len(s)
  PROVE  s[i + s[i].left].left = 0 /\ s[i + s[i].left].rec = s[i].rec
<1> DEFINE n == s[i].left
           Holds(k) == s[i + k].left = n - k /\ s[i + k].rec = s[i].rec
           Fails == {k \in 0..n : ~Holds(k)}
<1>0. s \in Seq(Cell) /\ Len(s) \in Nat /\ n \in Nat
  BY CellFields DEF Formed
<1>1. Fails = {}
  <2> SUFFICES ASSUME Fails # {}
               PROVE  FALSE
    OBVIOUS
  <2>1. PICK k \in Fails : \A y \in Fails : k <= y
    <3>1. Fails \in SUBSET Nat
      OBVIOUS
    <3> HIDE DEF Fails
    <3> QED
      BY <3>1, LeastExists
  <2>2. k \in 0..n /\ ~Holds(k)
    BY <2>1
  <2>3. Holds(0)
    BY <1>0
  <2> HIDE DEF Holds
  <2>4. k # 0
    BY <2>2, <2>3
  <2>5. k \in Nat /\ k - 1 \in 0..n /\ ~(k <= k - 1)
    BY <2>2, <2>4, <1>0
  <2>6. Holds(k - 1)
    BY <2>1, <2>5
  <2> HIDE DEF Fails
  <2>7. /\ i + (k - 1) \in 1..Len(s)
        /\ i + (k - 1) < Len(s)
        /\ (i + (k - 1)) + 1 = i + k
    BY <2>2, <2>5, <1>0
  <2>8. Follows(s[i + (k - 1)], s[i + k])
    BY <2>7 DEF Formed
  <2>9. s[i + (k - 1)].left = n - (k - 1) /\ s[i + (k - 1)].rec = s[i].rec
    BY <2>6 DEF Holds
  <2> HIDE DEF n
  <2>10. n - (k - 1) > 0 /\ (n - (k - 1)) - 1 = n - k
    BY <2>2, <2>5, <1>0
  <2>11. s[i + k].left = n - k /\ s[i + k].rec = s[i].rec
    BY <2>8, <2>9, <2>10, <1>0 DEF Follows
  <2> QED
    BY <2>2, <2>11 DEF Holds
<1>2. n \in 0..n
  BY <1>0
<1>3. Holds(n)
  BY <1>1, <1>2
<1> QED
  BY <1>3, <1>0

\* What a walk over data, the cells after from, finds: headers only, of each of the
\* next records once, and it stops at the end of the last of them.
WalkFound(s, from, data, cuts) ==
  LET last == Max({0} \cup cuts)
      heads == {data[p + 1] : p \in Starts(cuts)}
  IN
  /\ last \in 0..Len(data)
  /\ s[from + last].left = 0
  /\ s[from].rec \in Nat /\ s[from + last].rec \in Nat
  /\ s[from].rec <= s[from + last].rec
  /\ \A h \in heads : h.kind = "H"
  /\ {h.rec : h \in heads} = (s[from].rec + 1)..s[from + last].rec
  /\ Cardinality(heads) = s[from + last].rec - s[from].rec

LEMMA WalkTakesRecords ==
  ASSUME NEW s, Formed(s), NEW from \in 1..Len(s), s[from].left = 0,
         NEW data \in Seq(Cell), from + Len(data) <= Len(s),
         \A p \in 1..Len(data) : data[p] = s[from + p],
         NEW cuts \in SUBSET (1..Len(data)), Walk(data, cuts)
  PROVE  WalkFound(s, from, data, cuts)
<1> DEFINE C == {0} \cup cuts
           last == Max(C)
           begins == Starts(cuts)
           heads == {data[p + 1] : p \in begins}
           recs == {h.rec : h \in heads}
           R(p) == s[from + p].rec
           g == s[from].rec
<1>0. s \in Seq(Cell) /\ Len(s) \in Nat /\ Len(data) \in Nat
  BY DEF Formed
<1>1. C \in SUBSET Nat /\ C # {} /\ \A p \in C : p <= Len(data)
  BY <1>0
<1>2. last \in C /\ \A p \in C : last >= p
  <2> HIDE DEF C
  <2> QED
    BY <1>0, <1>1, MaxIs
<1>3. begins = C \ {last}
  BY DEF Starts
<1>4. \A p \in C : from + p \in 1..Len(s) /\ R(p) \in Nat /\ p \in Nat
  <2>1. \A p \in C : from + p \in 1..Len(s) /\ p \in Nat
    BY <1>0, <1>1
  <2>2. \A i \in 1..Len(s) : s[i].rec \in Nat
    BY <1>0, CellFields
  <2> QED
    BY <2>1, <2>2
<1> HIDE DEF last, begins
\* The cut after p.
<1> DEFINE After(p) == Min({q \in cuts : q > p})
<1>5. \A p \in begins : /\ After(p) \in cuts /\ After(p) > p
                        /\ \A q \in cuts : q > p => After(p) <= q
  <2> SUFFICES ASSUME NEW p \in begins
               PROVE  /\ After(p) \in cuts /\ After(p) > p
                      /\ \A q \in cuts : q > p => After(p) <= q
    OBVIOUS
  <2>1. p \in C /\ last \in cuts /\ last > p
    BY <1>1, <1>2, <1>3
  <2> DEFINE Above == {q \in cuts : q > p}
  <2>2. Above \in SUBSET Nat /\ Above # {}
    BY <2>1, <1>1
  <2>3. Min(Above) \in Above /\ \A q \in Above : Min(Above) <= q
    <3> HIDE DEF Above
    <3> QED
      BY <2>2, MinIs
  <2> QED
    BY <2>3
\* Every cut is the next of another.
<1>6. \A q \in cuts : \E p \in begins : p < q /\ After(p) = q
  <2> SUFFICES ASSUME NEW q \in cuts
               PROVE  \E p \in begins : p < q /\ After(p) = q
    OBVIOUS
  <2> DEFINE Under == {p \in C : p < q}
  <2>0. q \in Nat /\ 0 < q
    BY <1>0
  <2>1. Under \in SUBSET Nat /\ 0 \in Under /\ \A p \in Under : p <= Len(data)
    BY <2>0, <1>1
  <2> DEFINE p == Max(Under)
  <2>2. p \in Under /\ \A x \in Under : p >= x
    <3> HIDE DEF Under
    <3> QED
      BY <2>1, <1>0, MaxIs
  <2> HIDE DEF p
  <2>3. p \in begins
    BY <2>2, <1>1, <1>2, <1>3
  <2>4. After(p) \in cuts /\ After(p) > p /\ After(p) <= q
    BY <2>2, <2>3, <1>5
  <2>5. After(p) \in Nat /\ q \in Nat /\ p \in Nat
    BY <2>2, <2>4, <1>1
  <2>6. ~(After(p) < q)
    BY <2>2, <2>4, <2>5
  <2> HIDE DEF After, Under
  <2>7. After(p) = q /\ p < q
    BY <2>2, <2>4, <2>5, <2>6 DEF Under
  <2> QED
    BY <2>3, <2>7
\* From the end of a record the walk takes the next one whole.
<1>7. \A p \in begins : s[from + p].left = 0 =>
        /\ data[p + 1].kind = "H"
        /\ data[p + 1].rec = R(p) + 1
        /\ s[from + After(p)].left = 0 /\ R(After(p)) = R(p) + 1
  <2> SUFFICES ASSUME NEW p \in begins, s[from + p].left = 0
               PROVE  /\ data[p + 1].kind = "H"
                      /\ data[p + 1].rec = R(p) + 1
                      /\ s[from + After(p)].left = 0 /\ R(After(p)) = R(p) + 1
    OBVIOUS
  <2> HIDE DEF After
  <2>1. p \in C /\ p \in Nat /\ After(p) \in cuts /\ After(p) \in Nat /\ After(p) > p
    BY <1>1, <1>3, <1>5
  <2>2. p + 1 \in 1..Len(data) /\ After(p) <= Len(data)
    BY <2>1, <1>0
  <2>3. /\ from + p \in 1..Len(s) /\ from + p < Len(s)
        /\ from + (p + 1) = (from + p) + 1 /\ (from + p) + 1 \in 1..Len(s)
    BY <2>1, <2>2, <1>0
  <2>4. data[p + 1] = s[(from + p) + 1]
    BY <2>2, <2>3
  <2>5. Follows(s[from + p], data[p + 1])
    BY <2>3, <2>4 DEF Formed
  <2>6. data[p + 1].kind = "H" /\ data[p + 1].rec = R(p) + 1
    BY <2>5 DEF Follows
  <2>7. After(p) = (p + 1) + data[p + 1].left
    BY <2>6 DEF Walk, Header, Span, begins, After
  <2> DEFINE i == (from + p) + 1
  <2>8. s[i].left \in Nat
    BY <2>3, <1>0, CellFields
  <2>9. i + s[i].left = from + After(p) /\ i + s[i].left <= Len(s)
    <3>1. After(p) = (p + 1) + s[i].left
      BY <2>4, <2>7
    <3>2. from + After(p) <= Len(s)
      BY <2>1, <2>2, <1>0
    <3>3. from \in Nat /\ from + After(p) = i + s[i].left
      <4> HIDE DEF After, i
      <4> DEFINE n == s[i].left
      <4>1. from \in Nat /\ n \in Nat
        BY <2>8
      <4> HIDE DEF n
      <4>2. from + ((p + 1) + n) = ((from + p) + 1) + n
        BY <4>1, <2>1
      <4> QED
        BY <4>1, <4>2, <3>1 DEF n, i
    <3> HIDE DEF After
    <3> QED
      BY <3>2, <3>3
  <2>10. s[from + After(p)].left = 0 /\ s[from + After(p)].rec = s[i].rec
    BY <2>3, <2>9, HeaderSpans
  <2> QED
    BY <2>4, <2>6, <2>10
<1> HIDE DEF After
<1>8. \A p \in C : s[from + p].left = 0
  <2> DEFINE Off == {p \in C : s[from + p].left # 0}
  <2> SUFFICES ASSUME Off # {}
               PROVE  FALSE
    OBVIOUS
  <2>1. PICK q \in Off : \A y \in Off : q <= y
    <3>1. Off \in SUBSET Nat
      BY <1>1
    <3> HIDE DEF Off
    <3> QED
      BY <3>1, LeastExists
  <2>2. q # 0 /\ q \in cuts
    <3>1. from + 0 = from
      OBVIOUS
    <3> QED
      BY <2>1, <3>1
  <2>3. PICK p \in begins : p < q /\ After(p) = q
    BY <2>2, <1>6
  <2>4. p \in C /\ p \in Nat /\ q \in Nat /\ ~(q <= p)
    BY <2>2, <2>3, <1>1, <1>3
  <2>5. s[from + p].left = 0
    BY <2>1, <2>4
  <2> QED
    BY <2>1, <2>3, <2>5, <1>7
<1>9. \A p \in begins : /\ data[p + 1].kind = "H" /\ data[p + 1].rec = R(p) + 1
                        /\ R(After(p)) = R(p) + 1
  BY <1>3, <1>7, <1>8
<1>10. \A p, q \in C : p <= q => R(p) <= R(q)
  <2> SUFFICES ASSUME NEW p \in C, NEW q \in C, p <= q
               PROVE  R(p) <= R(q)
    OBVIOUS
  <2>1. from + p \in 1..Len(s) /\ from + q \in 1..Len(s) /\ from + p <= from + q
    BY <1>4
  <2> QED
    BY <2>1, RecordsRise
<1>11. 0 \in C /\ R(0) = g /\ g \in Nat /\ R(last) \in Nat /\ g <= R(last)
  <2>1. from + 0 = from /\ 0 \in C /\ last \in C /\ 0 <= last
    BY <1>1, <1>2
  <2> QED
    BY <2>1, <1>4, <1>10
<1>12. \A p \in begins : R(p) + 1 \in (g + 1)..R(last)
  <2> SUFFICES ASSUME NEW p \in begins
               PROVE  R(p) + 1 \in (g + 1)..R(last)
    OBVIOUS
  <2>1. p \in C /\ After(p) \in C /\ 0 <= p /\ After(p) <= last
    BY <1>1, <1>2, <1>3, <1>5
  <2>2. g <= R(p) /\ R(After(p)) <= R(last) /\ R(p) \in Nat
    BY <2>1, <1>2, <1>4, <1>10, <1>11
  <2> QED
    BY <2>2, <1>9, <1>11
<1>13. \A k \in (g + 1)..R(last) : \E p \in begins : R(p) + 1 = k
  <2> DEFINE Missed == {k \in (g + 1)..R(last) : \A p \in begins : R(p) + 1 # k}
  <2> SUFFICES ASSUME Missed # {}
               PROVE  FALSE
    OBVIOUS
  <2> HIDE DEF R
  <2>1. PICK k \in Missed : \A y \in Missed : k >= y
    <3>1. Missed \in SUBSET Nat /\ \A y \in Missed : y <= R(last)
      BY <1>11
    <3> HIDE DEF Missed
    <3> QED
      BY <3>1, <1>11, MaxIs
  <2>2. k \in Nat /\ g < k /\ k <= R(last) /\ \A p \in begins : R(p) + 1 # k
    BY <2>1, <1>11
  <2>3. PICK q \in cuts : R(q) = k
    <3>1. CASE k = R(last)
      <4>1. last # 0
        BY <3>1, <2>2, <1>11
      <4> QED
        BY <4>1, <3>1, <1>2
    <3>2. CASE k # R(last)
      <4>1. k + 1 \in (g + 1)..R(last) /\ ~(k >= k + 1)
        BY <3>2, <2>2, <1>11
      <4>2. PICK p \in begins : R(p) + 1 = k + 1
        BY <4>1, <2>1
      <4>3. p \in C /\ R(p) \in Nat
        BY <1>3, <1>4 DEF R
      <4>4. R(p) = k
        BY <4>2, <4>3, <2>2
      <4>5. p # 0
        BY <4>4, <2>2, <1>11
      <4> QED
        BY <4>3, <4>4, <4>5
    <3> QED
      BY <3>1, <3>2
  <2>4. PICK p \in begins : After(p) = q
    BY <1>6
  <2> QED
    BY <2>2, <2>3, <2>4, <1>9
<1>14. recs = (g + 1)..R(last)
  <2>1. \A k \in recs : k \in (g + 1)..R(last)
    BY <1>9, <1>12
  <2>2. \A k \in (g + 1)..R(last) : k \in recs
    <3> SUFFICES ASSUME NEW k \in (g + 1)..R(last)
                 PROVE  k \in recs
      OBVIOUS
    <3>1. PICK p \in begins : R(p) + 1 = k
      BY <1>13
    <3>2. data[p + 1] \in heads /\ data[p + 1].rec = k
      BY <3>1, <1>9
    <3> QED
      BY <3>2
  <2> HIDE DEF recs, R
  <2> QED
    BY <2>1, <2>2
<1>15. Cardinality(heads) = R(last) - g
  <2> DEFINE number == [h \in heads |-> h.rec]
  <2>1. \A h, j \in heads : h.rec = j.rec => h = j
    <3> SUFFICES ASSUME NEW p \in begins, NEW q \in begins, data[p + 1].rec = data[q + 1].rec
                 PROVE  p = q
      OBVIOUS
    <3>1. /\ p \in Nat /\ q \in Nat
          /\ p + 1 \in 1..Len(data) /\ q + 1 \in 1..Len(data)
      <4>1. \A x \in begins : x \in C /\ x \in Nat /\ After(x) \in cuts /\ After(x) > x
        BY <1>1, <1>3, <1>5
      <4>2. \A x \in begins : After(x) \in 1..Len(data)
        BY <4>1
      <4> QED
        BY <4>1, <4>2, <1>0
    <3>2. ASSUME NEW x \in 1..Len(data), NEW y \in 1..Len(data), x < y,
                 data[y].kind = "H"
          PROVE  data[x].rec # data[y].rec
      <4>1. /\ from + x \in 1..Len(s) /\ from + y \in 1..Len(s)
            /\ from + x <= from + y /\ from + x < from + y
        BY <3>2, <1>0
      <4>2. s[from + x].rec < s[from + y].rec
        BY <4>1, <3>2, RecordsRise
      <4>3. s[from + x].rec \in Nat /\ s[from + y].rec \in Nat
        BY <4>1, <1>0, CellFields
      <4>4. data[x] = s[from + x] /\ data[y] = s[from + y]
        OBVIOUS
      <4> DEFINE a == s[from + x].rec
                 b == s[from + y].rec
      <4>5. a # b
        <5> HIDE DEF a, b
        <5>1. a < b /\ a \in Nat /\ b \in Nat
          BY <4>2, <4>3 DEF a, b
        <5> QED
          BY <5>1
      <4> QED
        BY <4>4, <4>5
    <3>3. ~(p + 1 < q + 1) /\ ~(q + 1 < p + 1)
      BY <3>1, <3>2, <1>9
    <3> QED
      BY <3>1, <3>3
  <2>2. number \in Injection(heads, recs) /\ number \in Surjection(heads, recs)
    <3> HIDE DEF heads
    <3> QED
      BY <2>1 DEF Injection, Surjection, IsInjective
  <2>3. IsFiniteSet(recs) /\ Cardinality(recs) = R(last) - g
    <3>1. g + 1 \in Int /\ R(last) \in Int
      BY <1>11
    <3>2. /\ IsFiniteSet((g + 1)..R(last))
          /\ Cardinality((g + 1)..R(last)) = IF g + 1 > R(last) THEN 0 ELSE R(last) - (g + 1) + 1
      BY <3>1, FS_Interval
    <3> HIDE DEF R, recs
    <3> QED
      BY <3>2, <1>11, <1>14
  <2>4. Cardinality(heads) = Cardinality(recs)
    <3> HIDE DEF heads, recs, number
    <3> QED
      BY <2>2, <2>3, FS_Injection
  <2> QED
    BY <2>3, <2>4
<1>16. last \in 0..Len(data)
  BY <1>0, <1>1, <1>2
<1> QED
  BY <1>2, <1>8, <1>9, <1>11, <1>14, <1>15, <1>16 DEF last, begins, WalkFound

-------------------------------------------------------------------------------
(* The inductive invariant of the reader, file by file.                    *)

\* The offset o of a reader that is up to date: record g ends there.
Ends(s, o, g) == IF o = 0 THEN g = 0 ELSE s[o].left = 0 /\ s[o].rec = g

\* s, o, g, b and d are a file's cells, offset, got, bad and doubt.  Until a new
\* generation has reached the offset of the old nothing of it was handed on.
FileInv(present, s, o, g, b, d) ==
  /\ Formed(s)
  /\ o \in Nat /\ g \in Nat /\ b \in BOOLEAN /\ d \in SUBSET Doubts
  /\ ~present => Len(s) = 0
  /\ Len(s) < o \/ Len(s) = 0 => g = 0 /\ ~b
  /\ "stale" \in d \/ "strayed" \in d => o # 0
  /\ "stale" \notin d => o <= Len(s)
  /\ "strayed" \notin d /\ "forgotten" \notin d =>
       /\ ~b
       /\ "stale" \in d => g = 0
       /\ "stale" \notin d => Ends(s, o, g)

FilesTypeOK ==
  /\ there \subseteq Files
  /\ disk \in [Files -> Seq(Cell)]
  /\ offset \in [Files -> Nat] /\ got \in [Files -> Nat]
  /\ bad \in [Files -> BOOLEAN] /\ doubt \in [Files -> SUBSET Doubts]

ReaderInv ==
  /\ FilesTypeOK
  /\ \A f \in Files : FileInv(f \in there, disk[f], offset[f], got[f], bad[f], doubt[f])

LEMMA FormedGrows ==
  ASSUME NEW s, Formed(s), NEW c \in NextCells(s)
  PROVE  /\ Formed(Append(s, c)) /\ Append(s, c) \in Seq(Cell)
         /\ Len(Append(s, c)) = Len(s) + 1
         /\ \A i \in 1..Len(s) : Append(s, c)[i] = s[i]
<1>0. s \in Seq(Cell) /\ Len(s) \in Nat
  BY DEF Formed
<1>1. CASE s = <<>>
  <2>1. c = [kind |-> "G", left |-> 0, rec |-> 0]
    BY <1>1 DEF NextCells
  <2>2. c \in Cell
    BY <2>1 DEF Cell
  <2> QED
    BY <1>0, <1>1, <2>1, <2>2 DEF Formed
<1>2. CASE s # <<>>
  <2>1. Len(s) \in 1..Len(s)
    BY <1>0, <1>2
  <2> DEFINE e == s[Len(s)]
  <2>2. e \in Cell /\ e.left \in Nat /\ e.rec \in Nat
    BY <1>0, <2>1, CellFields
  <2>3. c \in Cell /\ Follows(e, c)
    <3>1. CASE e.left > 0
      <4>1. c = [kind |-> "B", left |-> e.left - 1, rec |-> e.rec]
        BY <1>2, <3>1 DEF NextCells
      <4>2. e.left - 1 \in Nat
        BY <2>2, <3>1
      <4> QED
        BY <2>2, <3>1, <4>1, <4>2 DEF Cell, Follows
    <3>2. CASE ~(e.left > 0)
      <4>1. PICK n \in Bodies : c = [kind |-> "H", left |-> n, rec |-> e.rec + 1]
        BY <1>2, <3>2 DEF NextCells
      <4>2. n \in Nat /\ e.left = 0
        BY <2>2, <3>2, FritzCaptureAssumption
      <4> QED
        BY <2>2, <4>1, <4>2 DEF Cell, Follows
    <3> QED
      BY <3>1, <3>2
  <2> DEFINE t == Append(s, c)
  <2>4. /\ t \in Seq(Cell) /\ Len(t) = Len(s) + 1 /\ t[Len(s) + 1] = c
        /\ \A i \in 1..Len(s) : t[i] = s[i]
    BY <1>0, <2>3
  <2> HIDE DEF t
  <2>5. 1 \in 1..Len(s) /\ t[1].left = 0 /\ t[1].rec = 0
    BY <2>1, <2>4 DEF Formed
  <2>6. ASSUME NEW i \in 1..Len(t), i < Len(t)
        PROVE  Follows(t[i], t[i + 1])
    <3>1. CASE i = Len(s)
      BY <2>1, <2>3, <2>4, <3>1
    <3>2. CASE i # Len(s)
      <4>1. i \in 1..Len(s) /\ i < Len(s) /\ i + 1 \in 1..Len(s)
        BY <1>0, <2>4, <2>6, <3>2
      <4> QED
        BY <4>1, <2>4 DEF Formed
    <3> QED
      BY <3>1, <3>2
  <2>7. Formed(t)
    BY <2>4, <2>5, <2>6 DEF Formed
  <2> QED
    BY <2>4, <2>7 DEF t
<1> QED
  BY <1>1, <1>2

LEMMA GrowKeepsFile ==
  ASSUME NEW p, NEW s, NEW o, NEW g, NEW b, NEW d, FileInv(p, s, o, g, b, d),
         NEW c \in NextCells(s), NEW q, q = TRUE
  PROVE  FileInv(q, Append(s, c), o, g, b, d)
<1> DEFINE t == Append(s, c)
<1>1. /\ Formed(t) /\ Len(t) = Len(s) + 1 /\ Len(s) \in Nat
      /\ \A i \in 1..Len(s) : t[i] = s[i]
  BY FormedGrows DEF FileInv, Formed
<1> HIDE DEF t
<1>2. o \in Nat /\ o <= Len(s) /\ Ends(s, o, g) => Ends(t, o, g)
  BY <1>1 DEF Ends
<1> QED
  BY <1>1, <1>2 DEF FileInv, t

LEMMA RotateKeepsFile ==
  ASSUME NEW p, NEW s, NEW o, NEW g, NEW b, NEW d, FileInv(p, s, o, g, b, d), NEW q
  PROVE  FileInv(q, <<>>, o, 0, FALSE, IF o = 0 THEN {} ELSE (d \cup {"stale"}) \ {"forgotten"})
<1>1. Formed(<<>>) /\ Len(<<>>) = 0
  BY DEF Formed
<1> QED
  BY <1>1 DEF FileInv, Ends, Doubts

LEMMA ForgetKeepsFile ==
  ASSUME NEW p, NEW s, NEW o, NEW g, NEW b, NEW d, FileInv(p, s, o, g, b, d),
         NEW e, (p /\ o # 0 /\ e = {"forgotten"}) \/ (~(p /\ o # 0) /\ e = d \ {"stale", "strayed"})
  PROVE  FileInv(p, s, 0, g, b, e)
<1>1. Len(s) \in Nat
  BY DEF FileInv, Formed
<1>2. CASE p /\ o # 0 /\ e = {"forgotten"}
  BY <1>1, <1>2 DEF FileInv, Ends, Doubts
<1>3. CASE ~(p /\ o # 0) /\ e = d \ {"stale", "strayed"}
  <2>1. e \in SUBSET Doubts /\ "stale" \notin e /\ "strayed" \notin e
    BY <1>3 DEF FileInv
  <2>2. CASE o = 0
    <3>1. e = d
      BY <1>3, <2>2 DEF FileInv, Doubts
    <3> QED
      BY <1>1, <2>1, <2>2, <3>1 DEF FileInv, Ends
  <2>3. CASE ~p
    <3>1. g = 0 /\ ~b /\ g \in Nat /\ b \in BOOLEAN
      BY <2>3 DEF FileInv
    <3> QED
      BY <1>1, <2>1, <3>1 DEF FileInv, Ends
  <2> QED
    BY <1>3, <2>2, <2>3
<1> QED
  BY <1>2, <1>3

\* Records of a set of headers of a formed file are numbers.
LEMMA HandedIsNumber ==
  ASSUME NEW s, Formed(s), NEW H, \A h \in H : \E i \in 1..Len(s) : h = s[i], NEW g \in Nat
  PROVE  Max({g} \cup {h.rec : h \in H}) \in Nat
<1> DEFINE S == {g} \cup {h.rec : h \in H}
<1>1. S \in SUBSET Nat /\ S # {}
  <2>1. \A i \in 1..Len(s) : s[i].rec \in Nat
    BY CellFields DEF Formed
  <2> QED
    BY <2>1
<1>2. PICK n \in Nat : \A x \in S : x <= n
  <2>1. CASE Len(s) = 0
    <3>1. H = {}
      BY <2>1
    <3>2. S = {g}
      BY <3>1
    <3>3. g <= g /\ \A x \in S : x <= g
      BY <3>2
    <3> QED
      BY <3>3
  <2>2. CASE Len(s) # 0
    <3>1. Len(s) \in 1..Len(s) /\ Len(s) \in Nat /\ s[Len(s)].rec \in Nat
      BY <2>2, CellFields DEF Formed
    <3>2. ASSUME NEW i \in 1..Len(s)
          PROVE  s[i].rec <= s[Len(s)].rec /\ s[i].rec \in Nat
      <4>1. i <= Len(s)
        BY <3>1
      <4>2. s[i].rec <= s[Len(s)].rec
        BY <3>1, <4>1, RecordsRise
      <4> QED
        BY <4>2, CellFields DEF Formed
    <3> DEFINE n == g + s[Len(s)].rec
    <3>3. n \in Nat /\ g <= n /\ \A h \in H : h.rec <= n
      BY <3>1, <3>2
    <3> QED
      BY <3>3
  <2> QED
    BY <2>1, <2>2
<1> HIDE DEF S
<1>3. Max(S) \in S
  BY <1>1, <1>2, MaxIs
<1> QED
  BY <1>1, <1>3 DEF S

\* The greatest of g and the numbers from g + 1 to n.
LEMMA MaxOfRun ==
  ASSUME NEW g \in Nat, NEW n \in Nat, g <= n
  PROVE  Max({g} \cup ((g + 1)..n)) = n
<1> DEFINE S == {g} \cup ((g + 1)..n)
<1>1. S \in SUBSET Nat /\ n \in S /\ \A x \in S : x <= n
  OBVIOUS
<1>2. Max(S) \in S /\ Max(S) >= n
  <2> HIDE DEF S
  <2> QED
    BY <1>1, MaxIs
<1> HIDE DEF S
<1>3. Max(S) \in Nat /\ Max(S) <= n
  BY <1>1, <1>2
<1>4. Max(S) = n
  BY <1>2, <1>3
<1> QED
  BY <1>4 DEF S

\* What a read returns: at most the rest of the file.
LEMMA WindowIs ==
  ASSUME NEW f, disk[f] \in Seq(Cell), NEW from \in 1..Len(disk[f])
  PROVE  /\ Window(f, from) \in Seq(Cell)
         /\ Len(Window(f, from)) \in Nat
         /\ from + Len(Window(f, from)) <= Len(disk[f])
         /\ \A p \in 1..Len(Window(f, from)) :
              from + p \in 1..Len(disk[f]) /\ Window(f, from)[p] = disk[f][from + p]
<1> DEFINE s == disk[f]
           S == {Len(s), from + Budget}
           m == Min(S)
<1>1. Len(s) \in Nat /\ from \in Nat /\ from <= Len(s) /\ Budget \in Nat
  BY FritzCaptureAssumption
<1>2. m \in S /\ \A x \in S : m <= x
  <2>1. S \in SUBSET Nat /\ S # {}
    BY <1>1
  <2> HIDE DEF S
  <2> QED
    BY <2>1, MinIs
<1>3. m \in Nat /\ m <= Len(s) /\ from <= m
  BY <1>1, <1>2
<1> HIDE DEF m
<1> DEFINE w == SubSeq(s, from + 1, m)
<1>4. /\ w \in Seq(Cell) /\ Len(w) = m - from
      /\ \A p \in 1..(m - from) : from + p \in 1..Len(s) /\ w[p] = s[from + p]
  BY <1>1, <1>3
<1>5. w = Window(f, from)
  BY DEF Window, m
<1> HIDE DEF w
<1>6. Len(w) \in Nat /\ from + Len(w) <= Len(s)
  BY <1>1, <1>3, <1>4
<1> QED
  BY <1>4, <1>5, <1>6

\* A read that starts where a record of the generation ends, or at its beginning,
\* hands on the next records and stops where the last of them ends.
LEMMA ReadAdvances ==
  ASSUME NEW f, Formed(disk[f]), NEW from \in 1..Len(disk[f]),
         disk[f][from].left = 0,
         NEW cuts \in SUBSET (1..Len(Window(f, from))), Walk(Window(f, from), cuts),
         Hand(f, {Window(f, from)[p + 1] : p \in Starts(cuts)}),
         f \in DOMAIN got, f \in DOMAIN bad,
         got[f] = disk[f][from].rec, bad[f] = FALSE
  PROVE  LET o == from + Max({0} \cup cuts)
         IN  bad'[f] = FALSE /\ o \in 1..Len(disk[f]) /\ Ends(disk[f], o, got'[f])
<1> DEFINE s == disk[f]
           data == Window(f, from)
           last == Max({0} \cup cuts)
           heads == {data[p + 1] : p \in Starts(cuts)}
           recs == {h.rec : h \in heads}
           g == got[f]
           n == s[from + last].rec
<1>0. Len(s) \in Nat /\ s \in Seq(Cell)
  BY DEF Formed
<1>1. /\ data \in Seq(Cell) /\ Len(data) \in Nat /\ from + Len(data) <= Len(s)
      /\ \A p \in 1..Len(data) : data[p] = s[from + p]
  BY <1>0, WindowIs
<1>2. Hand(f, heads) /\ cuts \in SUBSET (1..Len(data)) /\ Walk(data, cuts)
  OBVIOUS
<1> HIDE DEF data
<1>10. WalkFound(s, from, data, cuts)
  <2> HIDE DEF s
  <2>1. Formed(s) /\ from \in 1..Len(s) /\ s[from].left = 0
    BY DEF s
  <2> QED
    BY <2>1, <1>1, <1>2, WalkTakesRecords
<1>3. /\ last \in 0..Len(data)
      /\ s[from + last].left = 0
      /\ g \in Nat /\ n \in Nat /\ g <= n
      /\ \A h \in heads : h.kind = "H"
      /\ recs = (g + 1)..n
      /\ Cardinality(heads) = n - g
  BY <1>10 DEF WalkFound
<1> HIDE DEF heads, last, n
<1>4. {h \in heads : h.kind = "H"} = heads
  BY <1>3
<1>5. Max({g} \cup recs) = n
  BY <1>3, MaxOfRun
<1>6. got'[f] = n
  BY <1>2, <1>4, <1>5 DEF Hand
<1>7. recs = (g + 1)..(g + Cardinality(heads))
  <2>1. g + Cardinality(heads) = n
    BY <1>3
  <2> QED
    BY <1>3, <2>1
<1>8. bad'[f] = FALSE
  BY <1>2, <1>3, <1>4, <1>7 DEF Hand
<1>9. from + last \in 1..Len(s) /\ from + last # 0
  BY <1>0, <1>1, <1>3
<1> QED
  BY <1>3, <1>6, <1>8, <1>9 DEF Ends, n, last

FileOK(f) == FileInv(f \in there, disk[f], offset[f], got[f], bad[f], doubt[f])

\* Read leaves the other files, and the types, as they are.
LEMMA ReadKeepsTypes ==
  ASSUME FilesTypeOK, NEW f \in Files, Formed(disk[f]), Read(f)
  PROVE  /\ FilesTypeOK'
         /\ \A h \in Files \ {f} : UNCHANGED <<disk[h], offset[h], got[h], bad[h], doubt[h]>>
         /\ UNCHANGED <<there, disk>>
<1> DEFINE s == disk[f]
           base == IF Shrank(f) THEN 0 ELSE offset[f]
           from == IF base = 0 THEN 1 ELSE base
           data == Window(f, from)
<1>0. UNCHANGED <<there, disk>>
  BY DEF Read, files
<1>1. base \in Nat /\ from \in Nat /\ from # 0 /\ Len(s) \in Nat /\ s \in Seq(Cell)
  BY DEF FilesTypeOK, Formed
<1>2. CASE f \notin there
  BY <1>0, <1>2 DEF Read, FilesTypeOK, history
<1>3. CASE f \in there
  <2>1. doubt' \in [Files -> SUBSET Doubts] /\ \A h \in Files \ {f} : doubt'[h] = doubt[h]
    <3> DEFINE v == IF Len(s) < offset[f] THEN doubt[f] \ {"stale", "strayed"}
                    ELSE IF "stale" \in doubt[f] THEN doubt[f] \cup {"strayed"} ELSE doubt[f]
    <3>1. v \in SUBSET Doubts
      BY DEF FilesTypeOK, Doubts
    <3>2. doubt' = [doubt EXCEPT ![f] = v]
      BY <1>3 DEF Read
    <3> HIDE DEF v
    <3> QED
      BY <3>1, <3>2 DEF FilesTypeOK
  <2>2. CASE Len(s) < from
    <3>1. offset' = [offset EXCEPT ![f] = base] /\ UNCHANGED <<got, bad>>
      BY <1>3, <2>2 DEF Read
    <3> HIDE DEF base
    <3> QED
      BY <1>0, <1>1, <2>1, <3>1 DEF FilesTypeOK
  <2>3. CASE ~(Len(s) < from)
    <3>1. PICK cuts \in SUBSET (1..Len(data)) :
            /\ offset' = [offset EXCEPT ![f] = from + Max({0} \cup cuts)]
            /\ Hand(f, {data[p + 1] : p \in Starts(cuts)})
      BY <1>3, <2>3 DEF Read
    <3> HIDE DEF from
    <3>2. from \in 1..Len(s)
      BY <1>1, <2>3
    <3>3. /\ Len(data) \in Nat /\ from + Len(data) <= Len(s)
          /\ \A p \in 1..Len(data) : from + p \in 1..Len(s) /\ data[p] = s[from + p]
      BY <1>1, <3>2, WindowIs
    <3> HIDE DEF data
    <3> DEFINE last == Max({0} \cup cuts)
    <3>4. last \in {0} \cup cuts /\ \A p \in {0} \cup cuts : last >= p
      <4>1. {0} \cup cuts \in SUBSET Nat /\ \A p \in {0} \cup cuts : p <= Len(data)
        BY <3>3
      <4> QED
        BY <4>1, <3>3, MaxIs
    <3> HIDE DEF last
    <3>5. offset' = [offset EXCEPT ![f] = from + last] /\ from + last \in Nat
      <4>1. last \in Nat
        BY <3>3, <3>4
      <4> QED
        BY <1>1, <3>1, <4>1 DEF last
    <3> DEFINE heads == {data[p + 1] : p \in Starts(cuts)}
    <3>6. \A h \in heads : \E i \in 1..Len(s) : h = s[i]
      <4> SUFFICES ASSUME NEW p \in Starts(cuts)
                   PROVE  \E i \in 1..Len(s) : data[p + 1] = s[i]
        OBVIOUS
      <4>1. p \in {0} \cup cuts /\ p # last
        BY DEF Starts, last
      <4>2. p + 1 \in 1..Len(data)
        BY <3>3, <3>4, <4>1
      <4> QED
        BY <3>3, <4>2
    <3> HIDE DEF heads
    <3> DEFINE kept == {h \in heads : h.kind = "H"}
               next == Max({got[f]} \cup {h.rec : h \in kept})
    <3>7. next \in Nat
      <4>1. \A h \in kept : \E i \in 1..Len(s) : h = s[i]
        BY <3>6
      <4>2. got[f] \in Nat /\ Formed(s)
        BY DEF FilesTypeOK
      <4> HIDE DEF kept, s
      <4> QED
        BY <4>1, <4>2, HandedIsNumber
    <3>8. Hand(f, heads)
      BY <3>1 DEF heads
    <3>9. got' = [got EXCEPT ![f] = next]
      BY <3>8 DEF Hand
    <3>10. bad' \in [Files -> BOOLEAN] /\ \A h \in Files \ {f} : bad'[h] = bad[h]
      BY <3>8 DEF Hand, FilesTypeOK
    <3> HIDE DEF next
    <3>11. got' \in [Files -> Nat] /\ \A h \in Files \ {f} : got'[h] = got[h]
      BY <3>7, <3>9 DEF FilesTypeOK
    <3>12. offset' \in [Files -> Nat] /\ \A h \in Files \ {f} : offset'[h] = offset[h]
      BY <3>5 DEF FilesTypeOK
    <3> QED
      BY <1>0, <2>1, <3>10, <3>11, <3>12 DEF FilesTypeOK
  <2> QED
    BY <2>2, <2>3
<1> QED
  BY <1>2, <1>3

LEMMA ReadKeepsFile ==
  ASSUME FilesTypeOK, NEW f \in Files, FileOK(f), Read(f)
  PROVE  FileOK(f)'
<1> DEFINE s == disk[f]
           base == IF Shrank(f) THEN 0 ELSE offset[f]
           from == IF base = 0 THEN 1 ELSE base
           data == Window(f, from)
<1>0. UNCHANGED <<there, disk>>
  BY DEF Read, files
<1>1. /\ Formed(s) /\ base \in Nat /\ from \in Nat /\ from # 0
      /\ Len(s) \in Nat /\ s \in Seq(Cell) /\ offset[f] \in Nat
  BY DEF FilesTypeOK, FileOK, FileInv, Formed
<1>2. CASE f \notin there
  BY <1>0, <1>2 DEF Read, FileOK, history
<1>3. CASE f \in there
  <2>0. FilesTypeOK'
    BY <1>1, ReadKeepsTypes
  <2>1. doubt'[f] = IF Len(s) < offset[f] THEN doubt[f] \ {"stale", "strayed"}
                    ELSE IF "stale" \in doubt[f] THEN doubt[f] \cup {"strayed"} ELSE doubt[f]
    BY <1>3 DEF Read, FilesTypeOK
  <2>2. CASE Len(s) < from
    <3>1. offset'[f] = base /\ got'[f] = got[f] /\ bad'[f] = bad[f]
      BY <1>3, <2>2 DEF Read, FilesTypeOK
    <3>2. base = 0 /\ from = 1 /\ Len(s) = 0
      BY <1>1, <2>2 DEF Shrank
    <3>3. got[f] = 0 /\ ~bad[f]
      BY <3>2 DEF FileOK, FileInv
    <3>4. "stale" \notin doubt'[f] /\ "strayed" \notin doubt'[f]
      <4>1. CASE Len(s) < offset[f]
        BY <2>1, <4>1
      <4>2. CASE ~(Len(s) < offset[f])
        BY <1>1, <2>1, <3>2, <4>2 DEF FileOK, FileInv, Doubts
      <4> QED
        BY <4>1, <4>2
    <3>5. doubt'[f] \in SUBSET Doubts
      BY <2>0 DEF FilesTypeOK
    <3> QED
      BY <1>0, <1>1, <1>3, <3>1, <3>2, <3>3, <3>4, <3>5 DEF FileOK, FileInv, Ends
  <2>3. CASE ~(Len(s) < from)
    <3>1. PICK cuts \in SUBSET (1..Len(data)) :
            /\ Walk(data, cuts)
            /\ offset' = [offset EXCEPT ![f] = from + Max({0} \cup cuts)]
            /\ Hand(f, {data[p + 1] : p \in Starts(cuts)})
      BY <1>3, <2>3 DEF Read
    <3>2. from \in 1..Len(s) /\ Len(s) # 0 /\ 1 \in 1..Len(s)
      BY <1>1, <2>3
    <3> DEFINE o == from + Max({0} \cup cuts)
    <3>3. offset'[f] = o
      BY <3>1 DEF FilesTypeOK
    <3>4. /\ got'[f] \in Nat /\ bad'[f] \in BOOLEAN /\ doubt'[f] \in SUBSET Doubts
          /\ offset'[f] \in Nat
      BY <2>0 DEF FilesTypeOK
    <3>5. o <= Len(s) /\ o # 0
      <4> HIDE DEF from
      <4>1. Len(data) \in Nat /\ from + Len(data) <= Len(s)
        BY <1>1, <3>2, WindowIs
      <4> HIDE DEF data
      <4> DEFINE C == {0} \cup cuts
      <4>2. C \in SUBSET Nat /\ C # {} /\ \A p \in C : p <= Len(data)
        BY <4>1
      <4> HIDE DEF C
      <4>3. Max(C) \in C
        BY <4>1, <4>2, MaxIs
      <4>4. Max(C) \in Nat /\ Max(C) <= Len(data)
        BY <4>2, <4>3
      <4>5. o = from + Max(C)
        BY DEF C
      <4> QED
        BY <1>1, <4>1, <4>4, <4>5
    <3> HIDE DEF o
    <3>6. ASSUME "strayed" \notin doubt'[f], "forgotten" \notin doubt'[f]
          PROVE  bad'[f] = FALSE /\ "stale" \notin doubt'[f] /\ Ends(s, o, got'[f])
      <4>1. "stale" \notin doubt'[f]
        BY <2>1, <3>6
      <4>2. s[from].left = 0 /\ got[f] = s[from].rec /\ bad[f] = FALSE
        <5>1. CASE Shrank(f)
          <6>1. from = 1 /\ got[f] = 0 /\ bad[f] = FALSE
            BY <5>1 DEF Shrank, FileOK, FileInv
          <6> QED
            BY <1>1, <3>2, <6>1 DEF Formed
        <5>2. CASE ~Shrank(f)
          <6>1. /\ "stale" \notin doubt[f] /\ "strayed" \notin doubt[f]
                /\ "forgotten" \notin doubt[f]
            BY <2>1, <3>6, <5>2 DEF Shrank
          <6>2. Ends(s, offset[f], got[f]) /\ bad[f] = FALSE
            BY <6>1 DEF FileOK, FileInv
          <6>3. CASE offset[f] = 0
            BY <1>1, <3>2, <5>2, <6>2, <6>3 DEF Ends, Formed
          <6>4. CASE offset[f] # 0
            BY <5>2, <6>2, <6>4 DEF Ends
          <6> QED
            BY <6>3, <6>4
        <5> QED
          BY <5>1, <5>2
      <4>3. f \in DOMAIN got /\ f \in DOMAIN bad
        BY DEF FilesTypeOK
      <4> HIDE DEF from
      <4>4. bad'[f] = FALSE /\ Ends(s, o, got'[f])
        BY <1>1, <3>1, <3>2, <4>2, <4>3, ReadAdvances DEF o
      <4> QED
        BY <4>1, <4>4
    <3>7. o \in Nat /\ got'[f] \in Nat /\ bad'[f] \in BOOLEAN /\ doubt'[f] \in SUBSET Doubts
      BY <3>3, <3>4
    <3> HIDE DEF base, from, data
    <3>8. FileInv(TRUE, s, o, got'[f], bad'[f], doubt'[f])
      <4>1. ~(Len(s) < o)
        BY <1>1, <3>5, <3>7
      <4> HIDE DEF s
      <4> QED
        BY <1>1, <3>2, <3>5, <3>6, <3>7, <4>1 DEF FileInv
    <3>9. (f \in there) = TRUE /\ there' = there /\ disk' = disk
      BY <1>0, <1>3
    <3> QED
      BY <3>3, <3>8, <3>9 DEF FileOK
  <2> QED
    BY <2>2, <2>3
<1> QED
  BY <1>2, <1>3

\* The steps that neither touch a file nor its reader's offset.
LEMMA WorkerStepsKeepFiles ==
  ASSUME Pause \/ Stop \/ Resume \/ Manage \/ NoDirectory
         \/ (\E p \in Procs : LeaderEnds(p) \/ TreeEnds(p))
         \/ Press \/ Cleanup \/ CleanupStop \/ HubEnds
  PROVE  UNCHANGED <<there, disk, offset, got, bad, doubt>>
BY DEF Pause, Stop, Resume, Manage, Launch, NoDirectory, LeaderEnds, TreeEnds, Press, Cleanup,
       CleanupStop, HubEnds, files, reader, history

LEMMA ForgetKeepsFiles ==
  ASSUME ReaderInv, NEW present \in SUBSET there, Forget(present),
         UNCHANGED <<there, disk, got, bad>>
  PROVE  ReaderInv'
<1>1. /\ offset' \in [Files -> Nat] /\ doubt' \in [Files -> SUBSET Doubts]
      /\ \A f \in Files :
           /\ offset'[f] = IF f \in present THEN offset[f] ELSE 0
           /\ doubt'[f] = IF f \in present THEN doubt[f]
                          ELSE IF f \in there /\ offset[f] # 0 THEN {"forgotten"}
                          ELSE doubt[f] \ {"stale", "strayed"}
  <2>1. \A f \in Files :
          (IF f \in present THEN doubt[f]
           ELSE IF f \in there /\ offset[f] # 0 THEN {"forgotten"}
           ELSE doubt[f] \ {"stale", "strayed"}) \in SUBSET Doubts
    BY DEF ReaderInv, FilesTypeOK, Doubts
  <2> QED
    BY <2>1 DEF Forget, ReaderInv, FilesTypeOK
<1>2. ASSUME NEW f \in Files
      PROVE  FileOK(f)'
  <2>1. FileOK(f)
    BY DEF ReaderInv, FileOK
  <2>2. CASE f \in present
    BY <1>1, <2>1, <2>2 DEF FileOK
  <2>3. CASE f \notin present
    <3> DEFINE d == IF f \in there /\ offset[f] # 0 THEN {"forgotten"}
                    ELSE doubt[f] \ {"stale", "strayed"}
    <3>3. \/ f \in there /\ offset[f] # 0 /\ d = {"forgotten"}
          \/ ~(f \in there /\ offset[f] # 0) /\ d = doubt[f] \ {"stale", "strayed"}
      OBVIOUS
    <3>2. offset'[f] = 0 /\ doubt'[f] = d
      BY <1>1, <2>3
    <3> HIDE DEF d
    <3>1. FileInv(f \in there, disk[f], 0, got[f], bad[f], d)
      BY <2>1, <3>3, ForgetKeepsFile DEF FileOK
    <3> QED
      BY <3>1, <3>2 DEF FileOK
  <2> QED
    BY <2>2, <2>3
<1> QED
  BY <1>1, <1>2 DEF ReaderInv, FilesTypeOK, FileOK

LEMMA ReaderInductive ==
  ASSUME ReaderInv, [Next]_vars
  PROVE  ReaderInv'
<1>0. FilesTypeOK /\ \A f \in Files : FileOK(f)
  BY DEF ReaderInv, FileOK
<1>1. CASE UNCHANGED <<there, disk, offset, got, bad, doubt>>
  BY <1>1 DEF ReaderInv, FilesTypeOK
<1>2. ASSUME NEW f \in Files, Grow(f)
      PROVE  ReaderInv'
  <2>1. PICK c \in NextCells(disk[f]) : disk' = [disk EXCEPT ![f] = Append(@, c)]
    BY <1>2 DEF Grow
  <2>2. /\ there' = there \cup {f}
        /\ UNCHANGED <<offset, got, bad, doubt>>
    BY <1>2 DEF Grow, reader, history
  <2>3. FileOK(f) /\ Formed(disk[f])
    BY <1>0 DEF FileOK, FileInv
  <2>4. Append(disk[f], c) \in Seq(Cell)
    BY <2>3, FormedGrows
  <2>5. FilesTypeOK'
    BY <1>0, <2>1, <2>2, <2>4 DEF FilesTypeOK
  <2>6. FileInv(TRUE, Append(disk[f], c), offset[f], got[f], bad[f], doubt[f])
    BY <2>3, GrowKeepsFile DEF FileOK
  <2>7. disk'[f] = Append(disk[f], c) /\ (f \in there') = TRUE
    BY <1>0, <2>1, <2>2 DEF FilesTypeOK
  <2>8. FileOK(f)'
    BY <2>2, <2>6, <2>7 DEF FileOK
  <2>9. \A h \in Files \ {f} : disk'[h] = disk[h] /\ (h \in there') = (h \in there)
    BY <1>0, <2>1, <2>2 DEF FilesTypeOK
  <2>10. \A h \in Files \ {f} : FileOK(h)'
    BY <1>0, <2>2, <2>9 DEF FileOK
  <2> QED
    BY <2>5, <2>8, <2>10 DEF ReaderInv, FileOK
<1>3. ASSUME NEW f \in Files, Rotate(f)
      PROVE  ReaderInv'
  <2> DEFINE d == IF offset[f] = 0 THEN {} ELSE (doubt[f] \cup {"stale"}) \ {"forgotten"}
  <2>1. /\ disk' = [disk EXCEPT ![f] = <<>>]
        /\ there' \in {there, there \ {f}}
        /\ got' = [got EXCEPT ![f] = 0] /\ bad' = [bad EXCEPT ![f] = FALSE]
        /\ doubt' = [doubt EXCEPT ![f] = d]
        /\ offset' = offset
    BY <1>3 DEF Rotate, reader
  <2>2. d \in SUBSET Doubts
    BY <1>0 DEF FilesTypeOK, Doubts
  <2>3. FileInv(f \in there', <<>>, offset[f], 0, FALSE, d)
    BY <1>0, RotateKeepsFile DEF FileOK
  <2> HIDE DEF d
  <2>4. <<>> \in Seq(Cell)
    OBVIOUS
  <2>5. FilesTypeOK'
    BY <1>0, <2>1, <2>2, <2>4 DEF FilesTypeOK
  <2>6. disk'[f] = <<>> /\ got'[f] = 0 /\ bad'[f] = FALSE /\ doubt'[f] = d
    BY <1>0, <2>1 DEF FilesTypeOK
  <2>7. FileOK(f)'
    BY <2>1, <2>3, <2>6 DEF FileOK
  <2>8. \A h \in Files \ {f} :
          /\ disk'[h] = disk[h] /\ got'[h] = got[h] /\ bad'[h] = bad[h] /\ doubt'[h] = doubt[h]
          /\ (h \in there') = (h \in there)
    BY <1>0, <2>1 DEF FilesTypeOK
  <2>9. \A h \in Files \ {f} : FileOK(h)'
    BY <1>0, <2>1, <2>8 DEF FileOK
  <2> QED
    BY <2>5, <2>7, <2>9 DEF ReaderInv, FileOK
<1>4. CASE List
  <2>1. PICK present \in SUBSET there : Forget(present)
    BY <1>4 DEF List
  <2>2. UNCHANGED <<there, disk, got, bad>>
    BY <1>4 DEF List, files
  <2> QED
    BY <2>1, <2>2, ForgetKeepsFiles
<1>5. CASE HubStarts
  <2>1. Forget({}) /\ UNCHANGED <<there, disk, got, bad>>
    BY <1>5 DEF HubStarts, files
  <2> QED
    BY <2>1, ForgetKeepsFiles
<1>6. ASSUME NEW f \in Files, Read(f)
      PROVE  ReaderInv'
  <2>1. Formed(disk[f])
    BY <1>0 DEF FileOK, FileInv
  <2>2. /\ FilesTypeOK'
        /\ \A h \in Files \ {f} : UNCHANGED <<disk[h], offset[h], got[h], bad[h], doubt[h]>>
        /\ UNCHANGED <<there, disk>>
    BY <1>0, <1>6, <2>1, ReadKeepsTypes
  <2>3. FileOK(f)'
    BY <1>0, <1>6, ReadKeepsFile
  <2>4. \A h \in Files \ {f} : FileOK(h)'
    BY <1>0, <2>2 DEF FileOK
  <2> QED
    BY <2>2, <2>3, <2>4 DEF ReaderInv, FileOK
<1>7. CASE UNCHANGED vars
  BY <1>1, <1>7 DEF vars, files, reader, history
<1> QED
  BY <1>1, <1>2, <1>3, <1>4, <1>5, <1>6, <1>7, WorkerStepsKeepFiles DEF Next, ReaderStep

\* Through any growth, rotation, removal and restart, the packets handed on of a
\* generation are its records, whole, once and in order, unless the reader used an
\* offset of an earlier generation or was forgotten (OnceInOrder;
\* PcapTailReader.read_new, FritzDumpSource.poll).
THEOREM RecordsOnceInOrder == Spec => []OnceInOrder
<1>1. Init => ReaderInv
  <2> SUFFICES ASSUME Init
               PROVE  ReaderInv
    OBVIOUS
  <2>1. <<>> \in Seq(Cell) /\ Len(<<>>) = 0 /\ Formed(<<>>)
    BY DEF Formed
  <2>2. FilesTypeOK
    BY <2>1 DEF Init, FilesTypeOK
  <2>3. ASSUME NEW f \in Files
        PROVE  FileInv(f \in there, disk[f], offset[f], got[f], bad[f], doubt[f])
    <3>1. disk[f] = <<>> /\ offset[f] = 0 /\ got[f] = 0 /\ bad[f] = FALSE /\ doubt[f] = {}
      BY DEF Init
    <3>2. FileInv(f \in there, <<>>, 0, 0, FALSE, {})
      BY <2>1 DEF FileInv, Ends
    <3> QED
      BY <3>1, <3>2
  <2> QED
    BY <2>2, <2>3 DEF ReaderInv
<1>2. ReaderInv => OnceInOrder
  BY DEF ReaderInv, FileInv, OnceInOrder
<1> QED
  BY <1>1, <1>2, ReaderInductive, PTL DEF Spec
==============================================================================
