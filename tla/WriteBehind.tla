------------------------------ MODULE WriteBehind ------------------------------
(***************************************************************************)
(* What the hub's write path promises to whoever reads its tables: packets *)
(* it takes for a device and an address are pending, a pending packet is   *)
(* stored once or is gone, an address is known from the first packet       *)
(* stored for it, by whichever device, and for good, and an address that   *)
(* becomes known is told to the clients once or, if the process ends       *)
(* first, never.  Stored counts may be removed, a known address may not.   *)
(***************************************************************************)
EXTENDS Naturals

CONSTANTS
  Devices,  \* device ids
  Ips       \* remote addresses

VARIABLES
  taken,    \* packets accepted, per device and address
  pending,  \* packets accepted and neither stored nor gone
  stored,   \* packets the table shows
  gone,     \* packets lost before they were stored, or removed after
  known,    \* addresses the hub remembers
  news,     \* addresses that became known and were not told yet
  told      \* times each address was told as new

vars == <<taken, pending, stored, gone, known, news, told>>

Keys == Devices \X Ips
None == [k \in Keys |-> 0]

\* The counts f once what g has and h has not is added to them.
Moved(f, g, h) == [k \in Keys |-> f[k] + (g[k] - h[k])]
AtMost(f, g) == \A k \in Keys : f[k] <= g[k]

Init == /\ taken = None /\ pending = None /\ stored = None /\ gone = None
        /\ known = {} /\ news = {}
        /\ told = [ip \in Ips |-> 0]

\* Packets are taken for one device and address, and are pending.
Take(k) ==
  /\ taken[k] <= taken'[k]
  /\ taken' = [taken EXCEPT ![k] = taken'[k]]
  /\ pending' = [pending EXCEPT ![k] = @ + (taken'[k] - taken[k])]
  /\ UNCHANGED <<stored, gone, known, news, told>>

\* What leaves pending is in the table, its addresses are known, and every address
\* that was not known before is news.  The news of the last time was told.
Store ==
  /\ news = {}
  /\ AtMost(pending', pending)
  /\ pending' = [k \in Keys |-> pending'[k]]
  /\ stored' = Moved(stored, pending, pending')
  /\ known \subseteq known' /\ known' \subseteq Ips
  /\ \A k \in Keys : pending'[k] # pending[k] => k[2] \in known'
  /\ news' = known' \ known
  /\ UNCHANGED <<taken, gone, told>>

\* A failed transaction, or the end of the process: the untold news ends with it.
Lose ==
  /\ AtMost(pending', pending)
  /\ pending' = [k \in Keys |-> pending'[k]]
  /\ gone' = Moved(gone, pending, pending')
  /\ UNCHANGED <<taken, stored, known, news, told>>

Crash ==
  /\ pending' = None /\ news' = {}
  /\ gone' = Moved(gone, pending, None)
  /\ UNCHANGED <<taken, stored, known, told>>

Tell ==
  /\ told' = [ip \in Ips |-> IF ip \in news THEN told[ip] + 1 ELSE told[ip]]
  /\ news' = {}
  /\ UNCHANGED <<taken, pending, stored, gone, known>>

Remove ==
  /\ AtMost(stored', stored)
  /\ stored' = [k \in Keys |-> stored'[k]]
  /\ gone' = Moved(gone, stored, stored')
  /\ UNCHANGED <<taken, pending, known, news, told>>

Next == \/ \E k \in Keys : Take(k)
        \/ Store \/ Lose \/ Crash \/ Tell \/ Remove

Spec == Init /\ [][Next]_vars
===============================================================================
