------------------------------- MODULE Delivery -------------------------------
(***************************************************************************)
(* What a sensor and the hub promise together: packets reach the hub at    *)
(* least once, or the sensor knows that it gave them up.  The sensor owes  *)
(* what it captured until the hub confirms it or the sensor forgets it; it *)
(* sends copies of what it owes, a copy is delivered whole and once, or it *)
(* vanishes, and only what was delivered is confirmed.  The same packets   *)
(* may travel in several copies.                                           *)
(***************************************************************************)
EXTENDS Naturals

CONSTANTS
  Ips,    \* remote addresses
  Slots   \* copies that may travel at a time

VARIABLES
  owed,       \* packets the sensor still keeps for the hub, per address
  copies,     \* what travels in each slot
  delivered,  \* packets the hub has taken, copies counted
  confirmed   \* packets the sensor was told the hub has

vars == <<owed, copies, delivered, confirmed>>

Nothing == [ip \in Ips |-> 0]
Plus(f, g) == [ip \in Ips |-> f[ip] + g[ip]]
AtMost(f, g) == \A ip \in Ips : f[ip] <= g[ip]

Init == /\ owed = Nothing /\ delivered = Nothing /\ confirmed = Nothing
        /\ copies = [s \in Slots |-> Nothing]

Capture(ip) ==
  /\ owed' = [owed EXCEPT ![ip] = @ + 1]
  /\ UNCHANGED <<copies, delivered, confirmed>>

Send(s) ==
  /\ copies[s] = Nothing
  /\ AtMost(copies'[s], owed)
  /\ copies' = [copies EXCEPT ![s] = copies'[s]]
  /\ UNCHANGED <<owed, delivered, confirmed>>

Deliver(s) ==
  /\ delivered' = Plus(delivered, copies[s])
  /\ copies' = [copies EXCEPT ![s] = Nothing]
  /\ UNCHANGED <<owed, confirmed>>

\* What is confirmed was delivered, and is owed no longer.
Confirm ==
  /\ AtMost(confirmed, confirmed') /\ AtMost(confirmed', delivered)
  /\ AtMost(Plus(owed', confirmed'), Plus(owed, confirmed))
  /\ UNCHANGED <<copies, delivered>>

\* The sensor forgets packets, copies vanish, or both at once.
Forget ==
  /\ AtMost(owed', owed)
  /\ \A s \in Slots : copies'[s] \in {copies[s], Nothing}
  /\ copies' = [s \in Slots |-> copies'[s]]
  /\ UNCHANGED <<delivered, confirmed>>

Next == \/ \E ip \in Ips : Capture(ip)
        \/ \E s \in Slots : Send(s) \/ Deliver(s)
        \/ Confirm \/ Forget

Spec == Init /\ [][Next]_vars
===============================================================================
