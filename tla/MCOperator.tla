----------------------------- MODULE MCOperator -----------------------------
(* Operator with one setting, one pin, two event threads, two threads that *)
(* serve initial loads, and one page: pages share nothing but the hub, and *)
(* each is compared with the table.                                        *)
EXTENDS Operator, TLC

CONSTANTS search, lanIp, h1, h2, r1, r2, c1

MCSettings == {search}
MCPins     == {lanIp}
MCSeeded   == search :> FALSE
MCFallback == search :> TRUE
MCHandlers == {h1, h2}
MCReaders  == {r1, r2}
MCClients  == {c1}
Symmetry   == Permutations(MCHandlers) \cup Permutations(MCReaders)
=============================================================================
