--------------------------- MODULE MCSensorIngest ---------------------------
(* Small instances of SensorIngest for TLC.                                *)
EXTENDS SensorIngest, TLC

CONSTANTS a, b, c, h1, h2

\* The hub's threads are interchangeable, and so are the addresses.
Symmetry == Permutations(Handlers) \cup Permutations(Ips)
==============================================================================
