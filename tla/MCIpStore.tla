------------------------------ MODULE MCIpStore ------------------------------
(* Small instances of IpStore for TLC.                                     *)
EXTENDS IpStore, TLC

CONSTANTS a, b, d1, d2, w1, w2

\* The writers are interchangeable, and so are the devices.
Symmetry == Permutations(Writers) \cup Permutations(Devices)
==============================================================================
