------------------------------- MODULE MCCapture -------------------------------
(* A small instance of Capture for TLC: two hosts on the LAN, two remote.  *)
EXTENDS Capture, TLC

CONSTANTS me, pub, l1, l2, r1, r2, w1, w2

\* The hosts of the LAN are interchangeable, and so are the remote ones.
Symmetry == Permutations({l1, l2}) \cup Permutations({r1, r2})
===============================================================================
