--------------------------- MODULE MCDeviceControl ---------------------------
(* Small instances of DeviceControl for TLC.                               *)
EXTENDS DeviceControl, TLC

CONSTANTS t1, t2, s1, fritz

\* The threads of the web server are interchangeable.
Symmetry == Permutations(Admins)
==============================================================================
