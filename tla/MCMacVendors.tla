----------------------------- MODULE MCMacVendors -----------------------------
(* A small instance of MacVendors for TLC.                                 *)
EXTENDS MacVendors, TLC

CONSTANTS i1, m1, m2, c1, w1, w2
===============================================================================
