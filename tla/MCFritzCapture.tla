--------------------------- MODULE MCFritzCapture ---------------------------
(* Small instances of FritzCapture for TLC.                                *)
EXTENDS FritzCapture, TLC

CONSTANTS f1, p1, p2
==============================================================================
