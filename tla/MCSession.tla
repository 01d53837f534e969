----------------------------- MODULE MCSession -----------------------------
(* The user changes the mode up to MaxModes - 1 times, from live mode.     *)
EXTENDS Session

BothWays == {-1, 1}
Forward == {1}
=============================================================================
