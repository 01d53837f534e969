----------------------------- MODULE MCRpRing -----------------------------
(* The file has place for 7 to 14 frames, the table lists at most 7: in  *)
(* some behaviours the file comes round first, in others the table.      *)
EXTENDS RpRing
===========================================================================
