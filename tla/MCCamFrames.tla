---------------------------- MODULE MCCamFrames ----------------------------
(* The constants of the code.  Two service threads change the resolution;  *)
(* 75 frames let the longest silence come to its end.                      *)
EXTENDS CamFrames
=============================================================================
