---------------------------- MODULE MCFrameList ----------------------------
(* One viewer and the recorder: liveness rules out a symmetry of viewers,   *)
(* and the safety properties are proved for any number of them.            *)
EXTENDS FrameList
=============================================================================
