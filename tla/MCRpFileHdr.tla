---------------------------- MODULE MCRpFileHdr ----------------------------
(* Header writes and frames enough for both slots to be replaced twice, and *)
(* a file that is given up after them.                                      *)
EXTENDS RpFileHdr
=============================================================================
