----------------------------- MODULE MCRpRecover -----------------------------
(* A small file that comes round within one behaviour, with a restart at   *)
(* any point of it.                                                        *)
EXTENDS RpRecover
=============================================================================
