---------------------------- MODULE MCNetConnect ----------------------------
(* One pane with the right password and one with a wrong one; a silent peer *)
(* that is waited for as long as a pane waits.                             *)
EXTENDS NetConnect
=============================================================================
