---------------------------- MODULE MCPaneConfig ----------------------------
(* Three definitions, the last of which is none.  A name may be defined    *)
(* twice.                                                                  *)
EXTENDS PaneConfig, TLC
CONSTANTS a, b
MCDefaults == (0 :> [name |-> a, addr |-> 1]) @@ (1 :> [name |-> b, addr |-> 1]) @@ (2 :> None)
MCDefaultSel == [p \in Panes |-> 0]
=============================================================================
