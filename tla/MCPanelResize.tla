--------------------------- MODULE MCPanelResize ----------------------------
(* Two pages and a collection are copied; a schedule entry, the active     *)
(* page, the default and the silence page may select them.  The user edits *)
(* the default, the panel and the grid, also before the conversion begins. *)
(* Three faults, saves that fail or crashes, let a rollback fail, the      *)
(* process stop over it and the recovery be interrupted as well.           *)
EXTENDS PanelResize

=============================================================================
