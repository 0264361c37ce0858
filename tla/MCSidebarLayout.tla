---------------------------- MODULE MCSidebarLayout ----------------------------
(***************************************************************************)
(* SidebarLayout for TLC.                                                  *)
(***************************************************************************)
EXTENDS SidebarLayout

=============================================================================
