---------------------------- MODULE MCSidebarModel ----------------------------
(***************************************************************************)
(* SidebarModel for TLC.  Agents are numbers, as their order matters.      *)
(***************************************************************************)
EXTENDS SidebarModel

=============================================================================
