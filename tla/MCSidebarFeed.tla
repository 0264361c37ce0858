----------------------------- MODULE MCSidebarFeed -----------------------------
(***************************************************************************)
(* SidebarFeed for TLC: one agent that comes, changes and goes, and a      *)
(* second one that comes, so that an update can be about another agent     *)
(* than the one that was missed.                                           *)
(***************************************************************************)
EXTENDS SidebarFeed

CONSTANTS a1, a2, p1

MCInput ==
  { [op |-> "hello", id |-> a1, pane |-> p1],
    [op |-> "status", id |-> a1, status |-> "working", ts |-> 1],
    [op |-> "remove", id |-> a1],
    [op |-> "hello", id |-> a2, pane |-> NoPane] }
=============================================================================
