------------------------------- MODULE MCRoster -------------------------------
(***************************************************************************)
(* RosterLinear for TLC: two callers, so that their requests interleave in *)
(* the channel.  The inputs create an agent in two ways, update it, remove *)
(* it, and take each early return.                                         *)
(***************************************************************************)
EXTENDS RosterLinear

CONSTANTS a1, a2, p1, x1

MCInput ==
  { [op |-> "hello", id |-> a1, pane |-> p1],
    [op |-> "identity", id |-> a2, pane |-> p1],
    [op |-> "result", id |-> a2, text |-> x1],
    [op |-> "remove", id |-> a1] }
=============================================================================
