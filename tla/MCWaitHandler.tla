----------------------------- MODULE MCWaitHandler -----------------------------
(***************************************************************************)
(* WaitHandler for TLC: the agent waited for reports two results and an    *)
(* empty one, leaves and comes back; another one only adds to the feed.    *)
(***************************************************************************)
EXTENDS WaitHandler

CONSTANTS a1, a2, x1, x2

MCInput ==
  { [op |-> "status", id |-> a1, status |-> "working", ts |-> 1],
    [op |-> "result", id |-> a1, text |-> x1],
    [op |-> "result", id |-> a1, text |-> x2],
    [op |-> "result", id |-> a1, text |-> NoText],
    [op |-> "remove", id |-> a1],
    [op |-> "status", id |-> a2, status |-> "working", ts |-> 1] }

=============================================================================
