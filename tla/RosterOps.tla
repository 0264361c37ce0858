------------------------------ MODULE RosterOps ------------------------------
(***************************************************************************)
(* The functions that the roster goroutine executes, one operator for each *)
(* of them (internal/daemon/roster.go).  No variables: Roster.tla runs     *)
(* them behind the request channel, the modules about the server, the      *)
(* bridge and the subscribers use them as atomic operations, which         *)
(* LinearRoster.tla justifies.                                             *)
(*                                                                         *)
(* Data.  The Go map of agents is a total function whose value NoAgent     *)
(* means "no such key".  PaneID stands for the four identity fields, which *)
(* applyHelloIdentity treats alike; Status stands for Status and Task,     *)
(* which are always assigned together.  An agent_update is the id of the   *)
(* agent and its new snapshot, NoAgent for the update with Deleted = true. *)
(***************************************************************************)
EXTENDS Integers, Sequences

CONSTANTS AgentId,    \* the keys of rosterCore.agents
          Pane,       \* pane ids a hello may carry
          NoPane,     \* the empty pane id
          Text,       \* non-empty result texts
          NoText,     \* the empty result text
          NoAgent,    \* "the map has no such key"
          SubId,      \* identities of *subscriber
          SubBuf      \* subscriberBufSize

ASSUME SubBufAssumption == SubBuf \in Nat \ {0}
ASSUME NoPaneAssumption == NoPane \notin Pane

\* sock.ValidStatus, and the empty string an agent has before its first status.
Vocabulary == {"idle", "working", "blocked"}
NoStatus == "unset"

AgentState == [pane   : Pane \cup {NoPane},
               status : Vocabulary \cup {NoStatus},
               ended  : Nat,
               result : Text \cup {NoText}]

ASSUME NoAgentAssumption == NoAgent \notin AgentState

Agents == [AgentId -> AgentState \cup {NoAgent}]
Update == [id : AgentId, agent : AgentState \cup {NoAgent}]

NewAgent(status) ==
  [pane |-> NoPane, status |-> status, ended |-> 0, result |-> NoText]

\* The record under id, or the one that the caller would create.
Found(agents, id, status) ==
  IF agents[id] = NoAgent THEN NewAgent(status) ELSE agents[id]

-----------------------------------------------------------------------------
(* The mutations.  A mutation is a record with the operation, the agent,    *)
(* and what the frame carries.                                              *)

Mutation ==
       [op : {"hello", "identity"}, id : AgentId, pane : Pane \cup {NoPane}]
  \cup [op : {"status"}, id : AgentId, status : Vocabulary, ts : Nat]
  \cup [op : {"result"}, id : AgentId, text : Text \cup {NoText}]
  \cup [op : {"remove"}, id : AgentId]

ApplyHelloIdentity(a, h) ==
  IF h.pane = NoPane THEN a ELSE [a EXCEPT !.pane = h.pane]

UpsertFromHello(agents, h) ==
  [agents EXCEPT ![h.id] = ApplyHelloIdentity(Found(agents, h.id, "idle"), h)]

UpdateIdentityIfPresent(agents, h) ==
  IF agents[h.id] = NoAgent THEN agents
  ELSE [agents EXCEPT ![h.id] = ApplyHelloIdentity(agents[h.id], h)]

ApplyStatus(agents, st) ==
  LET a == Found(agents, st.id, NoStatus)
  IN  [agents EXCEPT ![st.id] =
         [a EXCEPT !.status = st.status,
                   !.ended = IF st.status = "idle" THEN st.ts ELSE a.ended]]

ApplyResult(agents, rs) ==
  LET a == Found(agents, rs.id, NoStatus)
  IN  [agents EXCEPT ![rs.id] = [a EXCEPT !.result = rs.text]]

\* Mutant: the record is marked and stays in the map.
RemoveByMark(agents, rm) == [agents EXCEPT ![rm.id] = NewAgent("removed")]

Remove(agents, rm) == [agents EXCEPT ![rm.id] = NoAgent]

Apply(agents, m) ==
  CASE m.op = "hello"    -> UpsertFromHello(agents, m)
    [] m.op = "identity" -> UpdateIdentityIfPresent(agents, m)
    [] m.op = "status"   -> ApplyStatus(agents, m)
    [] m.op = "result"   -> ApplyResult(agents, m)
    [] m.op = "remove"   -> Remove(agents, m)

\* Mutant: a removal is not broadcast.
SilentRemove(agents, m) ==
  \/ m.op = "identity" /\ agents[m.id] = NoAgent
  \/ m.op = "remove"

\* The early returns: nothing is broadcast when there is no such agent.
Silent(agents, m) ==
  m.op \in {"identity", "remove"} /\ agents[m.id] = NoAgent

\* What is broadcast after a mutation that left the map as agents.
UpdateOf(agents, id) == [id |-> id, agent |-> agents[id]]

-----------------------------------------------------------------------------
(* Subscribers.  "member" is membership of core.subscribers, "flag" is      *)
(* subscriber.closed, "open" and "ch" are the Go channel itself: the code   *)
(* keeps flag and open in step, the model does not assume that it does.     *)

Subscriber == [member : BOOLEAN, flag : BOOLEAN, open : BOOLEAN, ch : Seq(Update)]

NewSubscriber == [member |-> FALSE, flag |-> FALSE, open |-> TRUE, ch |-> <<>>]

Subscribe(s) == [s EXCEPT !.member = TRUE]

\* close(s.ch); s.closed = true
CloseSub(s) == [s EXCEPT !.open = FALSE, !.flag = TRUE]

Cancel(s) ==
  IF ~s.member THEN s
  ELSE LET gone == [s EXCEPT !.member = FALSE]
       IN  IF s.flag THEN gone ELSE CloseSub(gone)

\* Mutants: on overflow the update is dropped and the channel stays open, as a
\* select with an empty default does; or the channel is closed and neither the
\* flag nor the membership says so.
DeliverOrDrop(s, u) ==
  IF ~s.member THEN s
  ELSE IF s.flag THEN [s EXCEPT !.member = FALSE]
  ELSE IF Len(s.ch) < SubBuf THEN [s EXCEPT !.ch = Append(s.ch, u)]
  ELSE s

DeliverOrForget(s, u) ==
  IF ~s.member THEN s
  ELSE IF s.flag THEN [s EXCEPT !.member = FALSE]
  ELSE IF Len(s.ch) < SubBuf THEN [s EXCEPT !.ch = Append(s.ch, u)]
  ELSE [s EXCEPT !.open = FALSE]

\* One iteration of the loop of broadcast, the same code as in Remove.
Deliver(s, u) ==
  IF ~s.member THEN s
  ELSE IF s.flag THEN [s EXCEPT !.member = FALSE]
  ELSE IF Len(s.ch) < SubBuf THEN [s EXCEPT !.ch = Append(s.ch, u)]
  ELSE [CloseSub(s) EXCEPT !.member = FALSE]

Broadcast(subs, u) == [i \in DOMAIN subs |-> Deliver(subs[i], u)]

\* Mutant: run returns without closing the channels.
QuitSubForgotten(s) == s

\* One iteration of the loop that run executes when the roster is closed.
QuitSub(s) == IF s.member /\ ~s.flag THEN CloseSub(s) ELSE s

\* Sending on a closed channel and closing it again both panic.  Deliver,
\* Cancel and QuitSub do one or the other exactly when this holds.
Panics(s) == s.member /\ ~s.flag /\ ~s.open
=============================================================================
