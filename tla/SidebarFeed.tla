------------------------------ MODULE SidebarFeed ------------------------------
(***************************************************************************)
(* How the roster reaches a sidebar: handleSidebar of the daemon           *)
(* (internal/daemon/server.go), the sidebar's client with its reconnects   *)
(* (internal/sidebar/client.go) and the model that the frames are applied  *)
(* to (internal/sidebar/model.go).  Roster operations are atomic           *)
(* (LinearRoster); the subscriber's channel, the socket and the client's   *)
(* Frames channel are bounded queues, and each stage moves on its own.     *)
(*                                                                         *)
(* The daemon may crash or be stopped and be started again, with an empty  *)
(* roster; the sidebar may be closed.  SubId is the sequence of the        *)
(* sidebar's sessions, each with a connection and, once the handler has    *)
(* subscribed, a subscriber of its own.  A dial that fails leaves the      *)
(* client where it was; the time between two dials is not modelled.        *)
(***************************************************************************)
EXTENDS RosterOps, FiniteSets

CONSTANTS Input,      \* the mutations that agents cause
          WireCap,    \* frames a socket holds before a write blocks
          FrameCap,   \* capacity of Client.Frames (64 in NewClient)
          MaxInput,   \* bound: mutations in a behaviour
          MaxCrash    \* bound: crashes of the daemon

ASSUME SessionAssumption == SubId = 1 .. Cardinality(SubId)
ASSUME CapAssumption     == WireCap \in Nat \ {0} /\ FrameCap \in Nat \ {0}
ASSUME InputAssumption   == \A m \in Input : m \in Mutation
ASSUME BoundAssumption   == MaxInput \in Nat /\ MaxCrash \in Nat

VARIABLES agents,   \* the roster
          subs,     \* the subscriber of each session
          up,       \* the daemon runs
          handler,  \* the goroutine of each session in the daemon
          wire,     \* each connection: frames in flight, open in the daemon
          client,   \* the client goroutine and the number of its session
          frames,   \* Client.Frames
          view,     \* Model.agents, as a function
          shown,    \* Model.connected
          missed,   \* history: agents whose last change the session was not told
          count     \* inputs and crashes so far

daemon  == <<agents, subs, up, handler>>
sidebar == <<client, frames, view, shown>>
vars    == <<agents, subs, up, handler, wire, client, frames, view, shown,
             missed, count>>

RosterFrame == [event : {"roster"}, agents : Agents]
UpdateFrame == [event : {"agent_update"}, update : Update]
Frame       == RosterFrame \cup UpdateFrame \cup [event : {"connect", "disconnect"}]

NoAgents == [a \in AgentId |-> NoAgent]

Init ==
  /\ agents = NoAgents
  /\ subs = [k \in SubId |-> NewSubscriber]
  /\ up = TRUE
  /\ handler = [k \in SubId |-> "unused"]
  /\ wire = [k \in SubId |-> [sent |-> <<>>, open |-> FALSE]]
  /\ client = [pc |-> "dial", session |-> 0]
  /\ frames = <<>>
  /\ view = NoAgents
  /\ shown = FALSE
  /\ missed = [k \in SubId |-> {}]
  /\ count = [input |-> 0, crash |-> 0]

-----------------------------------------------------------------------------
(* Agents and the daemon process.                                          *)

\* A session between its snapshot and its subscription misses the update; one
\* that is subscribed is sent it, or is closed.
Mutate(m) ==
  /\ up
  /\ count.input < MaxInput
  /\ count' = [count EXCEPT !.input = @ + 1]
  /\ agents' = Apply(agents, m)
  /\ IF Silent(agents, m)
       THEN UNCHANGED <<subs, missed>>
       ELSE /\ subs' = Broadcast(subs, UpdateOf(agents', m.id))
            /\ missed' = [k \in SubId |->
                 CASE handler[k] = "subscribe" -> missed[k] \cup {m.id}
                   [] handler[k] = "forward"   -> missed[k] \ {m.id}
                   [] OTHER                    -> missed[k]]
  /\ UNCHANGED <<up, handler, wire, sidebar>>

\* The process ends: the kernel closes the connections.  What was written is
\* still delivered.
Crash ==
  /\ up
  /\ count.crash < MaxCrash
  /\ count' = [count EXCEPT !.crash = @ + 1]
  /\ up' = FALSE
  /\ agents' = NoAgents
  /\ subs' = [k \in SubId |-> NewSubscriber]
  /\ handler' = [k \in SubId |-> IF handler[k] = "unused" THEN "unused" ELSE "done"]
  /\ wire' = [k \in SubId |-> [wire[k] EXCEPT !.open = FALSE]]
  /\ UNCHANGED <<sidebar, missed>>

Start ==
  /\ ~up
  /\ up' = TRUE
  /\ UNCHANGED <<agents, subs, handler, wire, sidebar, missed, count>>

-----------------------------------------------------------------------------
(* handleSidebar, for session k.                                           *)

Write(k, f) ==
  /\ Len(wire[k].sent) < WireCap
  /\ wire' = [wire EXCEPT ![k].sent = Append(@, f)]

ClientGone(k) == client.pc = "gone" \/ client.session # k

WriteRoster(k) ==
  /\ handler[k] = "snapshot"
  /\ Write(k, [event |-> "roster", agents |-> agents])
  /\ handler' = [handler EXCEPT ![k] = "subscribe"]
  /\ UNCHANGED <<agents, subs, up, sidebar, missed, count>>

SubscribeFeed(k) ==
  /\ handler[k] = "subscribe"
  /\ subs' = [subs EXCEPT ![k] = Subscribe(@)]
  /\ handler' = [handler EXCEPT ![k] = "forward"]
  /\ UNCHANGED <<agents, up, wire, sidebar, missed, count>>

\* An update is received and written; a handler blocked in the write is one
\* that cannot take this step yet.
Forward(k) ==
  /\ handler[k] = "forward"
  /\ subs[k].ch # <<>>
  /\ Write(k, [event |-> "agent_update", update |-> Head(subs[k].ch)])
  /\ subs' = [subs EXCEPT ![k].ch = Tail(@)]
  /\ UNCHANGED <<agents, up, handler, sidebar, missed, count>>

\* Mutant: the handler returns and leaves the connection open.
FinishOpen(k) ==
  /\ handler[k] = "forward"
  /\ \/ subs[k].ch = <<>> /\ ~subs[k].open
     \/ ClientGone(k)
  /\ subs' = [subs EXCEPT ![k] = Cancel(@)]
  /\ handler' = [handler EXCEPT ![k] = "done"]
  /\ UNCHANGED <<agents, up, wire, sidebar, missed, count>>

\* Mutant: nobody reads from the client, so that its end goes unnoticed.
FinishUnread(k) ==
  /\ handler[k] = "forward" /\ subs[k].ch = <<>> /\ ~subs[k].open
  /\ subs' = [subs EXCEPT ![k] = Cancel(@)]
  /\ handler' = [handler EXCEPT ![k] = "done"]
  /\ wire' = [wire EXCEPT ![k].open = FALSE]
  /\ UNCHANGED <<agents, up, sidebar, missed, count>>

\* The channel is closed and drained, or the reader or a write finds that the
\* client is gone: cancel and close the connection, as both defers do.
Finish(k) ==
  /\ \/ handler[k] = "forward" /\ subs[k].ch = <<>> /\ ~subs[k].open
     \/ handler[k] \in {"snapshot", "forward"} /\ ClientGone(k)
  /\ subs' = [subs EXCEPT ![k] = Cancel(@)]
  /\ handler' = [handler EXCEPT ![k] = "done"]
  /\ wire' = [wire EXCEPT ![k].open = FALSE]
  /\ UNCHANGED <<agents, up, sidebar, missed, count>>

handleSidebar(k) == WriteRoster(k) \/ SubscribeFeed(k) \/ Forward(k) \/ Finish(k)

-----------------------------------------------------------------------------
(* The client goroutine.                                                   *)

Send(f) ==
  /\ Len(frames) < FrameCap
  /\ frames' = Append(frames, f)

\* Dial, hello and the frame that says so; the daemon's handler gets as far as
\* handleSidebar.
Dial ==
  LET k == client.session + 1
  IN  /\ client.pc = "dial"
      /\ up
      /\ k \in SubId
      /\ client' = [pc |-> "read", session |-> k]
      /\ handler' = [handler EXCEPT ![k] = "snapshot"]
      /\ wire' = [wire EXCEPT ![k].open = TRUE]
      /\ Send([event |-> "connect"])
      /\ UNCHANGED <<agents, subs, up, view, shown, missed, count>>

Read ==
  LET k == client.session
  IN  /\ client.pc = "read"
      /\ wire[k].sent # <<>>
      /\ Send(Head(wire[k].sent))
      /\ wire' = [wire EXCEPT ![k].sent = Tail(@)]
      /\ UNCHANGED <<daemon, client, view, shown, missed, count>>

\* The end of the stream: session returns, and Run dials again.
EndSession ==
  LET k == client.session
  IN  /\ client.pc = "read"
      /\ wire[k].sent = <<>> /\ ~wire[k].open
      /\ Send([event |-> "disconnect"])
      /\ client' = [client EXCEPT !.pc = "dial"]
      /\ UNCHANGED <<daemon, wire, view, shown, missed, count>>

\* The sidebar is closed.
Quit ==
  /\ client.pc # "gone"
  /\ client' = [client EXCEPT !.pc = "gone"]
  /\ UNCHANGED <<daemon, wire, frames, view, shown, missed, count>>

-----------------------------------------------------------------------------
(* The model.                                                              *)

\* Mutant: a deletion is shown as an agent with nothing but its id.
applyUndeleted(f) ==
  /\ view' = CASE f.event = "roster" -> f.agents
               [] f.event = "agent_update" /\ f.update.agent # NoAgent ->
                    [view EXCEPT ![f.update.id] = f.update.agent]
               [] f.event = "agent_update" /\ f.update.agent = NoAgent ->
                    [view EXCEPT ![f.update.id] = NewAgent(NoStatus)]
               [] OTHER -> view
  /\ shown' = CASE f.event \in {"roster", "connect"} -> TRUE
                [] f.event = "disconnect"            -> FALSE
                [] OTHER                             -> shown

\* A roster replaces the rows, an update puts in, replaces or removes a row.
applyFrame(f) ==
  /\ view' = CASE f.event = "roster"       -> f.agents
               [] f.event = "agent_update" ->
                    [view EXCEPT ![f.update.id] = f.update.agent]
               [] OTHER                    -> view
  /\ shown' = CASE f.event \in {"roster", "connect"} -> TRUE
                [] f.event = "disconnect"            -> FALSE
                [] OTHER                             -> shown

UpdateView ==
  /\ client.pc # "gone"
  /\ frames # <<>>
  /\ applyFrame(Head(frames))
  /\ frames' = Tail(frames)
  /\ UNCHANGED <<daemon, wire, client, missed, count>>

-----------------------------------------------------------------------------
Next ==
  \/ \E m \in Input : Mutate(m)
  \/ Crash \/ Start
  \/ \E k \in SubId : handleSidebar(k)
  \/ Dial \/ Read \/ EndSession \/ Quit
  \/ UpdateView

Spec == Init /\ [][Next]_vars

\* The goroutines on both sides run.  Nobody is obliged to start the daemon
\* again, to close the sidebar or to cause updates.
Fairness ==
  /\ \A k \in SubId : WF_vars(handleSidebar(k))
  /\ WF_vars(Dial \/ Read \/ EndSession)
  /\ WF_vars(UpdateView)

FairSpec == Spec /\ Fairness

-----------------------------------------------------------------------------
TypeOK ==
  /\ agents \in Agents
  /\ subs \in [SubId -> Subscriber]
  /\ up \in BOOLEAN
  /\ handler \in [SubId -> {"unused", "snapshot", "subscribe", "forward", "done"}]
  /\ wire \in [SubId -> [sent : Seq(RosterFrame \cup UpdateFrame), open : BOOLEAN]]
  /\ client \in [pc : {"dial", "read", "gone"}, session : {0} \cup SubId]
  /\ client.pc = "read" => client.session \in SubId
  /\ frames \in Seq(Frame)
  /\ view \in Agents
  /\ shown \in BOOLEAN
  /\ missed \in [SubId -> SUBSET AgentId]
  /\ count \in [input : 0 .. MaxInput, crash : 0 .. MaxCrash]

\* The sidebar is connected and nothing is on its way to it.
Drained ==
  LET k == client.session
  IN  /\ client.pc = "read"
      /\ handler[k] = "forward" /\ subs[k].open /\ subs[k].ch = <<>>
      /\ wire[k].sent = <<>> /\ frames = <<>>

\* What the sidebar shows is the roster, whatever was queued, overflowed,
\* crashed or reconnected on the way, except for the agents whose last change
\* fell between the snapshot and the subscription of this session.
ViewFollows ==
  Drained => \A a \in AgentId \ missed[client.session] : view[a] = agents[a]

\* What docs/current.md and the PRD say: the sidebar is a pure view of the
\* roster, kept up by updates.
PureView == Drained => view = agents

\* A sidebar that is slow, disconnected or overtaken by a crash recovers: from
\* some time on it shows the roster as ViewFollows has it, unless it has been
\* closed or there is no daemon.
Recovers ==
  <>[](\/ client.pc = "gone" \/ ~up
       \/ shown /\ Drained /\ ViewFollows)

\* The daemon forgets a sidebar that has gone: its subscriber leaves the roster,
\* which otherwise fills and keeps a channel for nobody.
Forgotten ==
  \A k \in SubId : (handler[k] = "forward" /\ ClientGone(k)) ~> ~subs[k].member
=============================================================================
