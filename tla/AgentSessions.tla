----------------------------- MODULE AgentSessions -----------------------------
(***************************************************************************)
(* What puts agents into the roster and takes them out: the handlers of    *)
(* agent connections (Server.handle, handleAgent in                        *)
(* internal/daemon/server.go), one goroutine per connection, and the       *)
(* bridge that compares the roster with the live tmux panes                *)
(* (internal/daemon/tmuxbridge.go).  Roster operations are atomic, as      *)
(* LinearRoster justifies; everything between two of them interleaves.     *)
(*                                                                         *)
(* The environment: agent processes, each in a tmux pane of its own and    *)
(* run by some harness.  Some harnesses hold a connection of their own (an *)
(* owner: the protocol's lifecycle connection) and drop it; some send each *)
(* frame over a connection of its own (oneshot: `mure emit` and the        *)
(* TypeScript plugins).  Which pane a hello names depends on the           *)
(* environment variables of the process that sends it.  An agent without   *)
(* tmux is one whose pane no hello names.  The kernel delivers what was    *)
(* written before a close.                                                 *)
(***************************************************************************)
EXTENDS RosterOps

CONSTANTS MaxConn,  \* bound: connections, each is used once
          MaxEmit,  \* bound: frames sent by one agent
          Harness,  \* the harnesses that may run an agent
          UserPane  \* panes that mure did not open, alive at first

ASSUME BoundsAssumption == MaxConn \in Nat /\ MaxEmit \in Nat
ASSUME UserPaneAssumption == UserPane \subseteq Pane

Frame == [event : {"status"}, status : Vocabulary]
           \cup [event : {"result"}, text : Text \cup {NoText}]
           \cup [event : {"bye", "other", "malformed"}]

\* owns: it holds a connection of its own; own, emit: what it sends over that
\* connection and over oneshot ones; awaits: it waits for the daemon to close a
\* oneshot connection before it emits again.  env: which variables what it runs
\* finds, MURE_PANE_ID or TMUX_PANE (mure spawn sets them), only TMUX, or none.
ASSUME HarnessAssumption ==
  \A h \in Harness :
    /\ h.owns \in BOOLEAN /\ h.awaits \in BOOLEAN
    /\ h.env \in {"pane", "tmux", "bare"}
    /\ \A f \in h.own \cup h.emit : f \in Frame

Conn == 1 .. MaxConn

VARIABLES agents,   \* the roster
          harness,  \* what runs each agent
          proc,     \* agent processes: not spawned yet, their pane and whether they run
          emitted,  \* what each agent did: number of frames and last status
          live,     \* panes that exist in tmux
          conn,     \* connections
          bridge    \* the bridge goroutine

vars == <<agents, harness, proc, emitted, live, conn, bridge>>

NotSpawned == [pane |-> NoPane, runs |-> FALSE]

\* sent: written and not read yet; closed: closed by the client; pc: what the
\* handler does next.
Connection ==
  [id : AgentId, pane : Pane \cup {NoPane}, oneshot : BOOLEAN, sent : Seq(Frame),
   closed : BOOLEAN, pc : {"hello", "read", "reapply", "done"}]

Unused == [id |-> "none"]
Used(c) == conn[c] # Unused
Serves(c, a) == Used(c) /\ conn[c].id = a

Init ==
  /\ agents = [a \in AgentId |-> NoAgent]
  /\ harness \in [AgentId -> Harness]
  /\ proc = [a \in AgentId |-> NotSpawned]
  /\ emitted = [a \in AgentId |-> [n |-> 0, status |-> NoStatus]]
  /\ live = UserPane
  /\ conn = [c \in Conn |-> Unused]
  /\ bridge = [pc |-> "wait", live |-> {}, doomed |-> {}]

-----------------------------------------------------------------------------
(* The environment.                                                        *)

\* mure spawn: a new pane (tmux does not reuse pane ids) with a new agent.
Spawn(a, p) ==
  /\ proc[a] = NotSpawned
  /\ p \notin UserPane
  /\ \A b \in AgentId : proc[b].pane # p
  /\ proc' = [proc EXCEPT ![a] = [pane |-> p, runs |-> TRUE]]
  /\ live' = live \cup {p}
  /\ UNCHANGED <<agents, harness, emitted, conn, bridge>>

\* Connections are numbered in the order in which they are opened.
Open(c, a, pane, oneshot, frames) ==
  /\ ~Used(c)
  /\ \A d \in 1 .. c - 1 : Used(d)
  /\ conn' = [conn EXCEPT ![c] =
       [id |-> a, pane |-> pane, oneshot |-> oneshot, sent |-> frames,
        closed |-> oneshot, pc |-> "hello"]]

Says(a, f) ==
  /\ emitted[a].n < MaxEmit
  /\ emitted' = [emitted EXCEPT ![a] =
       [n |-> @.n + 1, status |-> IF f.event = "status" THEN f.status ELSE @.status]]

\* The pane a oneshot hello names: the agent's own if the environment says so.
\* Otherwise tmux is asked for the active pane, which may be anybody's, and has
\* no answer when it fails; without tmux there is none.
emitPaneID(a) ==
  CASE harness[a].env = "pane" -> {proc[a].pane}
    [] harness[a].env = "tmux" -> live \cup {NoPane}
    [] harness[a].env = "bare" -> {NoPane}

\* An owner knows its pane from the environment only.
OwnPane(a) == IF harness[a].env = "pane" THEN proc[a].pane ELSE NoPane

\* The agent opens its connection, again when the last one is over.
Connect(a, c) ==
  /\ proc[a].runs
  /\ harness[a].owns
  /\ \A d \in Conn : Serves(d, a) /\ ~conn[d].oneshot =>
                       conn[d].closed \/ conn[d].pc = "done"
  /\ Open(c, a, OwnPane(a), FALSE, <<>>)
  /\ UNCHANGED <<agents, harness, proc, emitted, live, bridge>>

SendOwn(c, f) ==
  /\ Used(c) /\ ~conn[c].oneshot /\ ~conn[c].closed
  /\ f \in harness[conn[c].id].own
  /\ Says(conn[c].id, f)
  /\ conn' = [conn EXCEPT ![c].sent = Append(@, f)]
  /\ UNCHANGED <<agents, harness, proc, live, bridge>>

\* The agent's side drops the connection it owns.
Drop(c) ==
  /\ Used(c) /\ ~conn[c].closed
  /\ conn' = [conn EXCEPT ![c].closed = TRUE]
  /\ UNCHANGED <<agents, harness, proc, emitted, live, bridge>>

\* sendOneshot: hello and frame are written and the connection is closed,
\* whatever the daemon has done with them by then.  The emitter is a process of
\* its own, which may outlive the pane it was started in.
sendOneshot(a, c, f) ==
  /\ proc[a] # NotSpawned
  /\ f \in harness[a].emit
  /\ harness[a].awaits => \A d \in Conn : Serves(d, a) => conn[d].pc = "done"
  /\ Says(a, f)
  /\ \E p \in emitPaneID(a) : Open(c, a, p, TRUE, <<f>>)
  /\ UNCHANGED <<agents, harness, proc, live, bridge>>

\* The pane is killed, and with it the agent and the connection it owns.
KillPane(a) ==
  /\ proc[a].runs
  /\ proc' = [proc EXCEPT ![a].runs = FALSE]
  /\ live' = live \ {proc[a].pane}
  /\ conn' = [c \in Conn |-> IF Serves(c, a) THEN [conn[c] EXCEPT !.closed = TRUE]
                                             ELSE conn[c]]
  /\ UNCHANGED <<agents, harness, emitted, bridge>>

\* The user closes a pane of his own.
CloseUserPane(p) ==
  /\ p \in live \cap UserPane
  /\ live' = live \ {p}
  /\ UNCHANGED <<agents, harness, proc, emitted, conn, bridge>>

-----------------------------------------------------------------------------
(* The handler of connection c.  Each roster call is a step of its own.    *)

At(c, pc) == Used(c) /\ conn[c].pc = pc

Goto(c, pc) == conn' = [conn EXCEPT ![c].pc = pc]

\* The frame at the head of what the client wrote, and the handler after it.
Reads(c, event, pc) ==
  /\ At(c, "read")
  /\ conn[c].sent # <<>>
  /\ Head(conn[c].sent).event = event
  /\ conn' = [conn EXCEPT ![c].sent = Tail(@), ![c].pc = pc]
  /\ UNCHANGED <<harness, proc, emitted, live, bridge>>

HelloOf(c) == [op |-> "hello", id |-> conn[c].id, pane |-> conn[c].pane]

AfterFrame(c) == IF conn[c].oneshot THEN "reapply" ELSE "read"

Hello(c) ==
  /\ At(c, "hello")
  /\ agents' = IF conn[c].oneshot THEN UpdateIdentityIfPresent(agents, HelloOf(c))
                                  ELSE UpsertFromHello(agents, HelloOf(c))
  /\ Goto(c, "read")
  /\ UNCHANGED <<harness, proc, emitted, live, bridge>>

ReadStatus(c) ==
  /\ Reads(c, "status", AfterFrame(c))
  /\ agents' = ApplyStatus(agents, [id |-> conn[c].id, ts |-> 1,
                                    status |-> Head(conn[c].sent).status])

ReadResult(c) ==
  /\ Reads(c, "result", AfterFrame(c))
  /\ agents' = ApplyResult(agents, [id |-> conn[c].id,
                                    text |-> Head(conn[c].sent).text])

\* Mutant: the identity is not applied to the record that the frame created.
ReapplyForgotten(c) ==
  /\ At(c, "reapply")
  /\ Goto(c, "read")
  /\ UNCHANGED <<agents, harness, proc, emitted, live, bridge>>

\* After a frame of a oneshot connection its identity is applied once more.
Reapply(c) ==
  /\ At(c, "reapply")
  /\ agents' = UpdateIdentityIfPresent(agents, HelloOf(c))
  /\ Goto(c, "read")
  /\ UNCHANGED <<harness, proc, emitted, live, bridge>>

ReadBye(c) ==
  /\ Reads(c, "bye", "done")
  /\ agents' = Remove(agents, [id |-> conn[c].id])

ReadOther(c) == Reads(c, "other", "read") /\ UNCHANGED agents

\* A frame that does not decode ends the handler, without Remove.
ReadMalformed(c) == Reads(c, "malformed", "done") /\ UNCHANGED agents

\* Mutants: every connection owns its agent; the handler gives up as soon as
\* the client has closed, with frames unread.
ReadEndOfAny(c) ==
  /\ At(c, "read")
  /\ conn[c].sent = <<>> /\ conn[c].closed
  /\ agents' = Remove(agents, [id |-> conn[c].id])
  /\ Goto(c, "done")
  /\ UNCHANGED <<harness, proc, emitted, live, bridge>>

ReadEndEarly(c) ==
  /\ At(c, "read")
  /\ conn[c].closed
  /\ agents' = IF conn[c].oneshot THEN agents
                                  ELSE Remove(agents, [id |-> conn[c].id])
  /\ Goto(c, "done")
  /\ UNCHANGED <<harness, proc, emitted, live, bridge>>

\* A read error, that is the end of the stream.
ReadEnd(c) ==
  /\ At(c, "read")
  /\ conn[c].sent = <<>> /\ conn[c].closed
  /\ agents' = IF conn[c].oneshot THEN agents
                                  ELSE Remove(agents, [id |-> conn[c].id])
  /\ Goto(c, "done")
  /\ UNCHANGED <<harness, proc, emitted, live, bridge>>

handle(c) ==
  \/ Hello(c) \/ ReadStatus(c) \/ ReadResult(c) \/ Reapply(c)
  \/ ReadBye(c) \/ ReadOther(c) \/ ReadMalformed(c) \/ ReadEnd(c)

-----------------------------------------------------------------------------
(* Bridge.reconcile, on a tick of the poll timer.                          *)

\* list-panes answers; a failing one ends the tick and is no step here.
ListPanes ==
  /\ bridge.pc = "wait"
  /\ bridge' = [pc |-> "listed", live |-> live, doomed |-> {}]
  /\ UNCHANGED <<agents, harness, proc, emitted, live, conn>>

\* The snapshot, and the agents in it whose pane was not in the list, which is
\* not looked at again.
TakeSnapshot ==
  /\ bridge.pc = "listed"
  /\ bridge' = [bridge EXCEPT
       !.pc = "prune", !.live = {},
       !.doomed = {a \in AgentId :
                     /\ agents[a] # NoAgent
                     /\ agents[a].pane # NoPane
                     /\ agents[a].pane \notin bridge.live}]
  /\ UNCHANGED <<agents, harness, proc, emitted, live, conn>>

Prune(a) ==
  /\ bridge.pc = "prune"
  /\ a \in bridge.doomed
  /\ agents' = Remove(agents, [id |-> a])
  /\ bridge' = [bridge EXCEPT !.doomed = @ \ {a}]
  /\ UNCHANGED <<harness, proc, emitted, live, conn>>

EndTick ==
  /\ bridge.pc = "prune"
  /\ bridge.doomed = {}
  /\ bridge' = [pc |-> "wait", live |-> {}, doomed |-> {}]
  /\ UNCHANGED <<agents, harness, proc, emitted, live, conn>>

reconcile == ListPanes \/ TakeSnapshot \/ (\E a \in AgentId : Prune(a)) \/ EndTick

-----------------------------------------------------------------------------
Environment ==
  \/ \E a \in AgentId :
       \/ \E p \in Pane : Spawn(a, p)
       \/ \E c \in Conn :
            \/ Connect(a, c)
            \/ \E f \in Frame : sendOneshot(a, c, f)
       \/ KillPane(a)
  \/ \E c \in Conn : (\E f \in Frame : SendOwn(c, f)) \/ Drop(c)
  \/ \E p \in Pane : CloseUserPane(p)

Next == Environment \/ (\E c \in Conn : handle(c)) \/ reconcile

Spec == Init /\ [][Next]_vars

\* Goroutines run and the timer ticks.  Nothing is asked of the environment.
Fairness == (\A c \in Conn : WF_vars(handle(c))) /\ WF_vars(reconcile)

FairSpec == Spec /\ Fairness

-----------------------------------------------------------------------------
TypeOK ==
  /\ agents \in Agents
  /\ harness \in [AgentId -> Harness]
  /\ proc \in [AgentId -> [pane : Pane \cup {NoPane}, runs : BOOLEAN]]
  /\ emitted \in [AgentId -> [n : 0 .. MaxEmit, status : Vocabulary \cup {NoStatus}]]
  /\ live \in SUBSET Pane
  /\ conn \in [Conn -> Connection \cup {Unused}]
  /\ bridge \in [pc : {"wait", "listed", "prune"}, live : SUBSET Pane,
                 doomed : SUBSET AgentId]

Listed(a) == agents[a] # NoAgent
Owns(c, a) == Serves(c, a) /\ ~conn[c].oneshot
Dead(a) == proc[a].pane # NoPane /\ ~proc[a].runs

\* No emitter ever takes an agent out of the roster: an entry disappears only
\* because a connection that owns the agent said bye or ended, or because the
\* bridge found its pane missing.
OnlyOwnersRemove ==
  [][\A a \in AgentId : Listed(a) /\ ~Listed(a)' =>
       \/ \E c \in Conn : Owns(c, a) /\ At(c, "read") /\ At(c, "done")'
       \/ a \in bridge.doomed]_vars

\* Somebody will take the entry of a out: the bridge when its pane, which it has
\* or is about to get, is gone, or the end of a connection that owns a.
HasReaper(a) ==
  \/ agents[a].pane # NoPane
  \/ \E c \in Conn : Serves(c, a) /\ At(c, "reapply") /\ conn[c].pane # NoPane
  \/ \E c \in Conn : Owns(c, a) /\ conn[c].pc \in {"hello", "read"}

\* An emit for a was handled whose hello named no pane (emitPaneID found none).
Paneless(a) ==
  \E c \in Conn : Serves(c, a) /\ conn[c].oneshot /\ conn[c].pane = NoPane
                    /\ conn[c].pc # "hello"

\* Nothing stays in the roster for ever unless it came from an emit that named
\* no pane: an entry without a pane, which the bridge never prunes, is about to
\* get one or has a connection whose end removes it (handleAgent).
EntryHasReaper == \A a \in AgentId : Listed(a) => HasReaper(a) \/ Paneless(a)

\* The same without the exception.  test/emit_e2e.sh makes such an entry, and it
\* stays: `mure emit` outside of a pane is enough.
AllHaveReaper == \A a \in AgentId : Listed(a) => HasReaper(a)

\* An emit for a named no pane, or one that is alive, whosever it is.
Misplaced(a) ==
  \E c \in Conn : Serves(c, a) /\ conn[c].oneshot
                    /\ conn[c].pane \in live \cup {NoPane}

\* An agent whose pane was killed leaves the roster for good, whatever frames
\* of it were still under way, and whichever pane that has gone by now, its own
\* or the user's, they named.
DeadLeave == \A a \in AgentId : [](Dead(a) => <>[](~Listed(a) \/ Misplaced(a)))

\* All that a has sent has been handled.
Settled(a) == \A c \in Conn : Serves(c, a) => conn[c].pc = "done"

\* An agent whose harness waits for the daemon, that is listed with a status,
\* and all of whose emits have been handled, is shown with the status that it
\* emitted last: not with an older one.
ShowsLastStatus ==
  \A a \in AgentId :
    /\ harness[a].awaits /\ ~harness[a].owns
    /\ Listed(a) /\ Settled(a) /\ agents[a].status # NoStatus
    => agents[a].status = emitted[a].status

\* What section 12.1 of the PRD says of reconnecting agents, that the roster is
\* rebuilt from their hello: the end of an old connection does not take out an
\* agent whose new hello has been handled.
ReconnectedStays ==
  [][\A a \in AgentId : \A c, d \in Conn :
       /\ c # d /\ Owns(c, a) /\ ReadEnd(c)
       /\ Owns(d, a) /\ At(d, "read") /\ ~conn[d].closed
       => Listed(a)']_vars
=============================================================================
