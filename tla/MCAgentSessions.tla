---------------------------- MODULE MCAgentSessions ----------------------------
(***************************************************************************)
(* AgentSessions for TLC: the harnesses of the runs.                       *)
(***************************************************************************)
EXTENDS AgentSessions

CONSTANTS x1

Status(s) == [event |-> "status", status |-> s]
Result    == [event |-> "result", text |-> x1]
Event(e)  == [event |-> e]

\* The agent of the PRD: a connection for life, and tools that emit beside it.
Lifecycle == [owns |-> TRUE, own |-> {Status("working"), Event("bye")},
              emit |-> {Result}, awaits |-> FALSE, env |-> "pane"]

\* A TypeScript plugin: one connection after the other, each awaited; a text that
\* is too long for a frame does not decode.
Plugin == [owns |-> FALSE, own |-> {},
           emit |-> {Status("working"), Status("idle"), Event("malformed")}, awaits |-> TRUE, env |-> "pane"]

\* Hook scripts that do not wait, with tmux to ask for a pane.
Hooks == [owns |-> FALSE, own |-> {},
          emit |-> {Result}, awaits |-> FALSE, env |-> "tmux"]

\* A connection for life with events that the daemon ignores, and emits beside
\* it, of an agent that knows no pane.
Bare == [owns |-> TRUE, own |-> {Event("other")}, emit |-> {Result}, awaits |-> FALSE,
         env |-> "bare"]

\* An agent that only reports what it does over its connection.
Reporter == [owns |-> TRUE, own |-> {Status("working"), Status("idle")},
             emit |-> {}, awaits |-> FALSE, env |-> "pane"]

AllHarnesses == {Lifecycle, Plugin, Hooks, Bare}
OnlyReporter == {Reporter}

\* mure emit from outside of tmux, as in test/emit_e2e.sh.
Outside == [owns |-> FALSE, own |-> {}, emit |-> {Status("working")}, awaits |-> FALSE,
            env |-> "bare"]

OnlyOutside == {Outside}
=============================================================================
