------------------------------ MODULE WaitHandler ------------------------------
(***************************************************************************)
(* `mure wait <agent>`: handleCLI and handleWait of the daemon             *)
(* (internal/daemon/server.go) and the command that blocks on them         *)
(* (cmd/mure/wait.go).  Roster operations are atomic (LinearRoster), and   *)
(* everything between two of them interleaves: the handler subscribes,     *)
(* reads the roster, then follows the updates.                             *)
(*                                                                         *)
(* SubId is the set of wait commands; each has a connection and, once the  *)
(* handler has subscribed, a subscriber of its own.                        *)
(***************************************************************************)
EXTENDS RosterOps

CONSTANTS Input,     \* the mutations that agents and the bridge cause
          MaxInput,  \* bound: mutations in a behaviour
          NoAnswer   \* the command has no frame (yet)

ASSUME InputAssumption == \A m \in Input : m \in Mutation
ASSUME NoAnswerAssumption == NoAnswer \notin Update
ASSUME AgentAssumption == AgentId # {}
ASSUME BoundAssumption == MaxInput \in Nat

VARIABLES agents,   \* the roster
          subs,     \* the subscriber of each command
          waiter,   \* handler and command: the handler's pc, the agent waited
                    \* for, the roster sent for the hello, and the answer
          due,      \* history: commands whose agent has had a result to report
                    \* since the handler could know
          was,      \* history: what the agent's record was since the command asked
          inputs    \* mutations so far

vars == <<agents, subs, waiter, due, was, inputs>>

NoAgents == [a \in AgentId |-> NoAgent]

Idle(w) == [pc |-> "unused", target |-> CHOOSE a \in AgentId : TRUE,
            greeting |-> NoAgents, answer |-> NoAnswer]

Init ==
  /\ agents = NoAgents
  /\ subs = [w \in SubId |-> NewSubscriber]
  /\ waiter = [w \in SubId |-> Idle(w)]
  /\ due = {}
  /\ was = [w \in SubId |-> {}]
  /\ inputs = 0

At(w, pc) == waiter[w].pc = pc

Terminal(agent) == agent # NoAgent /\ agent.result # NoText

-----------------------------------------------------------------------------
(* The roster changes: the waiters that have subscribed are told.          *)

Mutate(m) ==
  /\ inputs < MaxInput
  /\ inputs' = inputs + 1
  /\ agents' = Apply(agents, m)
  /\ subs' = IF Silent(agents, m) THEN subs
             ELSE Broadcast(subs, UpdateOf(agents', m.id))
  /\ due' = due \cup {w \in SubId : /\ At(w, "check") \/ At(w, "loop")
                                    /\ waiter[w].target = m.id
                                    /\ Terminal(agents'[m.id])}
  /\ was' = [w \in SubId |->
               IF waiter[w].pc \in {"unused", "greeted", "done"} THEN was[w]
               ELSE was[w] \cup {agents'[waiter[w].target]}]
  /\ UNCHANGED waiter

-----------------------------------------------------------------------------
(* The command and its handler.                                            *)

\* dialHello; handleCLI answers every hello with the roster.
DialHello(w, a) ==
  /\ At(w, "unused")
  /\ waiter' = [waiter EXCEPT ![w] = [@ EXCEPT !.pc = "greeted", !.target = a,
                                               !.greeting = agents]]
  /\ UNCHANGED <<agents, subs, due, was, inputs>>

\* The command has drained the roster and sends its wait frame.
Ask(w) ==
  /\ At(w, "greeted")
  /\ waiter' = [waiter EXCEPT ![w].pc = "subscribe"]
  /\ was' = [was EXCEPT ![w] = {agents[waiter[w].target]}]
  /\ UNCHANGED <<agents, subs, due, inputs>>

SubscribeWait(w) ==
  /\ At(w, "subscribe")
  /\ subs' = [subs EXCEPT ![w] = Subscribe(@)]
  /\ waiter' = [waiter EXCEPT ![w].pc = "check"]
  /\ UNCHANGED <<agents, due, was, inputs>>

\* The handler returns: the answer is written, or the connection just closes.
Finish(w, answer) ==
  /\ waiter' = [waiter EXCEPT ![w].pc = "done", ![w].answer = answer]
  /\ subs' = [subs EXCEPT ![w] = Cancel(@)]

\* Mutant: the roster sent for the hello is looked at instead of a new one.
CheckGreeting(w) ==
  LET t == waiter[w].target
  IN  /\ At(w, "check")
      /\ IF Terminal(waiter[w].greeting[t])
           THEN Finish(w, [id |-> t, agent |-> waiter[w].greeting[t]])
           ELSE waiter' = [waiter EXCEPT ![w].pc = "loop"] /\ UNCHANGED subs
      /\ due' = IF Terminal(agents[t]) THEN due \cup {w} ELSE due
      /\ UNCHANGED <<agents, was, inputs>>

\* The snapshot after the subscription.
Check(w) ==
  LET t == waiter[w].target
  IN  /\ At(w, "check")
      /\ IF Terminal(agents[t])
           THEN Finish(w, UpdateOf(agents, t))
           ELSE waiter' = [waiter EXCEPT ![w].pc = "loop"] /\ UNCHANGED subs
      /\ due' = IF Terminal(agents[t]) THEN due \cup {w} ELSE due
      /\ UNCHANGED <<agents, was, inputs>>

\* An update is received.
Receive(w) ==
  LET u == Head(subs[w].ch)
  IN  /\ At(w, "loop")
      /\ subs[w].ch # <<>>
      /\ IF u.id = waiter[w].target /\ Terminal(u.agent)
           THEN Finish(w, u)
           ELSE subs' = [subs EXCEPT ![w].ch = Tail(@)] /\ UNCHANGED waiter
      /\ UNCHANGED <<agents, due, was, inputs>>

\* The channel was closed and is drained: return without a frame.
FeedClosed(w) ==
  /\ At(w, "loop")
  /\ subs[w].ch = <<>> /\ ~subs[w].open
  /\ Finish(w, NoAnswer)
  /\ UNCHANGED <<agents, due, was, inputs>>

handleWait(w) == SubscribeWait(w) \/ Check(w) \/ Receive(w) \/ FeedClosed(w)

-----------------------------------------------------------------------------
Next ==
  \/ \E m \in Input : Mutate(m)
  \/ \E w \in SubId : (\E a \in AgentId : DialHello(w, a)) \/ Ask(w) \/ handleWait(w)

Spec == Init /\ [][Next]_vars

\* Handlers run; nothing obliges agents to come, end or report.
Fairness == \A w \in SubId : WF_vars(handleWait(w))

FairSpec == Spec /\ Fairness

-----------------------------------------------------------------------------
Waiter == [pc : {"unused", "greeted", "subscribe", "check", "loop", "done"},
           target : AgentId, greeting : Agents, answer : Update \cup {NoAnswer}]

TypeOK ==
  /\ agents \in Agents
  /\ subs \in [SubId -> Subscriber]
  /\ waiter \in [SubId -> Waiter]
  /\ due \in SUBSET SubId
  /\ was \in [SubId -> SUBSET (AgentState \cup {NoAgent})]
  /\ inputs \in 0 .. MaxInput

\* What the comment in handleWait promises: no transition is lost between the
\* subscription and the snapshot, nor later.  A handler that has nothing left
\* to look at has had no result to report.
NoLostResult ==
  \A w \in SubId :
    At(w, "loop") /\ subs[w].open /\ subs[w].ch = <<>> => w \notin due

\* A result that is printed is one that the agent's record held since the
\* command asked, and not an earlier one.
AnswerWasTrue ==
  \A w \in SubId :
    waiter[w].answer # NoAnswer =>
      /\ waiter[w].answer.id = waiter[w].target
      /\ waiter[w].answer.agent \in was[w]
      /\ Terminal(waiter[w].answer.agent)

\* A command whose agent had a result to report is released, also when its
\* feed overflowed on the way.
ResultReleases == \A w \in SubId : w \in due ~> At(w, "done")

\* What the comment on cmdWait promises: wait blocks until there is a result
\* or the agent's terminal state.  A command whose agent was in the roster
\* since it asked, and has left it for good, is released.
GoneReleases ==
  \A w \in SubId :
    [](/\ At(w, "loop") /\ was[w] # {NoAgent}
       /\ [](agents[waiter[w].target] = NoAgent)
       => <>At(w, "done"))
=============================================================================
