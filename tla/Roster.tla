-------------------------------- MODULE Roster --------------------------------
(***************************************************************************)
(* The roster goroutine and its callers (internal/daemon/roster.go).       *)
(*                                                                         *)
(* Every operation is a closure sent over the buffered channel reqs and    *)
(* executed by run, in the order it was sent.  submit returns once the     *)
(* closure is in the channel, submitWait once it has been executed; both   *)
(* choose arbitrarily between the channel and quit when both are ready.    *)
(* A caller blocked on a full channel has changed nothing yet, so being    *)
(* blocked is not being able to take the step.                             *)
(*                                                                         *)
(* log, pos and end are history variables: the updates broadcast so far,   *)
(* and for each subscriber the part of the log it has been handed: it has  *)
(* read the log up to pos and was sent the log up to end.                  *)
(***************************************************************************)
EXTENDS RosterOps

CONSTANTS Caller,     \* goroutines that use the roster
          Dir,        \* arguments of SetLaunchDir
          NoDir,      \* the empty launch directory
          ReqCap,     \* capacity of reqs (64 in NewRoster)
          Input,      \* the mutations that callers may submit
          MaxLog,     \* bound: broadcasts in a behaviour
          NoSnapshot  \* "Snapshot has not returned to this caller"

ASSUME ReqCapAssumption == ReqCap \in Nat \ {0}
ASSUME MaxLogAssumption == MaxLog \in Nat
ASSUME InputAssumption  == \A m \in Input : m \in Mutation
ASSUME NoSnapshotAssumption ==
  NoSnapshot \notin [agents : Agents, dir : Dir \cup {NoDir}]

VARIABLES agents,     \* rosterCore.agents
          launchDir,  \* rosterCore.launchDir
          subs,       \* the subscribers, members of rosterCore.subscribers or not
          reqs,       \* the request channel
          quit,       \* the quit channel is closed
          loop,       \* the goroutine of run
          waiting,    \* callers blocked in submitWait
          snapshot,   \* what Snapshot returned last to each caller
          held,       \* who has this subscriber: nobody, a call under way, a caller
          log, pos, end

core    == <<agents, launchDir, subs>>
channel == <<reqs, quit, loop>>
clients == <<waiting, snapshot, held>>
history == <<log, pos, end>>
vars    == <<agents, launchDir, subs, reqs, quit, loop,
             waiting, snapshot, held, log, pos, end>>

Request ==
       Input
  \cup [op : {"snapshot"}, by : Caller]
  \cup [op : {"launchdir"}, by : Caller, dir : Dir]
  \cup [op : {"subscribe"}, by : Caller, sub : SubId]
  \cup [op : {"cancel"}, sub : SubId]

Init ==
  /\ agents = [a \in AgentId |-> NoAgent]
  /\ launchDir = NoDir
  /\ subs = [s \in SubId |-> NewSubscriber]
  /\ reqs = <<>>
  /\ quit = FALSE
  /\ loop = "running"
  /\ waiting = {}
  /\ snapshot = [c \in Caller |-> NoSnapshot]
  /\ held = [s \in SubId |-> "nobody"]
  /\ log = <<>>
  /\ pos = [s \in SubId |-> 0]
  /\ end = [s \in SubId |-> 0]

-----------------------------------------------------------------------------
(* The callers.                                                            *)

\* Mutant: a full channel drops the closure, as a send with a default does.
submitOrDrop(r) ==
  /\ \/ Len(reqs) < ReqCap /\ reqs' = Append(reqs, r)
     \/ Len(reqs) = ReqCap /\ UNCHANGED reqs
     \/ quit /\ UNCHANGED reqs
  /\ UNCHANGED <<quit, loop>>

\* The select of submit: the closure goes into the channel, or is dropped.
submit(r) ==
  /\ \/ Len(reqs) < ReqCap /\ reqs' = Append(reqs, r)
     \/ quit /\ UNCHANGED reqs
  /\ UNCHANGED <<quit, loop>>

submitWait(c, r) ==
  /\ c \notin waiting
  /\ submit(r)
  /\ waiting' = waiting \cup {c}
  /\ snapshot' = [snapshot EXCEPT ![c] = NoSnapshot]

\* UpsertFromHello, UpdateIdentityIfPresent, ApplyStatus, ApplyResult, Remove.
Mutate(c, m) ==
  /\ c \notin waiting
  /\ Len(log) + Len(reqs) < MaxLog
  /\ submit(m)
  /\ UNCHANGED <<core, clients, history>>

Snapshot(c) ==
  /\ submitWait(c, [op |-> "snapshot", by |-> c])
  /\ UNCHANGED <<core, held, history>>

SetLaunchDir(c, d) ==
  /\ submitWait(c, [op |-> "launchdir", by |-> c, dir |-> d])
  /\ UNCHANGED <<core, held, history>>

CallSubscribe(c, s) ==
  /\ held[s] = "nobody"
  /\ submitWait(c, [op |-> "subscribe", by |-> c, sub |-> s])
  /\ held' = [held EXCEPT ![s] = "call"]
  /\ UNCHANGED <<core, history>>

\* The cancel func, which may be called more than once.
CallCancel(s) ==
  /\ held[s] = "caller"
  /\ submit([op |-> "cancel", sub |-> s])
  /\ UNCHANGED <<core, clients, history>>

\* The holder of a subscriber receives from its channel.
Receive(s) ==
  /\ held[s] = "caller"
  /\ subs[s].ch # <<>>
  /\ subs' = [subs EXCEPT ![s].ch = Tail(@)]
  /\ pos' = [pos EXCEPT ![s] = @ + 1]
  /\ UNCHANGED <<agents, launchDir, channel, clients, log, end>>

-----------------------------------------------------------------------------
(* The goroutine: one action per closure.                                  *)

\* Mutant: the last request is executed first.
NextLast(r) ==
  /\ loop = "running"
  /\ reqs # <<>>
  /\ r = reqs[Len(reqs)]
  /\ reqs' = SubSeq(reqs, 1, Len(reqs) - 1)
  /\ UNCHANGED quit

Next1(r) ==
  /\ loop = "running"
  /\ reqs # <<>>
  /\ r = Head(reqs)
  /\ reqs' = Tail(reqs)
  /\ UNCHANGED quit

\* The loop goes on, unless one of the subscribers that it closes or sends to
\* has a closed channel.
LoopAfter(touched) ==
  loop' = IF \E s \in touched : Panics(subs[s]) THEN "panicked" ELSE "running"

ExecMutation(r) ==
  /\ r.op \in {"hello", "identity", "status", "result", "remove"}
  /\ Next1(r)
  /\ agents' = Apply(agents, r)
  /\ IF Silent(agents, r)
       THEN UNCHANGED <<subs, loop, log, end>>
       ELSE LET u == UpdateOf(agents', r.id)
            IN  /\ subs' = Broadcast(subs, u)
                /\ LoopAfter(SubId)
                /\ log' = Append(log, u)
                /\ end' = [s \in SubId |->
                             IF subs'[s].member THEN Len(log') ELSE end[s]]
  /\ UNCHANGED <<launchDir, clients, pos>>

ExecSnapshot(r) ==
  /\ r.op = "snapshot"
  /\ Next1(r)
  /\ snapshot' = [snapshot EXCEPT ![r.by] = [agents |-> agents, dir |-> launchDir]]
  /\ waiting' = waiting \ {r.by}
  /\ UNCHANGED <<core, loop, held, history>>

\* Mutant: the closure does not close the done channel of submitWait.
ExecLaunchDirNoDone(r) ==
  /\ r.op = "launchdir"
  /\ Next1(r)
  /\ launchDir' = r.dir
  /\ UNCHANGED <<agents, subs, loop, clients, history>>

ExecLaunchDir(r) ==
  /\ r.op = "launchdir"
  /\ Next1(r)
  /\ launchDir' = r.dir
  /\ waiting' = waiting \ {r.by}
  /\ UNCHANGED <<agents, subs, loop, snapshot, held, history>>

ExecSubscribe(r) ==
  /\ r.op = "subscribe"
  /\ Next1(r)
  /\ subs' = [subs EXCEPT ![r.sub] = Subscribe(@)]
  /\ pos' = [pos EXCEPT ![r.sub] = Len(log)]
  /\ end' = [end EXCEPT ![r.sub] = Len(log)]
  /\ held' = [held EXCEPT ![r.sub] = "caller"]
  /\ waiting' = waiting \ {r.by}
  /\ UNCHANGED <<agents, launchDir, loop, snapshot, log>>

ExecCancel(r) ==
  /\ r.op = "cancel"
  /\ Next1(r)
  /\ subs' = [subs EXCEPT ![r.sub] = Cancel(@)]
  /\ LoopAfter({r.sub})
  /\ UNCHANGED <<agents, launchDir, clients, history>>

\* Mutant: run looks at quit only when the channel is empty.
ReturnDrained ==
  /\ loop = "running"
  /\ quit
  /\ reqs = <<>>
  /\ subs' = [s \in SubId |-> QuitSub(subs[s])]
  /\ loop' = IF \E s \in SubId : Panics(subs[s]) THEN "panicked" ELSE "returned"
  /\ UNCHANGED <<agents, launchDir, reqs, quit, clients, history>>

\* run takes the quit branch: it closes the channels and returns.
Return ==
  /\ loop = "running"
  /\ quit
  /\ subs' = [s \in SubId |-> QuitSub(subs[s])]
  /\ loop' = IF \E s \in SubId : Panics(subs[s]) THEN "panicked" ELSE "returned"
  /\ UNCHANGED <<agents, launchDir, reqs, quit, clients, history>>

\* Close closes quit and waits for the goroutine.
Close ==
  /\ ~quit
  /\ quit' = TRUE
  /\ UNCHANGED <<core, reqs, loop, clients, history>>

-----------------------------------------------------------------------------
Run ==
  \/ \E r \in Request :
       \/ ExecMutation(r) \/ ExecSnapshot(r) \/ ExecLaunchDir(r)
       \/ ExecSubscribe(r) \/ ExecCancel(r)
  \/ Return

Call(c) ==
  \/ \E m \in Input : Mutate(c, m)
  \/ Snapshot(c)
  \/ \E d \in Dir : SetLaunchDir(c, d)
  \/ \E s \in SubId : CallSubscribe(c, s)

Next ==
  \/ Run
  \/ \E c \in Caller : Call(c)
  \/ \E s \in SubId : CallCancel(s) \/ Receive(s)
  \/ Close

Spec == Init /\ [][Next]_vars

\* The Go scheduler runs the goroutine, and the select of run does not put off
\* a closed quit channel for ever.  Nothing obliges callers to call.
Fairness == WF_vars(Run) /\ WF_vars(Return)

FairSpec == Spec /\ Fairness

-----------------------------------------------------------------------------
(* Types of the variables.                                                 *)
TypeOK ==
  /\ agents \in Agents
  /\ launchDir \in Dir \cup {NoDir}
  /\ subs \in [SubId -> Subscriber]
  /\ reqs \in Seq(Request)
  /\ quit \in BOOLEAN
  /\ loop \in {"running", "returned", "panicked"}
  /\ waiting \in SUBSET Caller
  /\ snapshot \in [Caller -> [agents : Agents, dir : Dir \cup {NoDir}]
                             \cup {NoSnapshot}]
  /\ held \in [SubId -> {"nobody", "call", "caller"}]
  /\ log \in Seq(Update)
  /\ pos \in [SubId -> Nat]
  /\ end \in [SubId -> Nat]

\* The daemon never dies of "send on closed channel" or "close of closed
\* channel": whatever the order of overflow, cancel (also a repeated one),
\* broadcast and Close, each channel is closed at most once and nothing is
\* sent to it afterwards.
NoPanic == loop # "panicked"

\* What a subscriber still has in its channel continues exactly where it
\* stopped reading, and as long as it is registered the channel ends with the
\* last broadcast: no update is skipped, repeated or moved, up to the close.
GapFree ==
  \A s \in SubId :
    /\ Len(subs[s].ch) = end[s] - pos[s]
    /\ \A i \in 1 .. Len(subs[s].ch) : subs[s].ch[i] = log[pos[s] + i]
    /\ subs[s].member => end[s] = Len(log)

\* Nothing changes in the roster behind the back of its subscribers: the last
\* update broadcast about an agent is what the roster holds for it, and an
\* agent nothing was broadcast about is not in the roster.
FeedFaithful ==
  \A a \in AgentId :
    \/ agents[a] = NoAgent /\ \A i \in DOMAIN log : log[i].id # a
    \/ \E i \in DOMAIN log :
         /\ log[i] = UpdateOf(agents, a)
         /\ \A j \in DOMAIN log : j > i => log[j].id # a

\* A subscriber that is told nothing any more is told so: its channel is
\* closed if it overflowed, was cancelled, or the goroutine has returned.
\* (An open channel without a sender would leave a sidebar or a waiter
\* listening for ever.)
SilentIsClosed ==
  \A s \in SubId :
    held[s] = "caller" /\ subs[s].open => subs[s].member /\ loop = "running"

\* r is a closure whose execution caller c waits for.
Awaited(r, c) == r.op \in {"snapshot", "launchdir", "subscribe"} /\ r.by = c

\* Before Close, a caller blocked in submitWait has exactly one closure in the
\* channel: no reply is lost and none comes twice.
OneReply ==
  ~quit => \A c \in waiting :
    \E i \in DOMAIN reqs :
      /\ Awaited(reqs[i], c)
      /\ \A j \in DOMAIN reqs : Awaited(reqs[j], c) => j = i

\* Every Snapshot, Subscribe and SetLaunchDir returns unless the roster is
\* closed under it.
CallReturns == \A c \in Caller : c \in waiting ~> (c \notin waiting \/ quit)

\* Close returns, however many requests are still in the channel.
CloseReturns == quit ~> loop = "returned"
=============================================================================
