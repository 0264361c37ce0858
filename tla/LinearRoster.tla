----------------------------- MODULE LinearRoster -----------------------------
(***************************************************************************)
(* What the roster promises to its callers, without channel or goroutine:  *)
(* a store that every operation changes or reads in one step, at the       *)
(* moment it is called.  An operation that waits takes effect when it is   *)
(* called and returns later with what it read then.  Once the store is     *)
(* closed a call may be lost: it neither takes effect nor returns.         *)
(*                                                                         *)
(* That Roster implements this specification is what allows the modules    *)
(* about the server, the bridge and the sidebar to apply RosterOps in a    *)
(* single step.                                                            *)
(***************************************************************************)
EXTENDS RosterOps

CONSTANTS Caller, Dir, NoDir, Input, NoSnapshot

VARIABLES store,    \* the agents
          dir,      \* the launch directory
          closed,   \* Close has been called
          calling,  \* callers whose call has not returned
          answer    \* what the last Snapshot read, per caller

vars == <<store, dir, closed, calling, answer>>

Init ==
  /\ store = [a \in AgentId |-> NoAgent]
  /\ dir = NoDir
  /\ closed = FALSE
  /\ calling = {}
  /\ answer = [c \in Caller |-> NoSnapshot]

Mutate(m) ==
  /\ store' = Apply(store, m)
  /\ UNCHANGED <<dir, closed, calling, answer>>

Begin(c) == c \notin calling /\ calling' = calling \cup {c}

Snapshot(c) ==
  /\ Begin(c)
  /\ answer' = [answer EXCEPT ![c] = [agents |-> store, dir |-> dir]]
  /\ UNCHANGED <<store, dir, closed>>

SetLaunchDir(c, d) ==
  /\ Begin(c)
  /\ answer' = [answer EXCEPT ![c] = NoSnapshot]
  /\ dir' = d
  /\ UNCHANGED <<store, closed>>

\* A call that reads and writes nothing here (Subscribe), or is lost.
OtherCall(c) ==
  /\ Begin(c)
  /\ answer' = [answer EXCEPT ![c] = NoSnapshot]
  /\ UNCHANGED <<store, dir, closed>>

Return(c) ==
  /\ c \in calling
  /\ calling' = calling \ {c}
  /\ UNCHANGED <<store, dir, closed, answer>>

Close ==
  /\ closed' = TRUE
  /\ UNCHANGED <<store, dir, calling, answer>>

Next ==
  \/ \E m \in Input : Mutate(m)
  \/ \E c \in Caller :
       \/ Snapshot(c)
       \/ \E d \in Dir : SetLaunchDir(c, d)
       \/ OtherCall(c)
       \/ Return(c)
  \/ Close

\* A call returns, unless the store has been closed.
Liveness == \A c \in Caller : WF_vars(~closed /\ Return(c))

Safety == Init /\ [][Next]_vars

Spec == Safety /\ Liveness
=============================================================================
