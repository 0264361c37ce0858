----------------------------- MODULE RosterLinear -----------------------------
(***************************************************************************)
(* Roster implements LinearRoster.  The requests in the channel count as   *)
(* executed: the abstract store is the roster after all of them, and the   *)
(* answer to a Snapshot that is still in the channel is the roster after   *)
(* the requests in front of it.                                            *)
(***************************************************************************)
EXTENDS Roster

\* What the goroutine has now, and has after executing request r on st.
Now == [agents |-> agents, dir |-> launchDir]

Execute(st, r) ==
  CASE r \in Input            -> [st EXCEPT !.agents = Apply(@, r)]
    [] r.op = "launchdir"     -> [st EXCEPT !.dir = r.dir]
    [] OTHER                  -> st

\* What it has after executing the first n of the requests, for every n.
After(requests, st) ==
  LET f[n \in 0 .. Len(requests)] ==
        IF n = 0 THEN st ELSE Execute(f[n - 1], requests[n])
  IN  f

Settled == After(reqs, Now)[Len(reqs)]

AnswerOf(c) ==
  LET mine == {i \in DOMAIN reqs : reqs[i] = [op |-> "snapshot", by |-> c]}
  IN  IF mine = {} THEN snapshot[c]
      ELSE After(reqs, Now)[(CHOOSE i \in mine : TRUE) - 1]

Linear == INSTANCE LinearRoster WITH
  store   <- Settled.agents,
  dir     <- Settled.dir,
  closed  <- quit,
  calling <- waiting,
  answer  <- [c \in Caller |-> AnswerOf(c)]

\* Callers see an atomic roster: every operation takes effect between its call
\* and its return, in one order for all callers, and returns before Close.
Linearizable == Linear!Spec
=============================================================================
