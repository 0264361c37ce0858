----------------------------- MODULE RosterProofs -----------------------------
(***************************************************************************)
(* Proofs about Roster, for every set of callers, agents, subscribers and  *)
(* inputs, every buffer size and every channel capacity.                   *)
(***************************************************************************)
EXTENDS RosterLinear, RosterOpsProofs

-----------------------------------------------------------------------------
(* Types.                                                                  *)

\* The shape of a request, by its operation.
LEMMA RequestShape ==
  ASSUME NEW r \in Request
  PROVE  /\ r.op \in {"hello", "identity", "status", "result", "remove"} =>
              r \in Mutation /\ r.id \in AgentId
         /\ r.op \in {"snapshot", "launchdir", "subscribe"} => r.by \in Caller
         /\ r.op = "launchdir" => r.dir \in Dir
         /\ r.op \in {"subscribe", "cancel"} => r.sub \in SubId
BY InputAssumption DEF Request, Mutation

\* submit keeps the channel well formed.
LEMMA SubmitType ==
  ASSUME TypeOK, NEW r \in Request, submit(r)
  PROVE  reqs' \in Seq(Request) /\ quit' \in BOOLEAN
         /\ loop' \in {"running", "returned", "panicked"}
<1>1. reqs \in Seq(Request) /\ quit \in BOOLEAN
      /\ loop \in {"running", "returned", "panicked"}
  BY DEF TypeOK
<1>2. Append(reqs, r) \in Seq(Request)
  BY <1>1
<1> QED BY <1>1, <1>2 DEF submit

\* The step that takes a request out of the channel.
LEMMA NextType ==
  ASSUME TypeOK, NEW r, Next1(r)
  PROVE  /\ reqs' \in Seq(Request) /\ quit' \in BOOLEAN /\ r \in Request
         /\ Len(reqs') = Len(reqs) - 1
         /\ \A i \in 1 .. Len(reqs') : reqs'[i] = reqs[i + 1]
         /\ 1 \in 1 .. Len(reqs) /\ r = reqs[1]
BY DEF TypeOK, Next1

LEMMA TypeStep == TypeOK /\ [Next]_vars => TypeOK'
<1> SUFFICES ASSUME TypeOK, [Next]_vars PROVE TypeOK'
  OBVIOUS
<1>1. ASSUME NEW r, ExecMutation(r) PROVE TypeOK'
  <2>1. Next1(r) /\ r \in Mutation /\ r.id \in AgentId
    BY <1>1, NextType, RequestShape DEF ExecMutation
  <2>2. agents' \in Agents
    BY <1>1, <2>1, ApplyType DEF ExecMutation, TypeOK
  <2>3. UpdateOf(agents', r.id) \in Update
    BY <2>1, <2>2 DEF UpdateOf, Update, Agents
  <2>4. CASE Silent(agents, r)
    BY <1>1, <2>1, <2>2, <2>4, NextType
    DEF ExecMutation, TypeOK, clients
  <2>5. CASE ~Silent(agents, r)
    <3>0. /\ subs' = Broadcast(subs, UpdateOf(agents', r.id))
          /\ log' = Append(log, UpdateOf(agents', r.id))
      BY <1>1, <2>5 DEF ExecMutation
    <3>1. subs' \in [SubId -> Subscriber]
      <4>1. subs \in [SubId -> Subscriber]
        BY DEF TypeOK
      <4> QED BY <3>0, <4>1, <2>3, SubscriberType DEF Broadcast
    <3>2. log' \in Seq(Update)
      <4>1. log \in Seq(Update)
        BY DEF TypeOK
      <4> QED BY <3>0, <4>1, <2>3
    <3>3. end' \in [SubId -> Nat]
      BY <1>1, <2>5, <3>2 DEF ExecMutation, TypeOK
    <3> QED BY <1>1, <2>1, <2>2, <2>5, <3>1, <3>2, <3>3, NextType
            DEF ExecMutation, TypeOK, clients, LoopAfter
  <2> QED BY <2>4, <2>5
<1>2. ASSUME NEW r, ExecSnapshot(r) PROVE TypeOK'
  <2>1. r.by \in Caller
    BY <1>2, NextType, RequestShape DEF ExecSnapshot
  <2>2. snapshot' \in [Caller -> [agents : Agents, dir : Dir \cup {NoDir}]
                                 \cup {NoSnapshot}]
    BY <1>2, <2>1 DEF ExecSnapshot, TypeOK
  <2> QED BY <1>2, <2>2, NextType DEF ExecSnapshot, TypeOK, core, history
<1>3. ASSUME NEW r, ExecLaunchDir(r) PROVE TypeOK'
  <2>1. r.by \in Caller /\ r.dir \in Dir
    BY <1>3, NextType, RequestShape DEF ExecLaunchDir
  <2> QED BY <1>3, <2>1, NextType DEF ExecLaunchDir, TypeOK, history
<1>4. ASSUME NEW r, ExecSubscribe(r) PROVE TypeOK'
  <2>1. r.sub \in SubId
    BY <1>4, NextType, RequestShape DEF ExecSubscribe
  <2>2. Subscribe(subs[r.sub]) \in Subscriber
    <3>1. subs[r.sub] \in Subscriber
      BY <2>1 DEF TypeOK
    <3> QED BY <3>1, SubscriptionType
  <2>3. Len(log) \in Nat
    BY DEF TypeOK
  <2> QED BY <1>4, <2>1, <2>2, <2>3, NextType DEF ExecSubscribe, TypeOK
<1>5. ASSUME NEW r, ExecCancel(r) PROVE TypeOK'
  <2>1. r.sub \in SubId
    BY <1>5, NextType, RequestShape DEF ExecCancel
  <2>2. Cancel(subs[r.sub]) \in Subscriber
    <3>1. subs[r.sub] \in Subscriber
      BY <2>1 DEF TypeOK
    <3> QED BY <3>1, SubscriptionType
  <2> QED BY <1>5, <2>1, <2>2, NextType
          DEF ExecCancel, TypeOK, clients, history, LoopAfter
<1>6. ASSUME Return PROVE TypeOK'
  <2>1. ASSUME NEW s \in SubId PROVE QuitSub(subs[s]) \in Subscriber
    <3>1. subs[s] \in Subscriber
      BY DEF TypeOK
    <3> QED BY <3>1, SubscriptionType
  <2> QED BY <1>6, <2>1 DEF Return, TypeOK, clients, history
<1>7. ASSUME NEW c \in Caller, Call(c) PROVE TypeOK'
  <2>1. ASSUME NEW m \in Input, Mutate(c, m) PROVE TypeOK'
    <3>1. m \in Request
      BY DEF Request
    <3> QED BY <2>1, <3>1, SubmitType DEF Mutate, TypeOK, core, clients, history
  <2>2. CASE Snapshot(c)
    <3>1. [op |-> "snapshot", by |-> c] \in Request
      BY DEF Request
    <3> QED BY <2>2, <3>1, SubmitType
            DEF Snapshot, submitWait, TypeOK, core, history
  <2>3. ASSUME NEW d \in Dir, SetLaunchDir(c, d) PROVE TypeOK'
    <3>1. [op |-> "launchdir", by |-> c, dir |-> d] \in Request
      BY DEF Request
    <3> QED BY <2>3, <3>1, SubmitType
            DEF SetLaunchDir, submitWait, TypeOK, core, history
  <2>4. ASSUME NEW s \in SubId, CallSubscribe(c, s) PROVE TypeOK'
    <3>1. [op |-> "subscribe", by |-> c, sub |-> s] \in Request
      BY DEF Request
    <3> QED BY <2>4, <3>1, SubmitType
            DEF CallSubscribe, submitWait, TypeOK, core, history
  <2> QED BY <1>7, <2>1, <2>2, <2>3, <2>4 DEF Call
<1>8. ASSUME NEW s \in SubId, CallCancel(s) PROVE TypeOK'
  <2>1. [op |-> "cancel", sub |-> s] \in Request
    BY DEF Request
  <2> QED BY <1>8, <2>1, SubmitType DEF CallCancel, TypeOK, core, clients, history
<1>9. ASSUME NEW s \in SubId, Receive(s) PROVE TypeOK'
  <2>1. subs' \in [SubId -> Subscriber]
    <3>1. subs[s] \in Subscriber /\ Tail(subs[s].ch) \in Seq(Update)
      BY <1>9 DEF Receive, TypeOK, Subscriber
    <3>2. [subs[s] EXCEPT !.ch = Tail(subs[s].ch)] \in Subscriber
      BY <3>1 DEF Subscriber
    <3> QED BY <1>9, <3>2 DEF Receive, TypeOK
  <2> QED BY <1>9, <2>1 DEF Receive, TypeOK, channel, clients
<1>10. CASE Close
  BY <1>10 DEF Close, TypeOK, core, clients, history
<1>11. CASE UNCHANGED vars
  BY <1>11 DEF TypeOK, vars
<1> QED BY <1>1, <1>2, <1>3, <1>4, <1>5, <1>6, <1>7, <1>8, <1>9, <1>10, <1>11
        DEF Next, Run

LEMMA InitType == Init => TypeOK
<1> SUFFICES ASSUME Init PROVE TypeOK
  OBVIOUS
<1>1. agents \in Agents
  BY DEF Init, Agents
<1>2. subs \in [SubId -> Subscriber]
  <2>1. NewSubscriber \in Subscriber
    BY DEF NewSubscriber, Subscriber
  <2> QED BY <2>1 DEF Init
<1>3. reqs \in Seq(Request) /\ log \in Seq(Update)
  BY DEF Init
<1>4. waiting \in SUBSET Caller /\ launchDir \in Dir \cup {NoDir}
      /\ loop \in {"running", "returned", "panicked"} /\ quit \in BOOLEAN
  BY DEF Init
<1>5. snapshot \in [Caller -> [agents : Agents, dir : Dir \cup {NoDir}]
                              \cup {NoSnapshot}]
  BY DEF Init
<1>6. held \in [SubId -> {"nobody", "call", "caller"}]
      /\ pos \in [SubId -> Nat] /\ end \in [SubId -> Nat]
  BY DEF Init
<1> QED BY <1>1, <1>2, <1>3, <1>4, <1>5, <1>6 DEF TypeOK

\* Every variable keeps its type: in particular, no operation stores a status
\* outside the vocabulary or makes a subscriber of something else.
THEOREM Typing == Spec => []TypeOK
BY InitType, TypeStep, PTL DEF Spec

-----------------------------------------------------------------------------
(* The inductive invariant.                                                *)

\* A subscriber that is not in the hands of its caller is as it was made; the
\* flag tells whether the channel is closed; while the goroutine runs, exactly
\* the members of those in the hands of a caller have an open channel.
SubscriberInv ==
  \A s \in SubId :
    /\ held[s] # "caller" => subs[s] = NewSubscriber
    /\ subs[s].flag <=> ~subs[s].open
    /\ held[s] = "caller" /\ loop = "running" => (subs[s].member <=> subs[s].open)
    /\ held[s] = "caller" /\ loop # "running" => ~subs[s].open

\* No subscriber is registered twice, nor cancelled before its registration.
RequestInv ==
  \A i \in 1 .. Len(reqs) :
    /\ reqs[i].op = "subscribe" =>
         /\ held[reqs[i].sub] = "call"
         /\ \A j \in 1 .. Len(reqs) :
              reqs[j].op = "subscribe" /\ reqs[j].sub = reqs[i].sub => j = i
    /\ reqs[i].op = "cancel" => held[reqs[i].sub] = "caller"

\* Nobody was sent more than there is in the log.
EndInv == \A s \in SubId : end[s] <= Len(log)

IInv ==
  /\ TypeOK
  /\ NoPanic
  /\ SubscriberInv
  /\ RequestInv
  /\ GapFree
  /\ EndInv

\* The goroutine's view of a subscriber: with the flag in step with the
\* channel and only open channels registered, nothing can panic.
LEMMA NothingPanics ==
  ASSUME TypeOK, SubscriberInv, loop = "running", NEW s \in SubId
  PROVE  /\ ~Panics(subs[s])
         /\ subs[s] \in Subscriber
         /\ subs[s].member <=> (held[s] = "caller" /\ subs[s].open)
<1>1. subs[s] \in Subscriber
  BY DEF TypeOK
<1>2. held[s] # "caller" => ~subs[s].member /\ subs[s].open
  BY DEF SubscriberInv, NewSubscriber
<1> QED BY <1>1, <1>2 DEF SubscriberInv, Panics, Subscriber

\* Taking a request out of the channel keeps what the others promise.
LEMMA RequestNext ==
  ASSUME TypeOK, RequestInv, NEW r, Next1(r), held' = held
  PROVE  RequestInv'
<1>1. Len(reqs) \in Nat /\ Len(reqs') = Len(reqs) - 1
      /\ \A i \in 1 .. Len(reqs') : i + 1 \in 1 .. Len(reqs) /\ reqs'[i] = reqs[i + 1]
  BY NextType DEF TypeOK
<1> SUFFICES ASSUME NEW i \in 1 .. Len(reqs')
             PROVE  /\ reqs'[i].op = "subscribe" =>
                         /\ held[reqs'[i].sub] = "call"
                         /\ \A j \in 1 .. Len(reqs') :
                              reqs'[j].op = "subscribe" /\ reqs'[j].sub = reqs'[i].sub
                                => j = i
                    /\ reqs'[i].op = "cancel" => held[reqs'[i].sub] = "caller"
  BY DEF RequestInv
<1>2. i + 1 \in 1 .. Len(reqs) /\ reqs'[i] = reqs[i + 1]
  BY <1>1
<1>3. ASSUME NEW j \in 1 .. Len(reqs'), reqs'[i].op = "subscribe",
             reqs'[j].op = "subscribe", reqs'[j].sub = reqs'[i].sub
      PROVE  j = i
  <2>1. j + 1 \in 1 .. Len(reqs) /\ reqs'[j] = reqs[j + 1]
    BY <1>1
  <2>2. j + 1 = i + 1
    BY <1>2, <1>3, <2>1 DEF RequestInv
  <2> QED BY <2>2
<1> QED BY <1>2, <1>3 DEF RequestInv

\* A broadcast hands the update to every member that stays one.
LEMMA MutationStep ==
  ASSUME IInv, NEW r, ExecMutation(r)
  PROVE  IInv'
<1>1. TypeOK'
  <2>1. r \in Request
    BY NextType DEF IInv, ExecMutation
  <2> QED BY <2>1, TypeStep DEF IInv, Next, Run
<1>2. /\ loop = "running"
      /\ held' = held /\ pos' = pos
      /\ Len(reqs') = Len(reqs) - 1
      /\ \A i \in 1 .. Len(reqs') : reqs'[i] = reqs[i + 1]
  BY NextType DEF IInv, ExecMutation, clients, Next1
<1>3. RequestInv'
  BY <1>2, RequestNext DEF IInv, ExecMutation
<1>4. CASE Silent(agents, r)
  BY <1>1, <1>2, <1>3, <1>4
  DEF IInv, ExecMutation, NoPanic, SubscriberInv, GapFree, EndInv
<1>5. CASE ~Silent(agents, r)
  <2>0. PICK u : u = UpdateOf(agents', r.id)
    OBVIOUS
  <2>1. /\ subs' = Broadcast(subs, u)
        /\ log' = Append(log, u)
        /\ end' = [s \in SubId |-> IF subs'[s].member THEN Len(log') ELSE end[s]]
        /\ LoopAfter(SubId)
    BY <1>5, <2>0 DEF ExecMutation
  <2>2. NoPanic' /\ loop' = "running"
    BY <2>1, <1>2, NothingPanics DEF IInv, LoopAfter, NoPanic
  <2>3. u \in Update /\ log \in Seq(Update)
    <3>1. Next1(r) /\ r \in Mutation /\ r.id \in AgentId
      BY NextType, RequestShape DEF ExecMutation, IInv
    <3> QED BY <3>1, <1>1, <2>0 DEF IInv, UpdateOf, Update, Agents, TypeOK
  <2>4. /\ Len(log') = Len(log) + 1
        /\ log'[Len(log) + 1] = u
        /\ \A i \in 1 .. Len(log) : log'[i] = log[i]
    BY <2>1, <2>3
  <2>5. ASSUME NEW s \in SubId
        PROVE  /\ subs'[s] = Deliver(subs[s], u)
               /\ end'[s] = IF subs'[s].member THEN Len(log') ELSE end[s]
               /\ subs[s] \in Subscriber /\ subs[s].ch \in Seq(Update)
               /\ pos[s] \in Nat /\ end[s] \in Nat
               /\ subs[s].member => subs[s].open /\ ~subs[s].flag
               /\ subs[s].member => held[s] = "caller"
    <3>1. subs \in [SubId -> Subscriber] /\ pos[s] \in Nat /\ end[s] \in Nat
          /\ subs[s] \in Subscriber /\ subs[s].ch \in Seq(Update)
      BY DEF IInv, TypeOK, Subscriber
    <3>2. subs'[s] = Deliver(subs[s], u)
      BY <2>1, <3>1 DEF Broadcast
    <3>3. /\ subs[s].member => subs[s].open /\ held[s] = "caller"
          /\ ~Panics(subs[s])
      BY <1>2, NothingPanics DEF IInv
    <3>4. subs[s].member => ~subs[s].flag
      BY <3>3 DEF IInv, SubscriberInv
    <3> QED BY <2>1, <3>1, <3>2, <3>3, <3>4
  <2>6. SubscriberInv'
    <3> SUFFICES ASSUME NEW s \in SubId
                 PROVE  /\ held[s] # "caller" => subs'[s] = NewSubscriber
                        /\ subs'[s].flag <=> ~subs'[s].open
                        /\ held[s] = "caller" => (subs'[s].member <=> subs'[s].open)
      BY <1>2, <2>2 DEF SubscriberInv
    <3>1. CASE ~subs[s].member
      BY <3>1, <1>2, <2>3, <2>5, DeliverCases DEF IInv, SubscriberInv
    <3>2. CASE subs[s].member
      <4>1. Deliver(subs[s], u) \in Subscriber
        BY <2>3, <2>5, SubscriberType
      <4> QED BY <3>2, <4>1, <1>2, <2>3, <2>5, DeliverCases DEF Subscriber
    <3> QED BY <3>1, <3>2
  <2>7. GapFree' /\ EndInv'
    <3> SUFFICES ASSUME NEW s \in SubId
                 PROVE  /\ Len(subs'[s].ch) = end'[s] - pos[s]
                        /\ \A i \in 1 .. Len(subs'[s].ch) :
                             subs'[s].ch[i] = log'[pos[s] + i]
                        /\ subs'[s].member => end'[s] = Len(log')
                        /\ end'[s] <= Len(log')
      BY <1>2 DEF GapFree, EndInv
    <3>1. /\ Len(subs[s].ch) = end[s] - pos[s]
          /\ \A i \in 1 .. Len(subs[s].ch) : subs[s].ch[i] = log[pos[s] + i]
          /\ subs[s].member => end[s] = Len(log)
          /\ end[s] <= Len(log)
          /\ Len(log) \in Nat
      BY <2>3 DEF IInv, GapFree, EndInv
    <3>2. CASE ~subs'[s].member
      <4>1. subs'[s].ch = subs[s].ch /\ end'[s] = end[s]
        BY <3>2, <2>3, <2>5, DeliverCases
      <4>2. \A i \in 1 .. Len(subs[s].ch) : pos[s] + i \in 1 .. Len(log)
        BY <3>1, <2>5
      <4>3. \A i \in 1 .. Len(subs'[s].ch) : subs'[s].ch[i] = log'[pos[s] + i]
        BY <3>1, <4>1, <4>2, <2>4
      <4> QED BY <3>1, <3>2, <4>1, <4>3, <2>4, <2>5
    <3>3. CASE subs'[s].member
      <4>1. subs[s].member /\ subs'[s].ch = Append(subs[s].ch, u)
            /\ end'[s] = Len(log) + 1 /\ end[s] = Len(log)
        <5>1. subs[s].member
          <6>1. ~subs[s].member => subs'[s] = subs[s]
            BY <2>3, <2>5, DeliverCases
          <6> QED BY <6>1, <3>3
        <5>2. subs'[s].ch = Append(subs[s].ch, u)
          <6>1. /\ subs[s] \in Subscriber /\ u \in Update
                /\ subs[s].member => subs[s].open /\ ~subs[s].flag
                /\ subs'[s] = Deliver(subs[s], u)
            BY <2>3, <2>5
          <6> QED BY <6>1, <5>1, <3>3, DeliverCases
        <5>3. end'[s] = Len(log')
          BY <3>3, <2>5
        <5> QED BY <5>1, <5>2, <5>3, <3>1, <2>4
      <4>2. /\ Len(subs'[s].ch) = Len(subs[s].ch) + 1
            /\ subs'[s].ch[Len(subs[s].ch) + 1] = u
            /\ \A i \in 1 .. Len(subs[s].ch) : subs'[s].ch[i] = subs[s].ch[i]
        BY <4>1, <2>3, <2>5
      <4>3. ASSUME NEW i \in 1 .. Len(subs'[s].ch)
            PROVE  subs'[s].ch[i] = log'[pos[s] + i]
        <5>1. CASE i \in 1 .. Len(subs[s].ch)
          <6>1. pos[s] + i \in 1 .. Len(log)
            BY <5>1, <3>1, <4>1, <2>5
          <6> QED BY <5>1, <6>1, <3>1, <4>2, <2>4
        <5>2. CASE i = Len(subs[s].ch) + 1
          <6>1. pos[s] + i = Len(log) + 1
            BY <5>2, <3>1, <4>1, <2>5
          <6>2. log'[pos[s] + i] = u
            BY <6>1, <2>4
          <6>3. subs'[s].ch[i] = u
            BY <5>2, <4>2
          <6> QED BY <6>2, <6>3
        <5>3. Len(subs[s].ch) \in Nat
          BY <2>5
        <5> QED BY <4>2, <5>1, <5>2, <5>3
      <4>4. Len(subs'[s].ch) = end'[s] - pos[s]
        <5>1. /\ end[s] \in Nat /\ pos[s] \in Nat /\ Len(subs[s].ch) \in Nat
              /\ Len(subs[s].ch) = end[s] - pos[s]
          BY <3>1, <2>5
        <5>2. Len(subs'[s].ch) = Len(subs[s].ch) + 1 /\ end'[s] = end[s] + 1
          BY <4>1, <4>2
        <5> QED BY <5>1, <5>2
      <4>5. end'[s] = Len(log') /\ end'[s] <= Len(log')
        BY <3>1, <4>1, <2>4
      <4> QED BY <4>3, <4>4, <4>5
    <3> QED BY <3>2, <3>3
  <2> QED BY <1>1, <1>3, <2>2, <2>6, <2>7 DEF IInv
<1> QED BY <1>4, <1>5

\* A subscriber that is registered starts at the end of the log.
LEMMA SubscribeStep ==
  ASSUME IInv, NEW r, ExecSubscribe(r)
  PROVE  IInv'
<1>1. /\ r \in Request /\ r.op = "subscribe" /\ r.sub \in SubId
      /\ Len(reqs) \in Nat /\ Len(reqs') = Len(reqs) - 1
      /\ 1 \in 1 .. Len(reqs) /\ r = reqs[1]
      /\ \A i \in 1 .. Len(reqs') : i + 1 \in 1 .. Len(reqs) /\ reqs'[i] = reqs[i + 1]
  BY NextType, RequestShape DEF ExecSubscribe, IInv, TypeOK
<1>2. TypeOK'
  BY <1>1, TypeStep DEF IInv, Next, Run
<1>3. loop = "running" /\ loop' = "running" /\ log' = log /\ NoPanic'
  BY DEF ExecSubscribe, Next1, NoPanic
<1>4. held[r.sub] = "call" /\ subs[r.sub] = NewSubscriber
  BY <1>1 DEF IInv, RequestInv, SubscriberInv
<1>5. ASSUME NEW s \in SubId, s # r.sub
      PROVE  subs'[s] = subs[s] /\ held'[s] = held[s]
             /\ pos'[s] = pos[s] /\ end'[s] = end[s]
  BY <1>5 DEF ExecSubscribe, IInv, TypeOK
<1>6. /\ subs'[r.sub] = [NewSubscriber EXCEPT !.member = TRUE]
      /\ held'[r.sub] = "caller"
      /\ pos'[r.sub] = Len(log) /\ end'[r.sub] = Len(log)
  BY <1>1, <1>4 DEF ExecSubscribe, IInv, TypeOK, Subscribe
<1>7. SubscriberInv'
  BY <1>3, <1>5, <1>6 DEF IInv, SubscriberInv, NewSubscriber
<1>8. RequestInv'
  <2> SUFFICES ASSUME NEW i \in 1 .. Len(reqs')
               PROVE  /\ reqs'[i].op = "subscribe" =>
                           /\ held'[reqs'[i].sub] = "call"
                           /\ \A j \in 1 .. Len(reqs') :
                                reqs'[j].op = "subscribe"
                                  /\ reqs'[j].sub = reqs'[i].sub => j = i
                      /\ reqs'[i].op = "cancel" => held'[reqs'[i].sub] = "caller"
    BY DEF RequestInv
  <2>1. i + 1 \in 1 .. Len(reqs) /\ reqs'[i] = reqs[i + 1] /\ i + 1 # 1
    BY <1>1
  <2>2. reqs'[i] \in Request
    BY <1>2, <2>1, <1>1 DEF TypeOK
  <2>3. reqs'[i].op \in {"subscribe", "cancel"} => reqs'[i].sub \in SubId
    BY <2>2, RequestShape
  <2>4. reqs'[i].op = "subscribe" => reqs'[i].sub # r.sub
    BY <1>1, <2>1 DEF IInv, RequestInv
  <2>5. reqs'[i].op = "subscribe" => held'[reqs'[i].sub] = "call"
    BY <1>5, <2>1, <2>3, <2>4 DEF IInv, RequestInv
  <2>6. reqs'[i].op = "cancel" => held'[reqs'[i].sub] = "caller"
    BY <1>5, <1>6, <2>1, <2>3 DEF IInv, RequestInv
  <2>7. ASSUME NEW j \in 1 .. Len(reqs'), reqs'[i].op = "subscribe",
               reqs'[j].op = "subscribe", reqs'[j].sub = reqs'[i].sub
        PROVE  j = i
    <3>1. j + 1 \in 1 .. Len(reqs) /\ reqs'[j] = reqs[j + 1]
      BY <1>1
    <3>2. j + 1 = i + 1
      BY <2>1, <2>7, <3>1 DEF IInv, RequestInv
    <3> QED BY <3>2
  <2> QED BY <2>5, <2>6, <2>7
<1>9. GapFree' /\ EndInv'
  <2> SUFFICES ASSUME NEW s \in SubId
               PROVE  /\ Len(subs'[s].ch) = end'[s] - pos'[s]
                      /\ \A i \in 1 .. Len(subs'[s].ch) :
                           subs'[s].ch[i] = log[pos'[s] + i]
                      /\ subs'[s].member => end'[s] = Len(log)
                      /\ end'[s] <= Len(log)
    BY <1>3 DEF GapFree, EndInv
  <2>1. CASE s # r.sub
    BY <2>1, <1>5 DEF IInv, GapFree, EndInv
  <2>2. CASE s = r.sub
    <3>1. subs'[s].ch = <<>>
      BY <2>2, <1>6 DEF NewSubscriber
    <3>2. Len(log) \in Nat /\ end'[s] = Len(log) /\ pos'[s] = Len(log)
      BY <2>2, <1>6 DEF IInv, TypeOK
    <3> QED BY <3>1, <3>2
  <2> QED BY <2>1, <2>2
<1> QED BY <1>2, <1>3, <1>7, <1>8, <1>9 DEF IInv

\* Cancelling and leaving the loop close channels and touch nothing in them.
LEMMA CloseStep ==
  ASSUME IInv, (\E r : ExecCancel(r)) \/ Return
  PROVE  IInv'
<1>1. CASE Return
  <2>1. TypeOK'
    BY <1>1, TypeStep DEF IInv, Next, Run
  <2>2. loop = "running" /\ held' = held /\ log' = log /\ pos' = pos /\ end' = end
        /\ reqs' = reqs
    BY <1>1 DEF Return, clients, history
  <2>3. loop' = "returned"
    BY <1>1, <2>2, NothingPanics DEF Return, IInv
  <2>4. ASSUME NEW s \in SubId
        PROVE  /\ held[s] # "caller" => subs'[s].ch = subs[s].ch /\ subs'[s] = subs[s]
               /\ held[s] = "caller" =>
                    /\ ~subs'[s].open /\ subs'[s].flag
                    /\ subs'[s].ch = subs[s].ch
                    /\ subs'[s].member = subs[s].member
    <3>1. subs'[s] = QuitSub(subs[s]) /\ subs[s] \in Subscriber
      BY <1>1 DEF Return, IInv, TypeOK
    <3>2. CASE held[s] = "caller"
      BY <2>2, <3>1, <3>2, CloseCases DEF IInv, SubscriberInv
    <3>3. CASE held[s] # "caller"
      BY <3>1, <3>3 DEF IInv, SubscriberInv, NewSubscriber, QuitSub
    <3> QED BY <3>2, <3>3
  <2>5. SubscriberInv'
    BY <2>2, <2>3, <2>4 DEF IInv, SubscriberInv
  <2>6. GapFree' /\ EndInv'
    BY <2>2, <2>4 DEF IInv, GapFree, EndInv
  <2>7. RequestInv'
    BY <2>2 DEF IInv, RequestInv
  <2> QED BY <2>1, <2>3, <2>5, <2>6, <2>7 DEF IInv, NoPanic
<1>2. ASSUME NEW r, ExecCancel(r) PROVE IInv'
  <2>1. /\ r \in Request /\ r.op = "cancel" /\ r.sub \in SubId
        /\ 1 \in 1 .. Len(reqs) /\ r = reqs[1]
    BY <1>2, NextType, RequestShape DEF ExecCancel, IInv
  <2>2. TypeOK'
    BY <1>2, <2>1, TypeStep DEF IInv, Next, Run
  <2>3. loop = "running" /\ held' = held /\ log' = log /\ pos' = pos /\ end' = end
    BY <1>2 DEF ExecCancel, Next1, clients, history
  <2>4. loop' = "running"
    BY <1>2, <2>1, <2>3, NothingPanics DEF ExecCancel, LoopAfter, IInv
  <2>5. held[r.sub] = "caller"
    BY <2>1 DEF IInv, RequestInv
  <2>6. ASSUME NEW s \in SubId
        PROVE  \/ subs'[s] = subs[s]
               \/ /\ held[s] = "caller"
                  /\ ~subs'[s].member /\ ~subs'[s].open /\ subs'[s].flag
                  /\ subs'[s].ch = subs[s].ch
    <3>1. subs \in [SubId -> Subscriber] /\ subs[s] \in Subscriber
          /\ subs' = [subs EXCEPT ![r.sub] = Cancel(subs[r.sub])]
      BY <1>2 DEF ExecCancel, IInv, TypeOK
    <3>2. CASE s = r.sub
      <4>1. subs'[s] = Cancel(subs[s])
        BY <3>1, <3>2
      <4>2. (subs[s].flag <=> ~subs[s].open) /\ (subs[s].member <=> subs[s].open)
        BY <2>3, <2>5, <3>2 DEF IInv, SubscriberInv
      <4> QED BY <3>1, <3>2, <4>1, <4>2, <2>5, CloseCases
    <3>3. CASE s # r.sub
      BY <3>1, <3>3
    <3> QED BY <3>2, <3>3
  <2>7. SubscriberInv'
    BY <2>3, <2>4, <2>6 DEF IInv, SubscriberInv
  <2>8. GapFree' /\ EndInv'
    BY <2>3, <2>6 DEF IInv, GapFree, EndInv
  <2>9. RequestInv'
    BY <1>2, <2>3, RequestNext DEF IInv, ExecCancel
  <2> QED BY <2>2, <2>4, <2>7, <2>8, <2>9 DEF IInv, NoPanic
<1> QED BY <1>1, <1>2

\* submit leaves the channel alone or puts the request at its end.
LEMMA SubmitCases ==
  ASSUME TypeOK, NEW r \in Request, submit(r)
  PROVE  \/ reqs' = reqs
         \/ /\ Len(reqs) \in Nat
            /\ Len(reqs') = Len(reqs) + 1
            /\ reqs'[Len(reqs) + 1] = r
            /\ \A i \in 1 .. Len(reqs) : reqs'[i] = reqs[i]
<1>1. reqs \in Seq(Request)
  BY DEF TypeOK
<1>2. CASE reqs' = Append(reqs, r)
  BY <1>1, <1>2
<1> QED BY <1>2 DEF submit

\* Sending a request that is neither "subscribe" nor "cancel" promises nothing.
LEMMA SubmitStep ==
  ASSUME TypeOK, RequestInv, NEW r \in Request, submit(r), held' = held,
         r.op \notin {"subscribe", "cancel"}
  PROVE  RequestInv'
<1>1. \/ reqs' = reqs
      \/ /\ Len(reqs) \in Nat
         /\ Len(reqs') = Len(reqs) + 1
         /\ reqs'[Len(reqs) + 1] = r
         /\ \A i \in 1 .. Len(reqs) : reqs'[i] = reqs[i]
  BY SubmitCases
<1> QED BY <1>1 DEF RequestInv

\* The steps that only send a request, and the one that closes quit.
LEMMA CallStep ==
  ASSUME IInv, \/ \E c \in Caller : Call(c)
               \/ \E s \in SubId : CallCancel(s)
               \/ Close
  PROVE  IInv'
<1>1. TypeOK'
  BY TypeStep DEF IInv, Next
<1>2. /\ subs' = subs /\ loop' = loop /\ log' = log /\ pos' = pos /\ end' = end
      /\ \A s \in SubId : held'[s] = "caller" <=> held[s] = "caller"
  <2>1. ASSUME NEW c \in Caller, NEW s \in SubId, CallSubscribe(c, s)
        PROVE  \A x \in SubId : held'[x] = "caller" <=> held[x] = "caller"
    BY <2>1 DEF CallSubscribe, IInv, TypeOK
  <2> QED BY <2>1 DEF Call, Mutate, Snapshot, SetLaunchDir, CallSubscribe, CallCancel,
                   Close, submit, submitWait, core, clients, history, channel
<1>3. NoPanic' /\ SubscriberInv' /\ GapFree' /\ EndInv'
  BY <1>2 DEF IInv, NoPanic, SubscriberInv, GapFree, EndInv
<1>4. RequestInv'
  <2>1. ASSUME NEW c \in Caller, Call(c) PROVE RequestInv'
    <3>1. ASSUME NEW m \in Input, Mutate(c, m) PROVE RequestInv'
      <4>1. m \in Request /\ m.op \notin {"subscribe", "cancel"}
        BY InputAssumption DEF Request, Mutation
      <4> QED BY <3>1, <4>1, SubmitStep DEF Mutate, IInv, clients
    <3>2. CASE Snapshot(c)
      <4>1. [op |-> "snapshot", by |-> c] \in Request
        BY DEF Request
      <4> QED BY <3>2, <4>1, SubmitStep DEF Snapshot, submitWait, IInv
    <3>3. ASSUME NEW d \in Dir, SetLaunchDir(c, d) PROVE RequestInv'
      <4>1. [op |-> "launchdir", by |-> c, dir |-> d] \in Request
        BY DEF Request
      <4> QED BY <3>3, <4>1, SubmitStep DEF SetLaunchDir, submitWait, IInv
    <3>4. ASSUME NEW s \in SubId, CallSubscribe(c, s) PROVE RequestInv'
      <4> DEFINE r == [op |-> "subscribe", by |-> c, sub |-> s]
      <4>1. /\ held[s] = "nobody" /\ held' = [held EXCEPT ![s] = "call"]
            /\ held \in [SubId -> {"nobody", "call", "caller"}]
        BY <3>4 DEF CallSubscribe, IInv, TypeOK
      <4>2. \/ reqs' = reqs
            \/ /\ Len(reqs) \in Nat
               /\ Len(reqs') = Len(reqs) + 1
               /\ reqs'[Len(reqs) + 1] = r
               /\ \A i \in 1 .. Len(reqs) : reqs'[i] = reqs[i]
        <5>1. r \in Request
          BY DEF Request
        <5> QED BY <3>4, <5>1, SubmitCases DEF CallSubscribe, submitWait, IInv
      <4>3. ASSUME NEW i \in 1 .. Len(reqs), reqs[i].op \in {"subscribe", "cancel"}
            PROVE  reqs[i].sub \in SubId /\ reqs[i].sub # s
        <5>1. reqs[i] \in Request
          BY DEF IInv, TypeOK
        <5> QED BY <4>1, <4>3, <5>1, RequestShape DEF IInv, RequestInv
      <4>4. r.op = "subscribe" /\ r.sub = s
        OBVIOUS
      <4> HIDE DEF r
      <4> QED BY <4>1, <4>2, <4>3, <4>4 DEF IInv, RequestInv
    <3> QED BY <2>1, <3>1, <3>2, <3>3, <3>4 DEF Call
  <2>2. ASSUME NEW s \in SubId, CallCancel(s) PROVE RequestInv'
    <3> DEFINE r == [op |-> "cancel", sub |-> s]
    <3>1. held[s] = "caller" /\ held' = held
      BY <2>2 DEF CallCancel, clients
    <3>2. \/ reqs' = reqs
          \/ /\ Len(reqs) \in Nat
             /\ Len(reqs') = Len(reqs) + 1
             /\ reqs'[Len(reqs) + 1] = r
             /\ \A i \in 1 .. Len(reqs) : reqs'[i] = reqs[i]
      <4>1. r \in Request
        BY DEF Request
      <4> QED BY <2>2, <4>1, SubmitCases DEF CallCancel, IInv
    <3>3. r.op = "cancel" /\ r.sub = s
      OBVIOUS
    <3> HIDE DEF r
    <3> QED BY <3>1, <3>2, <3>3 DEF IInv, RequestInv
  <2>3. CASE Close
    BY <2>3 DEF Close, clients, IInv, RequestInv
  <2> QED BY <2>1, <2>2, <2>3
<1> QED BY <1>1, <1>3, <1>4 DEF IInv

\* Reading one update moves the reader by one in the log.
LEMMA ReceiveStep ==
  ASSUME IInv, NEW s \in SubId, Receive(s)
  PROVE  IInv'
<1>1. TypeOK'
  BY TypeStep DEF IInv, Next
<1>2. /\ subs[s] \in Subscriber /\ subs[s].ch \in Seq(Update) /\ subs[s].ch # <<>>
      /\ pos[s] \in Nat /\ end[s] \in Nat /\ held[s] = "caller"
  BY DEF Receive, IInv, TypeOK, Subscriber
<1>3. /\ loop' = loop /\ held' = held /\ log' = log /\ end' = end /\ reqs' = reqs
      /\ \A x \in SubId : x # s => subs'[x] = subs[x] /\ pos'[x] = pos[x]
      /\ subs'[s] = [subs[s] EXCEPT !.ch = Tail(subs[s].ch)]
      /\ pos'[s] = pos[s] + 1
  BY DEF Receive, channel, clients, IInv, TypeOK
<1>4. /\ subs'[s].member = subs[s].member /\ subs'[s].open = subs[s].open
      /\ subs'[s].flag = subs[s].flag /\ subs'[s].ch = Tail(subs[s].ch)
  BY <1>2, <1>3 DEF Subscriber
<1>5. SubscriberInv'
  BY <1>2, <1>3, <1>4 DEF IInv, SubscriberInv
<1>6. /\ Len(subs'[s].ch) = Len(subs[s].ch) - 1
      /\ \A i \in 1 .. Len(subs'[s].ch) :
           i + 1 \in 1 .. Len(subs[s].ch) /\ subs'[s].ch[i] = subs[s].ch[i + 1]
  BY <1>2, <1>4
<1>7. GapFree'
  <2>1. ASSUME NEW x \in SubId, x # s
        PROVE  /\ Len(subs'[x].ch) = end'[x] - pos'[x]
               /\ \A i \in 1 .. Len(subs'[x].ch) : subs'[x].ch[i] = log'[pos'[x] + i]
               /\ subs'[x].member => end'[x] = Len(log')
    BY <2>1, <1>3 DEF IInv, GapFree
  <2>2. Len(subs'[s].ch) = end'[s] - pos'[s]
    <3>1. Len(subs[s].ch) = end[s] - pos[s]
      BY DEF IInv, GapFree
    <3> QED BY <3>1, <1>2, <1>3, <1>6
  <2>3. ASSUME NEW i \in 1 .. Len(subs'[s].ch)
        PROVE  subs'[s].ch[i] = log'[pos'[s] + i]
    <3>1. i + 1 \in 1 .. Len(subs[s].ch) /\ subs'[s].ch[i] = subs[s].ch[i + 1]
      BY <1>6
    <3>2. subs[s].ch[i + 1] = log[pos[s] + (i + 1)]
      BY <3>1 DEF IInv, GapFree
    <3>3. pos[s] + (i + 1) = pos'[s] + i
      <4>1. i \in Nat
        <5>1. Len(subs'[s].ch) \in Int
          <6>1. Len(subs[s].ch) \in Nat
            BY <1>2
          <6> QED BY <1>6, <6>1
        <5> QED BY <5>1
      <4>2. pos[s] \in Nat /\ pos'[s] \in Nat /\ pos'[s] = pos[s] + 1
        BY <1>2, <1>3
      <4> QED BY <4>1, <4>2
    <3> QED BY <1>3, <3>1, <3>2, <3>3
  <2>4. subs'[s].member => end'[s] = Len(log')
    BY <1>3, <1>4 DEF IInv, GapFree
  <2> QED BY <2>1, <2>2, <2>3, <2>4 DEF GapFree
<1> QED BY <1>1, <1>3, <1>5, <1>7 DEF IInv, NoPanic, RequestInv, EndInv

LEMMA Invariance == IInv /\ [Next]_vars => IInv'
<1> SUFFICES ASSUME IInv, [Next]_vars PROVE IInv'
  OBVIOUS
<1>1. ASSUME NEW r, ExecSnapshot(r) \/ ExecLaunchDir(r) PROVE IInv'
  <2>1. Next1(r) /\ r \in Request
    BY <1>1, NextType DEF ExecSnapshot, ExecLaunchDir, IInv
  <2>2. TypeOK'
    BY <1>1, <2>1, TypeStep DEF IInv, Next, Run
  <2>3. /\ subs' = subs /\ loop' = loop /\ held' = held
        /\ log' = log /\ pos' = pos /\ end' = end
    BY <1>1 DEF ExecSnapshot, ExecLaunchDir, core, history
  <2>4. RequestInv'
    BY <2>1, <2>3, RequestNext DEF IInv
  <2> QED BY <2>2, <2>3, <2>4 DEF IInv, NoPanic, SubscriberInv, GapFree, EndInv
<1>2. CASE UNCHANGED vars
  <2>1. TypeOK'
    BY TypeStep DEF IInv
  <2> QED BY <1>2, <2>1
          DEF vars, IInv, NoPanic, SubscriberInv, RequestInv, GapFree, EndInv
<1> QED BY <1>1, <1>2, MutationStep, SubscribeStep, CloseStep, CallStep, ReceiveStep
        DEF Next, Run

LEMMA Initially == Init => IInv
<1> SUFFICES ASSUME Init PROVE IInv
  OBVIOUS
<1>1. TypeOK
  BY InitType
<1>2. NoPanic /\ RequestInv
  BY DEF Init, NoPanic, RequestInv
<1>3. SubscriberInv
  BY DEF Init, SubscriberInv, NewSubscriber
<1>4. GapFree /\ EndInv
  BY DEF Init, GapFree, EndInv, NewSubscriber
<1> QED BY <1>1, <1>2, <1>3, <1>4 DEF IInv

\* No send on a closed channel, no second close, in any order of overflow,
\* cancel, broadcast and Close.
THEOREM PanicFree == Spec => []NoPanic
<1>1. IInv => NoPanic
  BY DEF IInv
<1> QED BY <1>1, Initially, Invariance, PTL DEF Spec

\* Every subscriber is handed a contiguous part of the log.
THEOREM NoGaps == Spec => []GapFree
<1>1. IInv => GapFree
  BY DEF IInv
<1> QED BY <1>1, Initially, Invariance, PTL DEF Spec

\* A subscriber without a sender has a closed channel.
THEOREM ClosedWhenSilent == Spec => []SilentIsClosed
<1>1. IInv => SilentIsClosed
  BY DEF IInv, SubscriberInv, SilentIsClosed
<1> QED BY <1>1, Initially, Invariance, PTL DEF Spec

-----------------------------------------------------------------------------
(* The log tells the whole roster.                                          *)

LEMMA FeedStep == TypeOK /\ FeedFaithful /\ [Next]_vars => FeedFaithful'
<1> SUFFICES ASSUME TypeOK, FeedFaithful, [Next]_vars PROVE FeedFaithful'
  OBVIOUS
<1>1. ASSUME NEW r, ExecMutation(r) PROVE FeedFaithful'
  <2>1. r \in Mutation /\ r.id \in AgentId /\ agents \in Agents /\ agents' = Apply(agents, r)
    BY <1>1, NextType, RequestShape DEF ExecMutation, TypeOK
  <2>2. CASE Silent(agents, r)
    <3>1. agents' = agents /\ log' = log
      BY <1>1, <2>1, <2>2, SilentSame DEF ExecMutation
    <3> QED BY <3>1 DEF FeedFaithful, UpdateOf
  <2>3. CASE ~Silent(agents, r)
    <3>1. log' = Append(log, UpdateOf(agents', r.id))
      BY <1>1, <2>3 DEF ExecMutation
    <3>2. log \in Seq(Update) /\ UpdateOf(agents', r.id) \in Update
      <4>1. Apply(agents, r) \in Agents
        BY <2>1, ApplyType
      <4>2. agents'[r.id] \in AgentState \cup {NoAgent}
        BY <4>1, <2>1 DEF Agents
      <4>3. UpdateOf(agents', r.id) \in Update
        BY <4>2, <2>1 DEF UpdateOf, Update
      <4> QED BY <4>3 DEF TypeOK
    <3>3. /\ Len(log) \in Nat
          /\ DOMAIN log = 1 .. Len(log)
          /\ DOMAIN log' = 1 .. (Len(log) + 1)
          /\ log'[Len(log) + 1] = UpdateOf(agents', r.id)
          /\ \A i \in 1 .. Len(log) : log'[i] = log[i]
      BY <3>1, <3>2, AppendShape
    <3> SUFFICES ASSUME NEW a \in AgentId
                 PROVE  \/ agents'[a] = NoAgent /\ \A i \in DOMAIN log' : log'[i].id # a
                        \/ \E i \in DOMAIN log' :
                             /\ log'[i] = UpdateOf(agents', a)
                             /\ \A j \in DOMAIN log' : j > i => log'[j].id # a
      BY DEF FeedFaithful
    <3>4. CASE a = r.id
      <4>1. Len(log) + 1 \in DOMAIN log'
            /\ \A j \in DOMAIN log' : ~(j > Len(log) + 1)
        BY <3>3
      <4> QED BY <4>1, <3>3, <3>4
    <3>5. CASE a # r.id
      <4>1. agents'[a] = agents[a] /\ UpdateOf(agents', a) = UpdateOf(agents, a)
        BY <2>1, <3>5, ApplyFrame DEF UpdateOf
      <4>2. log'[Len(log) + 1].id # a
        BY <3>3, <3>5 DEF UpdateOf
      <4>3. CASE agents[a] = NoAgent /\ \A i \in DOMAIN log : log[i].id # a
        BY <3>3, <4>1, <4>2, <4>3
      <4>4. ASSUME NEW i \in DOMAIN log, log[i] = UpdateOf(agents, a),
                   \A j \in DOMAIN log : j > i => log[j].id # a
            PROVE  \E k \in DOMAIN log' :
                     /\ log'[k] = UpdateOf(agents', a)
                     /\ \A j \in DOMAIN log' : j > k => log'[j].id # a
        <5>1. i \in DOMAIN log' /\ log'[i] = UpdateOf(agents', a)
          BY <3>3, <4>1, <4>4
        <5>2. ASSUME NEW j \in DOMAIN log', j > i PROVE log'[j].id # a
          BY <3>3, <4>2, <4>4, <5>2
        <5> QED BY <5>1, <5>2
      <4> QED BY <4>3, <4>4 DEF FeedFaithful
    <3> QED BY <3>4, <3>5
  <2> QED BY <2>2, <2>3
<1>2. agents' = agents /\ log' = log => FeedFaithful'
  BY DEF FeedFaithful, UpdateOf
<1>3. (\A r : ~ExecMutation(r)) => agents' = agents /\ log' = log
  BY DEF Next, Run, ExecSnapshot, ExecLaunchDir, ExecSubscribe, ExecCancel, Return,
         Call, Mutate, Snapshot, SetLaunchDir, CallSubscribe, CallCancel, Receive,
         Close, core, history, vars
<1> QED BY <1>1, <1>2, <1>3

\* The last update about an agent is what the roster holds: nothing changes
\* without being broadcast.
THEOREM FeedTellsAll == Spec => []FeedFaithful
<1>1. Init => FeedFaithful
  <2> SUFFICES ASSUME Init, NEW a \in AgentId
               PROVE  agents[a] = NoAgent /\ \A i \in DOMAIN log : log[i].id # a
    BY DEF FeedFaithful
  <2>1. DOMAIN log = {}
    BY DEF Init
  <2> QED BY <2>1 DEF Init
<1> QED BY <1>1, InitType, TypeStep, FeedStep, PTL DEF Spec

-----------------------------------------------------------------------------
(* Every blocked caller has its closure in the channel.                     *)

ReplyInv ==
  /\ \A i \in 1 .. Len(reqs) : \A c \in Caller : Awaited(reqs[i], c) =>
       /\ c \in waiting
       /\ \A j \in 1 .. Len(reqs) : Awaited(reqs[j], c) => j = i
  /\ ~quit => \A c \in waiting : \E i \in 1 .. Len(reqs) : Awaited(reqs[i], c)

\* Executing a closure releases the caller that waits for it and no other one.
LEMMA ReplyNext ==
  ASSUME TypeOK, ReplyInv, NEW r, Next1(r),
         waiting' = waiting \ {c \in Caller : Awaited(r, c)}
  PROVE  ReplyInv'
<1>1. /\ Len(reqs) \in Nat /\ Len(reqs') = Len(reqs) - 1 /\ quit' = quit
      /\ 1 \in 1 .. Len(reqs) /\ r = reqs[1] /\ waiting \subseteq Caller
      /\ \A i \in 1 .. Len(reqs') : i + 1 \in 1 .. Len(reqs) /\ reqs'[i] = reqs[i + 1]
  BY NextType DEF TypeOK, Next1
<1>2. ASSUME NEW i \in 1 .. Len(reqs'), NEW c \in Caller, Awaited(reqs'[i], c)
      PROVE  c \in waiting' /\ \A j \in 1 .. Len(reqs') : Awaited(reqs'[j], c) => j = i
  <2>1. i + 1 \in 1 .. Len(reqs) /\ i + 1 # 1 /\ Awaited(reqs[i + 1], c)
    BY <1>1, <1>2
  <2>2. ~Awaited(r, c)
    BY <1>1, <2>1 DEF ReplyInv
  <2>3. c \in waiting'
    BY <2>1, <2>2 DEF ReplyInv
  <2>4. ASSUME NEW j \in 1 .. Len(reqs'), Awaited(reqs'[j], c) PROVE j = i
    <3>1. j + 1 \in 1 .. Len(reqs) /\ Awaited(reqs[j + 1], c)
      BY <1>1, <2>4
    <3>2. j + 1 = i + 1
      BY <2>1, <3>1 DEF ReplyInv
    <3> QED BY <3>2
  <2> QED BY <2>3, <2>4
<1>3. ASSUME ~quit', NEW c \in waiting'
      PROVE  \E i \in 1 .. Len(reqs') : Awaited(reqs'[i], c)
  <2>1. c \in waiting /\ c \in Caller /\ ~Awaited(r, c)
    BY <1>1, <1>3
  <2>2. PICK k \in 1 .. Len(reqs) : Awaited(reqs[k], c)
    BY <1>1, <1>3, <2>1 DEF ReplyInv
  <2>3. k # 1
    BY <1>1, <2>1, <2>2
  <2>4. k - 1 \in 1 .. Len(reqs') /\ (k - 1) + 1 = k
    BY <1>1, <2>3
  <2>5. reqs'[k - 1] = reqs[k]
    BY <1>1, <2>4
  <2> QED BY <2>2, <2>4, <2>5
<1> QED BY <1>2, <1>3 DEF ReplyInv

\* A call that waits puts the one closure it waits for into the channel.
LEMMA ReplyCall ==
  ASSUME TypeOK, ReplyInv, NEW c \in Caller, NEW r \in Request, submitWait(c, r),
         r.op \in {"snapshot", "launchdir", "subscribe"}, r.by = c
  PROVE  ReplyInv'
<1>1. /\ c \notin waiting /\ waiting' = waiting \cup {c} /\ quit' = quit
      /\ submit(r)
      /\ \A x : Awaited(r, x) <=> x = c
  BY DEF submitWait, submit, Awaited
<1>2. CASE /\ Len(reqs) \in Nat
           /\ Len(reqs') = Len(reqs) + 1
           /\ reqs'[Len(reqs) + 1] = r
           /\ \A i \in 1 .. Len(reqs) : reqs'[i] = reqs[i]
  BY <1>1, <1>2 DEF ReplyInv
<1>3. CASE reqs' = reqs /\ quit
  BY <1>1, <1>3 DEF ReplyInv
<1>4. reqs' = reqs => quit
  <2>1. reqs \in Seq(Request) => Append(reqs, r) # reqs
    OBVIOUS
  <2> QED BY <2>1, <1>1 DEF submit, TypeOK
<1> QED BY <1>1, <1>2, <1>3, <1>4, SubmitCases

\* A call that does not wait changes nobody's reply.
LEMMA ReplySubmit ==
  ASSUME TypeOK, ReplyInv, NEW r \in Request, submit(r), waiting' = waiting,
         r.op \notin {"snapshot", "launchdir", "subscribe"}
  PROVE  ReplyInv'
<1>1. quit' = quit /\ \A x : ~Awaited(r, x)
  BY DEF submit, Awaited
<1>2. CASE /\ Len(reqs) \in Nat
           /\ Len(reqs') = Len(reqs) + 1
           /\ reqs'[Len(reqs) + 1] = r
           /\ \A i \in 1 .. Len(reqs) : reqs'[i] = reqs[i]
  BY <1>1, <1>2 DEF ReplyInv
<1>3. CASE reqs' = reqs
  BY <1>1, <1>3 DEF ReplyInv
<1> QED BY <1>2, <1>3, SubmitCases

LEMMA ReplyStep == TypeOK /\ ReplyInv /\ [Next]_vars => ReplyInv'
<1> SUFFICES ASSUME TypeOK, ReplyInv, [Next]_vars PROVE ReplyInv'
  OBVIOUS
<1>1. ASSUME NEW r, ExecMutation(r) \/ ExecCancel(r) PROVE ReplyInv'
  <2>1. Next1(r) /\ waiting' = waiting /\ {c \in Caller : Awaited(r, c)} = {}
    BY <1>1 DEF ExecMutation, ExecCancel, clients, Awaited
  <2> QED BY <2>1, ReplyNext
<1>2. ASSUME NEW r, ExecSnapshot(r) \/ ExecLaunchDir(r) \/ ExecSubscribe(r)
      PROVE  ReplyInv'
  <2>1. /\ Next1(r) /\ waiting' = waiting \ {r.by}
        /\ r.op \in {"snapshot", "launchdir", "subscribe"}
    BY <1>2 DEF ExecSnapshot, ExecLaunchDir, ExecSubscribe
  <2>2. r.by \in Caller
    BY <2>1, NextType, RequestShape
  <2>3. {c \in Caller : Awaited(r, c)} = {r.by}
    BY <2>1, <2>2 DEF Awaited
  <2> QED BY <2>1, <2>3, ReplyNext
<1>3. ASSUME NEW c \in Caller, Call(c) PROVE ReplyInv'
  <2>1. ASSUME NEW m \in Input, Mutate(c, m) PROVE ReplyInv'
    <3>1. m \in Request /\ m.op \notin {"snapshot", "launchdir", "subscribe"}
      BY InputAssumption DEF Request, Mutation
    <3> QED BY <2>1, <3>1, ReplySubmit DEF Mutate, clients
  <2>2. CASE Snapshot(c)
    <3>1. [op |-> "snapshot", by |-> c] \in Request
      BY DEF Request
    <3> QED BY <2>2, <3>1, ReplyCall DEF Snapshot
  <2>3. ASSUME NEW d \in Dir, SetLaunchDir(c, d) PROVE ReplyInv'
    <3>1. [op |-> "launchdir", by |-> c, dir |-> d] \in Request
      BY DEF Request
    <3> QED BY <2>3, <3>1, ReplyCall DEF SetLaunchDir
  <2>4. ASSUME NEW s \in SubId, CallSubscribe(c, s) PROVE ReplyInv'
    <3>1. [op |-> "subscribe", by |-> c, sub |-> s] \in Request
      BY DEF Request
    <3> QED BY <2>4, <3>1, ReplyCall DEF CallSubscribe
  <2> QED BY <1>3, <2>1, <2>2, <2>3, <2>4 DEF Call
<1>4. ASSUME NEW s \in SubId, CallCancel(s) PROVE ReplyInv'
  <2>1. [op |-> "cancel", sub |-> s] \in Request
    BY DEF Request
  <2> QED BY <1>4, <2>1, ReplySubmit DEF CallCancel, clients
<1>5. (reqs' = reqs /\ waiting' = waiting /\ (quit' = quit \/ quit')) => ReplyInv'
  BY DEF ReplyInv
<1>6. CASE Return \/ Close \/ (\E s \in SubId : Receive(s)) \/ UNCHANGED vars
  BY <1>5, <1>6 DEF Return, Close, Receive, channel, clients, vars
<1> QED BY <1>1, <1>2, <1>3, <1>4, <1>6 DEF Next, Run

\* Until Close, a blocked caller waits for exactly one closure.
THEOREM ExactlyOneReply == Spec => []OneReply
<1>1. Init => ReplyInv
  BY DEF Init, ReplyInv
<1>2. TypeOK /\ ReplyInv => OneReply
  <2> SUFFICES ASSUME TypeOK, ReplyInv, ~quit, NEW c \in waiting
               PROVE  \E i \in DOMAIN reqs :
                        /\ Awaited(reqs[i], c)
                        /\ \A j \in DOMAIN reqs : Awaited(reqs[j], c) => j = i
    BY DEF OneReply
  <2>1. DOMAIN reqs = 1 .. Len(reqs) /\ c \in Caller
    BY DEF TypeOK
  <2>2. PICK i \in 1 .. Len(reqs) : Awaited(reqs[i], c)
    BY DEF ReplyInv
  <2> QED BY <2>1, <2>2 DEF ReplyInv
<1> QED BY <1>1, <1>2, InitType, TypeStep, ReplyStep, PTL DEF Spec

-----------------------------------------------------------------------------
(* The function After.                                                      *)

\* The recursion of After has a solution: executing the first n requests is
\* possible for every n.
LEMMA AfterExists ==
  ASSUME NEW q, NEW st, Len(q) \in Nat
  PROVE  \E f : f = [n \in 0 .. Len(q) |->
                       IF n = 0 THEN st ELSE Execute(f[n - 1], q[n])]
<1> DEFINE Solves(f, n) ==
      f = [k \in 0 .. n |-> IF k = 0 THEN st ELSE Execute(f[k - 1], q[k])]
           T == {n \in Nat : ~\E f : Solves(f, n)}
<1>1. Solves([k \in 0 .. 0 |-> st], 0)
  OBVIOUS
<1>2. ASSUME NEW n \in Nat, NEW g, Solves(g, n)
      PROVE  \E f : Solves(f, n + 1)
  <2> DEFINE e == Execute(g[n], q[n + 1])
             h == [k \in 0 .. (n + 1) |-> IF k = n + 1 THEN e ELSE g[k]]
  <2>1. ASSUME NEW k \in 0 .. (n + 1)
        PROVE  h[k] = IF k = 0 THEN st ELSE Execute(h[k - 1], q[k])
    <3>1. CASE k = n + 1
      <4>1. h[n + 1] = e /\ h[n] = g[n]
        BY DEF h
      <4> HIDE DEF h
      <4> QED BY <3>1, <4>1
    <3>2. CASE k \in 0 .. n
      <4>1. h[k] = g[k] /\ (k # 0 => h[k - 1] = g[k - 1])
        BY <3>2
      <4>2. g[k] = IF k = 0 THEN st ELSE Execute(g[k - 1], q[k])
        BY <1>2, <3>2
      <4> HIDE DEF h
      <4> QED BY <4>1, <4>2
    <3> QED BY <3>1, <3>2
  <2>2. h = [k \in 0 .. (n + 1) |-> h[k]]
    BY DEF h
  <2> HIDE DEF h
  <2>3. Solves(h, n + 1)
    BY <2>1, <2>2
  <2> QED BY <2>3
<1> HIDE DEF Solves
<1>3. T = {}
  <2> SUFFICES ASSUME T # {} PROVE FALSE
    OBVIOUS
  <2>1. PICK n \in T : \A m \in T : n <= m
    BY LeastOf
  <2>2. n \in Nat /\ ~\E f : Solves(f, n)
    OBVIOUS
  <2>3. n # 0
    BY <1>1, <2>2
  <2>4. n - 1 \in Nat /\ n - 1 \notin T
    BY <2>1, <2>2, <2>3
  <2>5. \E f : Solves(f, (n - 1) + 1)
    BY <1>2, <2>4
  <2> QED BY <2>2, <2>5
<1>4. \E f : Solves(f, Len(q))
  BY <1>3
<1> QED BY <1>4 DEF Solves

\* The equations of After.
LEMMA AfterEquations ==
  ASSUME NEW q, NEW st, Len(q) \in Nat
  PROVE  /\ After(q, st)[0] = st
         /\ \A n \in 1 .. Len(q) :
              After(q, st)[n] = Execute(After(q, st)[n - 1], q[n])
<1> DEFINE f == After(q, st)
<1>1. f = [n \in 0 .. Len(q) |-> IF n = 0 THEN st ELSE Execute(f[n - 1], q[n])]
  BY AfterExists DEF After
<1> HIDE DEF f
<1>2. f[0] = st /\ \A n \in 1 .. Len(q) : f[n] = Execute(f[n - 1], q[n])
  BY <1>1
<1> QED BY <1>2 DEF f

Core == [agents : Agents, dir : Dir \cup {NoDir}]

\* What each kind of request does to the store.
LEMMA ExecuteCases ==
  ASSUME NEW r \in Request, NEW st \in Core
  PROVE  /\ Execute(st, r) \in Core
         /\ r \in Input => Execute(st, r) = [agents |-> Apply(st.agents, r), dir |-> st.dir]
         /\ r.op = "launchdir" => Execute(st, r) = [agents |-> st.agents, dir |-> r.dir]
         /\ r.op \in {"snapshot", "subscribe", "cancel"} => Execute(st, r) = st
<1>1. st.agents \in Agents /\ st.dir \in Dir \cup {NoDir}
      /\ st = [agents |-> st.agents, dir |-> st.dir]
  BY DEF Core
<1>2. CASE r \in Input
  <2>1. r \in Mutation /\ r.op \notin {"launchdir", "snapshot", "subscribe", "cancel"}
    BY <1>2, InputAssumption DEF Mutation
  <2>2. Apply(st.agents, r) \in Agents
    BY <1>1, <2>1, ApplyType
  <2>3. Execute(st, r) = [st EXCEPT !.agents = Apply(st.agents, r)]
    BY <1>2, <2>1 DEF Execute
  <2>4. Execute(st, r) = [agents |-> Apply(st.agents, r), dir |-> st.dir]
    BY <1>1, <2>3
  <2> QED BY <1>1, <2>1, <2>2, <2>4 DEF Core
<1>3. CASE r \notin Input
  <2>1. \/ r.op = "launchdir" /\ r.dir \in Dir
        \/ r.op \in {"snapshot", "subscribe", "cancel"}
    BY <1>3 DEF Request
  <2>2. CASE r.op = "launchdir" /\ r.dir \in Dir
    <3>1. Execute(st, r) = [st EXCEPT !.dir = r.dir]
      BY <1>3, <2>2 DEF Execute
    <3>2. Execute(st, r) = [agents |-> st.agents, dir |-> r.dir]
      BY <1>1, <3>1
    <3> QED BY <1>1, <1>3, <2>2, <3>2 DEF Core
  <2>3. CASE r.op \in {"snapshot", "subscribe", "cancel"}
    <3>1. r.op # "launchdir"
      BY <2>3
    <3>2. Execute(st, r) = st
      BY <1>3, <3>1 DEF Execute
    <3> QED BY <1>3, <2>3, <3>1, <3>2
  <2> QED BY <2>1, <2>2, <2>3
<1> QED BY <1>2, <1>3

\* Executing requests leaves a store.
LEMMA AfterType ==
  ASSUME NEW q \in Seq(Request), NEW st \in Core
  PROVE  \A n \in 0 .. Len(q) : After(q, st)[n] \in Core
<1> DEFINE T == {n \in 0 .. Len(q) : After(q, st)[n] \notin Core}
<1>1. Len(q) \in Nat /\ \A n \in 1 .. Len(q) : q[n] \in Request
  OBVIOUS
<1>2. After(q, st)[0] = st
      /\ \A n \in 1 .. Len(q) : After(q, st)[n] = Execute(After(q, st)[n - 1], q[n])
  BY <1>1, AfterEquations
<1> SUFFICES ASSUME T # {} PROVE FALSE
  OBVIOUS
<1>3. PICK n \in T : \A m \in T : n <= m
  <2>1. T \in SUBSET Nat
    BY <1>1
  <2> HIDE DEF T
  <2> QED BY <2>1, LeastOf
<1>4. n \in 1 .. Len(q) /\ n - 1 \in 0 .. Len(q) /\ n - 1 \notin T
  BY <1>1, <1>2, <1>3
<1>5. After(q, st)[n - 1] \in Core
  BY <1>4
<1>6. Execute(After(q, st)[n - 1], q[n]) \in Core
  BY <1>1, <1>4, <1>5, ExecuteCases
<1>7. After(q, st)[n] \in Core
  BY <1>2, <1>4, <1>6
<1> QED BY <1>3, <1>7

\* A request at the end of the channel changes nothing for those in front.
LEMMA AfterAppend ==
  ASSUME NEW q \in Seq(Request), NEW r \in Request, NEW st
  PROVE  /\ \A n \in 0 .. Len(q) : After(Append(q, r), st)[n] = After(q, st)[n]
         /\ After(Append(q, r), st)[Len(q) + 1] = Execute(After(q, st)[Len(q)], r)
<1> DEFINE qq == Append(q, r)
<1>1. /\ Len(q) \in Nat /\ Len(qq) = Len(q) + 1 /\ qq[Len(q) + 1] = r
      /\ \A i \in 1 .. Len(q) : qq[i] = q[i]
  OBVIOUS
<1> HIDE DEF qq
<1> DEFINE T == {n \in 0 .. Len(q) : After(qq, st)[n] # After(q, st)[n]}
<1>2. After(q, st)[0] = st
      /\ \A n \in 1 .. Len(q) : After(q, st)[n] = Execute(After(q, st)[n - 1], q[n])
  BY <1>1, AfterEquations
<1>3. After(qq, st)[0] = st
      /\ \A n \in 1 .. Len(qq) : After(qq, st)[n] = Execute(After(qq, st)[n - 1], qq[n])
  BY <1>1, AfterEquations
<1>4. T = {}
  <2> SUFFICES ASSUME T # {} PROVE FALSE
    OBVIOUS
  <2>1. PICK n \in T : \A m \in T : n <= m
    <3>1. T \in SUBSET Nat
      BY <1>1
    <3> HIDE DEF T
    <3> QED BY <3>1, LeastOf
  <2>2. n \in 1 .. Len(q) /\ n \in 1 .. Len(qq) /\ n - 1 \in 0 .. Len(q) /\ n - 1 \notin T
    BY <1>1, <1>2, <1>3, <2>1
  <2>3. After(qq, st)[n - 1] = After(q, st)[n - 1] /\ qq[n] = q[n]
    BY <1>1, <2>2
  <2>4. After(qq, st)[n] = After(q, st)[n]
    BY <1>2, <1>3, <2>2, <2>3
  <2> QED BY <2>1, <2>4
<1>5. After(qq, st)[Len(q)] = After(q, st)[Len(q)]
  BY <1>1, <1>4
<1>6. Len(q) + 1 \in 1 .. Len(qq) /\ (Len(q) + 1) - 1 = Len(q)
  BY <1>1
<1>7. After(qq, st)[Len(q) + 1] = Execute(After(qq, st)[(Len(q) + 1) - 1], qq[Len(q) + 1])
  BY <1>3, <1>6
<1>8. After(qq, st)[Len(q) + 1] = Execute(After(q, st)[Len(q)], r)
  BY <1>1, <1>5, <1>6, <1>7
<1>9. \A n \in 0 .. Len(q) : After(qq, st)[n] = After(q, st)[n]
  BY <1>4
<1> QED BY <1>8, <1>9 DEF qq

\* Executing the first request moves every later store one place forward.
LEMMA AfterTail ==
  ASSUME NEW q \in Seq(Request), q # <<>>, NEW st
  PROVE  \A n \in 0 .. Len(q) - 1 :
           After(Tail(q), Execute(st, q[1]))[n] = After(q, st)[n + 1]
<1> DEFINE qq == Tail(q)
           ss == Execute(st, q[1])
<1>1. /\ Len(q) \in Nat /\ Len(qq) = Len(q) - 1 /\ Len(qq) \in Nat /\ 1 \in 1 .. Len(q)
      /\ \A i \in 1 .. Len(qq) : qq[i] = q[i + 1]
  OBVIOUS
<1> HIDE DEF qq
<1>2. After(q, st)[0] = st
      /\ \A n \in 1 .. Len(q) : After(q, st)[n] = Execute(After(q, st)[n - 1], q[n])
  BY <1>1, AfterEquations
<1>3. After(q, st)[1] = ss
  <2>1. After(q, st)[1] = Execute(After(q, st)[1 - 1], q[1])
    BY <1>1, <1>2
  <2>2. 1 - 1 = 0
    OBVIOUS
  <2> QED BY <2>1, <2>2, <1>2
<1> HIDE DEF ss
<1>4. After(qq, ss)[0] = ss
      /\ \A n \in 1 .. Len(qq) : After(qq, ss)[n] = Execute(After(qq, ss)[n - 1], qq[n])
  BY <1>1, AfterEquations
<1> DEFINE T == {n \in 0 .. Len(qq) : After(qq, ss)[n] # After(q, st)[n + 1]}
<1>5. T = {}
  <2> SUFFICES ASSUME T # {} PROVE FALSE
    OBVIOUS
  <2>1. PICK n \in T : \A m \in T : n <= m
    <3>1. T \in SUBSET Nat
      BY <1>1
    <3> HIDE DEF T
    <3> QED BY <3>1, LeastOf
  <2>2. n # 0
    BY <1>3, <1>4, <2>1
  <2>3. n \in 1 .. Len(qq) /\ n + 1 \in 1 .. Len(q) /\ n - 1 \in 0 .. Len(qq) /\ n - 1 \notin T
    BY <1>1, <2>1, <2>2
  <2>4. After(qq, ss)[n - 1] = After(q, st)[(n - 1) + 1] /\ qq[n] = q[n + 1]
        /\ (n - 1) + 1 = (n + 1) - 1
    BY <1>1, <2>3
  <2>5. After(q, st)[n + 1] = Execute(After(q, st)[(n + 1) - 1], q[n + 1])
    BY <1>2, <2>3
  <2>6. After(qq, ss)[n] = After(q, st)[n + 1]
    BY <1>4, <2>3, <2>4, <2>5
  <2> QED BY <2>1, <2>6
<1>6. \A n \in 0 .. Len(q) - 1 : After(qq, ss)[n] = After(q, st)[n + 1]
  BY <1>1, <1>5
<1> QED BY <1>6 DEF qq, ss

-----------------------------------------------------------------------------
(* The refinement.                                                          *)

Asks(c) == [op |-> "snapshot", by |-> c]

\* The answer to a Snapshot in the channel, and to one that is not.
LEMMA AnswerPending ==
  ASSUME TypeOK, ReplyInv, NEW c \in Caller, NEW i \in 1 .. Len(reqs), reqs[i] = Asks(c)
  PROVE  AnswerOf(c) = After(reqs, Now)[i - 1]
<1> DEFINE mine == {j \in DOMAIN reqs : reqs[j] = [op |-> "snapshot", by |-> c]}
<1>1. DOMAIN reqs = 1 .. Len(reqs)
  BY DEF TypeOK
<1>2. mine = {i}
  <2>1. \A j \in mine : Awaited(reqs[j], c)
    BY DEF Awaited
  <2>2. i \in mine
    BY <1>1 DEF Asks
  <2> QED BY <1>1, <2>1, <2>2 DEF ReplyInv
<1>3. (CHOOSE j \in mine : TRUE) = i
  BY <1>2
<1> QED BY <1>2, <1>3 DEF AnswerOf

LEMMA AnswerPendingNext ==
  ASSUME TypeOK', ReplyInv', NEW c \in Caller, NEW i \in 1 .. Len(reqs'),
         reqs'[i] = Asks(c)
  PROVE  AnswerOf(c)' = After(reqs', Now')[i - 1]
<1> DEFINE mine == {j \in DOMAIN reqs' : reqs'[j] = [op |-> "snapshot", by |-> c]}
<1>1. DOMAIN reqs' = 1 .. Len(reqs')
  BY DEF TypeOK
<1>2. mine = {i}
  <2>1. \A j \in mine : Awaited(reqs'[j], c)
    BY DEF Awaited
  <2>2. i \in mine
    BY <1>1 DEF Asks
  <2> QED BY <1>1, <2>1, <2>2 DEF ReplyInv, Awaited
<1>3. (CHOOSE j \in mine : TRUE) = i
  BY <1>2
<1> QED BY <1>2, <1>3 DEF AnswerOf

LEMMA AnswerGiven ==
  ASSUME NEW c \in Caller
  PROVE  /\ TypeOK /\ (\A i \in 1 .. Len(reqs) : reqs[i] # Asks(c))
              => AnswerOf(c) = snapshot[c]
         /\ TypeOK' /\ (\A i \in 1 .. Len(reqs') : reqs'[i] # Asks(c))
              => AnswerOf(c)' = snapshot'[c]
BY DEF AnswerOf, Asks, TypeOK

\* The store that callers see is one.
LEMMA SettledType ==
  ASSUME TypeOK
  PROVE  Settled \in Core /\ Now \in Core
<1>1. Now \in Core /\ Len(reqs) \in 0 .. Len(reqs) /\ reqs \in Seq(Request)
  BY DEF Now, Core, TypeOK
<1> QED BY <1>1, AfterType DEF Settled

\* Executing a request leaves what callers see as it is.
LEMMA TakeStep ==
  ASSUME TypeOK, TypeOK', ReplyInv, ReplyInv', NEW r, Next1(r), Now' = Execute(Now, r)
  PROVE  /\ Settled' = Settled
         /\ \A c \in Caller :
              snapshot'[c] = (IF r = Asks(c) THEN Now ELSE snapshot[c])
                => AnswerOf(c)' = AnswerOf(c)
<1>1. /\ reqs \in Seq(Request) /\ reqs # <<>> /\ Len(reqs) \in Nat
      /\ Len(reqs') = Len(reqs) - 1 /\ r = reqs[1] /\ 1 \in 1 .. Len(reqs)
      /\ \A i \in 1 .. Len(reqs') : i + 1 \in 1 .. Len(reqs) /\ reqs'[i] = reqs[i + 1]
  BY NextType DEF TypeOK, Next1
<1>2. reqs' = Tail(reqs) /\ Now' = Execute(Now, reqs[1])
  BY <1>1 DEF Next1
<1>3. \A n \in 0 .. Len(reqs) - 1 :
        After(reqs', Now')[n] = After(reqs, Now)[n + 1]
  BY <1>1, <1>2, AfterTail
<1>4. Settled' = Settled
  <2>1. Len(reqs') \in 0 .. Len(reqs) - 1 /\ Len(reqs') + 1 = Len(reqs)
    BY <1>1
  <2> QED BY <1>3, <2>1 DEF Settled
<1>5. ASSUME NEW c \in Caller,
             snapshot'[c] = (IF r = Asks(c) THEN Now ELSE snapshot[c])
      PROVE  AnswerOf(c)' = AnswerOf(c)
  <2>1. CASE r = Asks(c)
    <3>1. AnswerOf(c) = After(reqs, Now)[1 - 1]
      BY <1>1, <2>1, AnswerPending
    <3>2. AnswerOf(c) = Now
      BY <1>1, <3>1, AfterEquations
    <3>3. \A i \in 1 .. Len(reqs') : reqs'[i] # Asks(c)
      <4>1. ASSUME NEW i \in 1 .. Len(reqs'), reqs'[i] = Asks(c) PROVE FALSE
        <5>1. i + 1 \in 1 .. Len(reqs) /\ i + 1 # 1 /\ reqs[i + 1] = Asks(c)
          BY <1>1, <4>1
        <5>2. Awaited(reqs[1], c) /\ Awaited(reqs[i + 1], c)
          BY <1>1, <2>1, <5>1 DEF Awaited, Asks
        <5> QED BY <1>1, <5>1, <5>2 DEF ReplyInv
      <4> QED BY <4>1
    <3> QED BY <1>5, <2>1, <3>2, <3>3, AnswerGiven
  <2>2. CASE r # Asks(c) /\ \E i \in 1 .. Len(reqs) : reqs[i] = Asks(c)
    <3>1. PICK i \in 1 .. Len(reqs) : reqs[i] = Asks(c)
      BY <2>2
    <3>2. i - 1 \in 1 .. Len(reqs') /\ (i - 1) + 1 = i
      BY <1>1, <2>2, <3>1
    <3>3. reqs'[i - 1] = Asks(c)
      BY <1>1, <3>1, <3>2
    <3>4. AnswerOf(c)' = After(reqs', Now')[(i - 1) - 1]
      BY <3>2, <3>3, AnswerPendingNext
    <3>5. AnswerOf(c) = After(reqs, Now)[i - 1]
      BY <3>1, AnswerPending
    <3>6. (i - 1) - 1 \in 0 .. Len(reqs) - 1 /\ ((i - 1) - 1) + 1 = i - 1
      BY <1>1, <3>2
    <3> QED BY <1>3, <3>4, <3>5, <3>6
  <2>3. CASE r # Asks(c) /\ \A i \in 1 .. Len(reqs) : reqs[i] # Asks(c)
    <3>1. \A i \in 1 .. Len(reqs') : reqs'[i] # Asks(c)
      BY <1>1, <2>3
    <3> QED BY <1>5, <2>3, <3>1, AnswerGiven
  <2> QED BY <2>1, <2>2, <2>3
<1> QED BY <1>4, <1>5

\* A request put into the channel counts as executed.
LEMMA PutStep ==
  ASSUME TypeOK, TypeOK', ReplyInv, ReplyInv', NEW r \in Request,
         reqs' = Append(reqs, r), Now' = Now
  PROVE  /\ Settled' = Execute(Settled, r)
         /\ \A c \in Caller :
              /\ r = Asks(c) => AnswerOf(c)' = Settled
              /\ r # Asks(c) /\ snapshot'[c] = snapshot[c] => AnswerOf(c)' = AnswerOf(c)
              /\ r # Asks(c) /\ c \notin waiting => AnswerOf(c)' = snapshot'[c]
<1>1. /\ reqs \in Seq(Request) /\ Len(reqs) \in Nat /\ Len(reqs') = Len(reqs) + 1
      /\ reqs'[Len(reqs) + 1] = r
      /\ \A i \in 1 .. Len(reqs) : reqs'[i] = reqs[i]
  BY DEF TypeOK
<1>2. /\ \A n \in 0 .. Len(reqs) : After(reqs', Now')[n] = After(reqs, Now)[n]
      /\ After(reqs', Now')[Len(reqs) + 1] = Execute(After(reqs, Now)[Len(reqs)], r)
  BY <1>1, AfterAppend
<1>3. Settled' = Execute(Settled, r)
  BY <1>1, <1>2 DEF Settled
<1>4. ASSUME NEW c \in Caller, r = Asks(c) PROVE AnswerOf(c)' = Settled
  <2>1. Len(reqs) + 1 \in 1 .. Len(reqs') /\ (Len(reqs) + 1) - 1 = Len(reqs)
    BY <1>1
  <2>2. AnswerOf(c)' = After(reqs', Now')[(Len(reqs) + 1) - 1]
    BY <1>1, <1>4, <2>1, AnswerPendingNext
  <2> QED BY <1>1, <1>2, <2>1, <2>2 DEF Settled
<1>5. ASSUME NEW c \in Caller, r # Asks(c), snapshot'[c] = snapshot[c]
      PROVE  AnswerOf(c)' = AnswerOf(c)
  <2>1. CASE \E i \in 1 .. Len(reqs) : reqs[i] = Asks(c)
    <3>1. PICK i \in 1 .. Len(reqs) : reqs[i] = Asks(c)
      BY <2>1
    <3>2. i \in 1 .. Len(reqs') /\ reqs'[i] = Asks(c) /\ i - 1 \in 0 .. Len(reqs)
      BY <1>1, <3>1
    <3>3. AnswerOf(c)' = After(reqs', Now')[i - 1]
      BY <3>2, AnswerPendingNext
    <3>4. AnswerOf(c) = After(reqs, Now)[i - 1]
      BY <3>1, AnswerPending
    <3> QED BY <1>2, <3>2, <3>3, <3>4
  <2>2. CASE \A i \in 1 .. Len(reqs) : reqs[i] # Asks(c)
    <3>1. \A i \in 1 .. Len(reqs') : reqs'[i] # Asks(c)
      BY <1>1, <1>5, <2>2
    <3> QED BY <1>5, <2>2, <3>1, AnswerGiven
  <2> QED BY <2>1, <2>2
<1>6. ASSUME NEW c \in Caller, r # Asks(c), c \notin waiting
      PROVE  AnswerOf(c)' = snapshot'[c]
  <2>1. \A i \in 1 .. Len(reqs) : reqs[i] # Asks(c)
    <3>1. \A i \in 1 .. Len(reqs) : ~Awaited(reqs[i], c)
      BY <1>6 DEF ReplyInv
    <3> QED BY <3>1 DEF Awaited, Asks
  <2>2. \A i \in 1 .. Len(reqs') : reqs'[i] # Asks(c)
    BY <1>1, <1>6, <2>1
  <2> QED BY <2>2, AnswerGiven
<1> QED BY <1>3, <1>4, <1>5, <1>6

\* Nothing in the channel moves: nor does what callers see.
LEMMA KeepStep ==
  ASSUME TypeOK, TypeOK', ReplyInv, ReplyInv', reqs' = reqs, Now' = Now
  PROVE  /\ Settled' = Settled
         /\ \A c \in Caller :
              /\ snapshot'[c] = snapshot[c] => AnswerOf(c)' = AnswerOf(c)
              /\ c \notin waiting => AnswerOf(c)' = snapshot'[c]
<1>1. Settled' = Settled
  BY DEF Settled
<1>2. ASSUME NEW c \in Caller, snapshot'[c] = snapshot[c]
      PROVE  AnswerOf(c)' = AnswerOf(c)
  BY <1>2 DEF AnswerOf
<1>3. ASSUME NEW c \in Caller, c \notin waiting
      PROVE  AnswerOf(c)' = snapshot'[c]
  <2>1. \A i \in 1 .. Len(reqs') : reqs'[i] # Asks(c)
    <3>1. \A i \in 1 .. Len(reqs) : ~Awaited(reqs[i], c)
      BY <1>3 DEF ReplyInv
    <3> QED BY <3>1 DEF Awaited, Asks
  <2> QED BY <2>1, AnswerGiven
<1> QED BY <1>1, <1>2, <1>3

Answers == [c \in Caller |-> AnswerOf(c)]

\* The goroutine executing a request is nothing, or the return of the call that
\* waits for it.
LEMMA ExecRefines ==
  ASSUME TypeOK, TypeOK', ReplyInv, ReplyInv', NEW r,
         \/ ExecMutation(r) \/ ExecSnapshot(r) \/ ExecLaunchDir(r)
         \/ ExecSubscribe(r) \/ ExecCancel(r)
  PROVE  [Linear!Next]_Linear!vars
<1>1. /\ Next1(r) /\ r \in Request /\ quit' = quit /\ r = reqs[1] /\ 1 \in 1 .. Len(reqs)
      /\ Now \in Core
      /\ Now.agents = agents /\ Now.dir = launchDir
  BY NextType, SettledType
  DEF ExecMutation, ExecSnapshot, ExecLaunchDir, ExecSubscribe, ExecCancel, Next1, Now
<1>2. ASSUME Now' = Execute(Now, r),
             \A c \in Caller :
               snapshot'[c] = (IF r = Asks(c) THEN Now ELSE snapshot[c])
      PROVE  Settled' = Settled /\ Answers' = Answers
  BY <1>1, <1>2, TakeStep DEF Answers
<1>3. CASE ExecMutation(r) \/ ExecCancel(r)
  <2>1. Now' = Execute(Now, r)
    <3>1. CASE ExecMutation(r)
      <4>1. r \in Input
        BY <1>1, <3>1 DEF ExecMutation, Request
      <4>2. Now' = [agents |-> Apply(agents, r), dir |-> launchDir]
        BY <3>1 DEF ExecMutation, Now
      <4> QED BY <1>1, <4>1, <4>2, ExecuteCases
    <3>2. CASE ExecCancel(r)
      <4>1. r.op = "cancel" /\ Now' = Now
        BY <3>2 DEF ExecCancel, Now
      <4> QED BY <1>1, <4>1, ExecuteCases
    <3> QED BY <1>3, <3>1, <3>2
  <2>2. snapshot' = snapshot /\ waiting' = waiting /\ \A c \in Caller : r # Asks(c)
    BY <1>3 DEF ExecMutation, ExecCancel, clients, Asks
  <2>3. Settled' = Settled /\ Answers' = Answers
    BY <1>2, <2>1, <2>2
  <2> QED BY <1>1, <2>2, <2>3 DEF Linear!vars, Answers
<1>4. CASE ExecSnapshot(r) \/ ExecLaunchDir(r) \/ ExecSubscribe(r)
  <2>1. /\ r.op \in {"snapshot", "launchdir", "subscribe"} /\ r.by \in Caller
        /\ waiting' = waiting \ {r.by}
    BY <1>1, <1>4, RequestShape DEF ExecSnapshot, ExecLaunchDir, ExecSubscribe
  <2>2. r.by \in waiting
    BY <1>1, <2>1 DEF ReplyInv, Awaited
  <2>3. Settled' = Settled /\ Answers' = Answers
    <3>1. CASE ExecSnapshot(r)
      <4>1. Now' = Now /\ r.op = "snapshot"
        BY <3>1 DEF ExecSnapshot, core, Now
      <4>2. Now' = Execute(Now, r)
        BY <1>1, <4>1, ExecuteCases
      <4>3. snapshot' = [snapshot EXCEPT ![r.by] = Now]
        BY <3>1 DEF ExecSnapshot, Now
      <4>4. r = Asks(r.by) /\ \A c \in Caller : r = Asks(c) <=> c = r.by
        BY <1>1, <2>1, <4>1, InputAssumption DEF Request, Mutation, Asks
      <4>5. \A c \in Caller :
              snapshot'[c] = (IF r = Asks(c) THEN Now ELSE snapshot[c])
        BY <2>1, <4>3, <4>4 DEF TypeOK
      <4> QED BY <1>2, <4>2, <4>5
    <3>2. CASE ExecLaunchDir(r)
      <4>1. r.op = "launchdir" /\ snapshot' = snapshot
            /\ Now' = [agents |-> agents, dir |-> r.dir]
        BY <3>2 DEF ExecLaunchDir, Now
      <4>2. Now' = Execute(Now, r)
        BY <1>1, <4>1, ExecuteCases
      <4>3. \A c \in Caller : r # Asks(c)
        BY <4>1 DEF Asks
      <4> QED BY <1>2, <4>1, <4>2, <4>3
    <3>3. CASE ExecSubscribe(r)
      <4>1. r.op = "subscribe" /\ snapshot' = snapshot /\ Now' = Now
        BY <3>3 DEF ExecSubscribe, Now
      <4>2. Now' = Execute(Now, r)
        BY <1>1, <4>1, ExecuteCases
      <4>3. \A c \in Caller : r # Asks(c)
        BY <4>1 DEF Asks
      <4> QED BY <1>2, <4>1, <4>2, <4>3
    <3> QED BY <1>4, <3>1, <3>2, <3>3
  <2>4. Linear!Return(r.by)
    BY <1>1, <2>1, <2>2, <2>3 DEF Linear!Return, Answers
  <2> QED BY <2>1, <2>4 DEF Linear!Next
<1> QED BY <1>3, <1>4

\* A call takes effect when it is made.
LEMMA CallRefines ==
  ASSUME TypeOK, TypeOK', ReplyInv, ReplyInv', NEW c \in Caller, Call(c)
  PROVE  [Linear!Next]_Linear!vars
<1>1. Settled \in Core /\ Now' = Now /\ quit' = quit
      /\ Settled = [agents |-> Settled.agents, dir |-> Settled.dir]
  BY SettledType
  DEF Call, Mutate, Snapshot, SetLaunchDir, CallSubscribe, submitWait, submit, core,
      Now, Core
<1>2. ASSUME NEW m \in Input, Mutate(c, m) PROVE [Linear!Next]_Linear!vars
  <2>1. /\ m \in Request /\ snapshot' = snapshot /\ waiting' = waiting
        /\ \A x \in Caller : m # Asks(x)
    BY <1>2, InputAssumption DEF Mutate, clients, Request, Mutation, Asks
  <2>2. CASE reqs' = Append(reqs, m)
    <3>1. Settled' = Execute(Settled, m) /\ Answers' = Answers
      BY <1>1, <2>1, <2>2, PutStep DEF Answers
    <3>2. Settled'.agents = Apply(Settled.agents, m) /\ Settled'.dir = Settled.dir
      BY <1>1, <2>1, <3>1, ExecuteCases
    <3>3. Linear!Apply(Settled.agents, m) = Apply(Settled.agents, m)
      BY DEF Apply, UpsertFromHello, UpdateIdentityIfPresent, ApplyStatus, ApplyResult,
             Remove, ApplyHelloIdentity, Found, NewAgent, NoStatus,
             Linear!Apply, Linear!UpsertFromHello, Linear!UpdateIdentityIfPresent,
             Linear!ApplyStatus, Linear!ApplyResult, Linear!Remove,
             Linear!ApplyHelloIdentity, Linear!Found, Linear!NewAgent, Linear!NoStatus
    <3>4. Linear!Mutate(m)
      BY <1>1, <2>1, <3>1, <3>2, <3>3 DEF Linear!Mutate, Answers
    <3> QED BY <3>4 DEF Linear!Next
  <2>3. CASE reqs' = reqs
    <3>1. Settled' = Settled /\ Answers' = Answers
      BY <1>1, <2>1, <2>3, KeepStep DEF Answers
    <3> QED BY <1>1, <2>1, <3>1 DEF Linear!vars, Answers
  <2> QED BY <1>2, <2>2, <2>3 DEF Mutate, submit
<1>3. ASSUME NEW r \in Request, submitWait(c, r), r.op \in {"launchdir", "subscribe"}
      PROVE  /\ Answers' = [Answers EXCEPT ![c] = NoSnapshot]
             /\ Linear!Begin(c)
             /\ reqs' = Append(reqs, r) => Settled' = Execute(Settled, r)
             /\ reqs' = reqs => Settled' = Settled
  <2>1. /\ c \notin waiting /\ waiting' = waiting \cup {c}
        /\ snapshot' = [snapshot EXCEPT ![c] = NoSnapshot]
        /\ (reqs' = Append(reqs, r) \/ reqs' = reqs)
        /\ \A x \in Caller : r # Asks(x)
    BY <1>3 DEF submitWait, submit, Asks
  <2>2. snapshot'[c] = NoSnapshot /\ \A x \in Caller : x # c => snapshot'[x] = snapshot[x]
    BY <2>1 DEF TypeOK
  <2>3. AnswerOf(c)' = NoSnapshot /\ \A x \in Caller : x # c => AnswerOf(x)' = AnswerOf(x)
    BY <1>1, <2>1, <2>2, PutStep, KeepStep
  <2>4. reqs' = Append(reqs, r) => Settled' = Execute(Settled, r)
    BY <1>1, PutStep
  <2>5. reqs' = reqs => Settled' = Settled
    BY <1>1, KeepStep
  <2> QED BY <2>1, <2>3, <2>4, <2>5 DEF Answers, Linear!Begin
<1>4. ASSUME NEW r \in Request, submitWait(c, r), r.op \in {"launchdir", "subscribe"},
             Settled' = Settled
      PROVE  [Linear!Next]_Linear!vars
  <2>1. Linear!OtherCall(c)
    BY <1>1, <1>3, <1>4 DEF Linear!OtherCall, Answers
  <2> QED BY <2>1 DEF Linear!Next
<1>5. CASE Snapshot(c)
  <2>1. /\ submitWait(c, Asks(c)) /\ Asks(c) \in Request
        /\ \A x \in Caller : Asks(c) = Asks(x) <=> c = x
    BY <1>5 DEF Snapshot, Asks, Request
  <2>2. /\ c \notin waiting /\ waiting' = waiting \cup {c}
        /\ snapshot' = [snapshot EXCEPT ![c] = NoSnapshot]
        /\ (reqs' = Append(reqs, Asks(c)) \/ reqs' = reqs)
    BY <2>1 DEF submitWait, submit
  <2>3. snapshot'[c] = NoSnapshot /\ \A x \in Caller : x # c => snapshot'[x] = snapshot[x]
    BY <2>2 DEF TypeOK
  <2>4. CASE reqs' = Append(reqs, Asks(c))
    <3>1. Asks(c).op = "snapshot"
      BY DEF Asks
    <3>2. Settled' = Settled
      BY <1>1, <2>1, <2>4, <3>1, PutStep, ExecuteCases
    <3>3. AnswerOf(c)' = Settled /\ \A x \in Caller : x # c => AnswerOf(x)' = AnswerOf(x)
      BY <1>1, <2>1, <2>3, <2>4, PutStep
    <3>4. Answers' = [Answers EXCEPT ![c] =
                        [agents |-> Settled.agents, dir |-> Settled.dir]]
      BY <1>1, <3>3 DEF Answers
    <3>5. Linear!Snapshot(c)
      BY <1>1, <2>2, <3>2, <3>4 DEF Linear!Snapshot, Linear!Begin, Answers
    <3> QED BY <3>5 DEF Linear!Next
  <2>5. CASE reqs' = reqs
    <3>1. Settled' = Settled
      BY <1>1, <2>5, KeepStep
    <3>2. AnswerOf(c)' = NoSnapshot /\ \A x \in Caller : x # c => AnswerOf(x)' = AnswerOf(x)
      BY <1>1, <2>2, <2>3, <2>5, KeepStep
    <3>3. Answers' = [Answers EXCEPT ![c] = NoSnapshot]
      BY <3>2 DEF Answers
    <3>4. Linear!OtherCall(c)
      BY <1>1, <2>2, <3>1, <3>3 DEF Linear!OtherCall, Linear!Begin, Answers
    <3> QED BY <3>4 DEF Linear!Next
  <2> QED BY <2>2, <2>4, <2>5
<1>6. ASSUME NEW d \in Dir, SetLaunchDir(c, d) PROVE [Linear!Next]_Linear!vars
  <2> DEFINE r == [op |-> "launchdir", by |-> c, dir |-> d]
  <2>1. /\ submitWait(c, r) /\ r \in Request /\ r.op = "launchdir" /\ r.dir = d
        /\ (reqs' = Append(reqs, r) \/ reqs' = reqs)
    BY <1>6 DEF SetLaunchDir, Request, submitWait, submit
  <2> HIDE DEF r
  <2>2. CASE reqs' = Append(reqs, r)
    <3>1. Settled' = [agents |-> Settled.agents, dir |-> d]
      BY <1>1, <1>3, <2>1, <2>2, ExecuteCases
    <3>2. Settled'.agents = Settled.agents /\ Settled'.dir = d
      BY <3>1
    <3>3. Linear!SetLaunchDir(c, d)
      BY <1>1, <1>3, <2>1, <3>2 DEF Linear!SetLaunchDir, Answers
    <3> QED BY <3>3 DEF Linear!Next
  <2>3. CASE reqs' = reqs
    BY <1>3, <1>4, <2>1, <2>3
  <2> QED BY <2>1, <2>2, <2>3
<1>7. ASSUME NEW s \in SubId, CallSubscribe(c, s) PROVE [Linear!Next]_Linear!vars
  <2> DEFINE r == [op |-> "subscribe", by |-> c, sub |-> s]
  <2>1. /\ submitWait(c, r) /\ r \in Request /\ r.op = "subscribe"
        /\ (reqs' = Append(reqs, r) \/ reqs' = reqs)
    BY <1>7 DEF CallSubscribe, Request, submitWait, submit
  <2> HIDE DEF r
  <2>2. Settled' = Settled
    BY <1>1, <1>3, <2>1, ExecuteCases
  <2> QED BY <1>4, <2>1, <2>2
<1> QED BY <1>2, <1>5, <1>6, <1>7 DEF Call

LEMMA StepRefines ==
  TypeOK /\ TypeOK' /\ ReplyInv /\ ReplyInv' /\ [Next]_vars => [Linear!Next]_Linear!vars
<1> SUFFICES ASSUME TypeOK, TypeOK', ReplyInv, ReplyInv', [Next]_vars
             PROVE  [Linear!Next]_Linear!vars
  OBVIOUS
<1>1. ASSUME reqs' = reqs, Now' = Now, snapshot' = snapshot, waiting' = waiting
      PROVE  /\ quit' = quit => UNCHANGED Linear!vars
             /\ quit' => Linear!Close
  <2>1. Settled' = Settled /\ Answers' = Answers
    BY <1>1, KeepStep DEF Answers
  <2> QED BY <1>1, <2>1 DEF Linear!vars, Linear!Close, Answers
<1>2. CASE Return \/ (\E s \in SubId : Receive(s)) \/ UNCHANGED vars
  <2>1. /\ reqs' = reqs /\ Now' = Now /\ snapshot' = snapshot /\ waiting' = waiting
        /\ quit' = quit
    BY <1>2 DEF Return, Receive, channel, clients, vars, Now
  <2> QED BY <1>1, <2>1
<1>3. CASE Close
  <2>1. /\ reqs' = reqs /\ Now' = Now /\ snapshot' = snapshot /\ waiting' = waiting
        /\ quit'
    BY <1>3 DEF Close, core, clients, Now
  <2> QED BY <1>1, <2>1 DEF Linear!Next
<1>4. ASSUME NEW s \in SubId, CallCancel(s) PROVE [Linear!Next]_Linear!vars
  <2> DEFINE r == [op |-> "cancel", sub |-> s]
  <2>1. /\ r \in Request /\ r.op = "cancel" /\ (reqs' = Append(reqs, r) \/ reqs' = reqs)
        /\ Now' = Now /\ snapshot' = snapshot /\ waiting' = waiting /\ quit' = quit
        /\ \A c \in Caller : r # Asks(c)
    BY <1>4 DEF CallCancel, Request, submit, core, clients, Now, Asks
  <2> HIDE DEF r
  <2>2. CASE reqs' = Append(reqs, r)
    <3>1. Settled' = Settled /\ Answers' = Answers
      BY <2>1, <2>2, PutStep, ExecuteCases, SettledType DEF Answers
    <3> QED BY <2>1, <3>1 DEF Linear!vars, Answers
  <2>3. CASE reqs' = reqs
    BY <1>1, <2>1, <2>3
  <2> QED BY <2>1, <2>2, <2>3
<1> QED BY <1>2, <1>3, <1>4, ExecRefines, CallRefines DEF Next, Run

\* The initial state of the goroutine is an empty store.
LEMMA InitRefines == Init => Linear!Init
<1> SUFFICES ASSUME Init PROVE Linear!Init
  OBVIOUS
<1>1. TypeOK /\ reqs = <<>> /\ Len(reqs) = 0
  BY InitType DEF Init
<1>2. Settled = Now
  BY <1>1, AfterEquations DEF Settled
<1>3. Now.agents = agents /\ Now.dir = launchDir
  BY DEF Now
<1>4. \A c \in Caller : AnswerOf(c) = NoSnapshot
  BY <1>1, AnswerGiven DEF Init
<1> QED BY <1>2, <1>3, <1>4 DEF Init, Linear!Init

\* Every operation of the roster takes effect atomically, between its call and
\* its return: Roster implements LinearRoster but for the promise to return.
THEOREM Refines == Spec => Linear!Safety
<1>1. Init => ReplyInv
  BY DEF Init, ReplyInv
<1> QED BY <1>1, InitType, TypeStep, ReplyStep, StepRefines, InitRefines, PTL
        DEF Spec, Linear!Safety
=============================================================================
