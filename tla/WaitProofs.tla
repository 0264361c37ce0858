------------------------------- MODULE WaitProofs -------------------------------
(***************************************************************************)
(* Proofs about WaitHandler, for every set of agents, wait commands and    *)
(* mutations, and every size of a subscriber's buffer.                     *)
(***************************************************************************)
EXTENDS WaitHandler, RosterOpsProofs

-----------------------------------------------------------------------------
(* The inductive invariant, waiter by waiter.                              *)

Following(w) == At(w, "check") \/ At(w, "loop")

\* Until the handler subscribes its subscriber is as it was made and nothing is
\* due.  From then on, until it returns, the subscriber is a member exactly as
\* long as its channel is open.
FeedInv(w) ==
  /\ waiter[w].pc \in {"unused", "greeted", "subscribe"} =>
       w \notin due /\ subs[w] = NewSubscriber
  /\ Following(w) =>
       /\ subs[w].member <=> subs[w].open
       /\ subs[w].flag <=> ~subs[w].open

\* A result that is due is in the feed, unless the feed overflowed.
DueInv(w) ==
  w \in due /\ Following(w) /\ subs[w].open =>
    \E i \in 1 .. Len(subs[w].ch) :
      subs[w].ch[i].id = waiter[w].target /\ Terminal(subs[w].ch[i].agent)

\* The roster and the feed say of the agent what was true since the command asked.
TrueInv(w) ==
  /\ At(w, "subscribe") \/ Following(w) => agents[waiter[w].target] \in was[w]
  /\ Following(w) =>
       \A i \in 1 .. Len(subs[w].ch) :
         subs[w].ch[i].id = waiter[w].target => subs[w].ch[i].agent \in was[w]

\* There is an answer only when the handler has returned.
AnswerInv(w) ==
  waiter[w].answer # NoAnswer =>
    /\ At(w, "done")
    /\ waiter[w].answer.id = waiter[w].target
    /\ waiter[w].answer.agent \in was[w]
    /\ Terminal(waiter[w].answer.agent)

WaiterInv(w) == FeedInv(w) /\ DueInv(w) /\ TrueInv(w) /\ AnswerInv(w)

AllWaiterInv == \A w \in SubId : WaiterInv(w)
IInv == TypeOK /\ AllWaiterInv
-----------------------------------------------------------------------------
(* Types.                                                                  *)

\* The types of one waiter and its subscriber, and of what a mutation makes.
LEMMA WaiterType ==
  ASSUME TypeOK, NEW w \in SubId
  PROVE  /\ waiter[w] \in Waiter /\ waiter[w].target \in AgentId
         /\ subs[w] \in Subscriber /\ subs[w].ch \in Seq(Update)
         /\ \A a \in AgentId : agents[a] \in AgentState \cup {NoAgent}
BY DEF TypeOK, Waiter, Subscriber, Agents

LEMMA MutateType ==
  ASSUME TypeOK, NEW m \in Input, Mutate(m)
  PROVE  /\ m \in Mutation /\ m.id \in AgentId
         /\ agents' \in Agents
         /\ UpdateOf(agents', m.id) \in Update
         /\ \A w \in SubId : subs'[w] = IF Silent(agents, m) THEN subs[w]
                                       ELSE Deliver(subs[w], UpdateOf(agents', m.id))
<1>1. m \in Mutation /\ m.id \in AgentId
  BY InputAssumption DEF Mutation
<1>2. agents' \in Agents
  BY <1>1, ApplyType DEF Mutate, TypeOK
<1>3. UpdateOf(agents', m.id) \in Update
  BY <1>1, <1>2 DEF UpdateOf, Update, Agents
<1>4. DOMAIN subs = SubId
  BY DEF TypeOK
<1> QED BY <1>1, <1>2, <1>3, <1>4 DEF Mutate, Broadcast

\* A handler that returns has its answer and a cancelled subscriber.
LEMMA FinishType ==
  ASSUME TypeOK, NEW w \in SubId, NEW answer \in Update \cup {NoAnswer}, Finish(w, answer)
  PROVE  waiter' \in [SubId -> Waiter] /\ subs' \in [SubId -> Subscriber]
<1>1. waiter[w] \in Waiter /\ subs[w] \in Subscriber
  BY WaiterType
<1>2. [waiter[w] EXCEPT !.pc = "done", !.answer = answer] \in Waiter
  BY <1>1 DEF Waiter
<1>3. Cancel(subs[w]) \in Subscriber
  BY <1>1, SubscriptionType
<1>4. waiter' = [waiter EXCEPT ![w] = [waiter[w] EXCEPT !.pc = "done", !.answer = answer]]
  BY DEF Finish, TypeOK
<1> QED BY <1>2, <1>3, <1>4 DEF Finish, TypeOK

\* The steps in which handler w takes one step and the others none.
LEMMA WaiterStep ==
  ASSUME TypeOK, NEW w \in SubId, NEW a \in AgentId,
         NEW pc \in {"unused", "greeted", "subscribe", "check", "loop", "done"},
         \/ waiter' = [waiter EXCEPT ![w].pc = pc]
         \/ waiter' = [waiter EXCEPT ![w] = [@ EXCEPT !.pc = pc, !.target = a,
                                                     !.greeting = agents]]
  PROVE  waiter' \in [SubId -> Waiter]
<1>1. waiter[w] \in Waiter /\ agents \in Agents
  BY WaiterType DEF TypeOK
<1>2. /\ [waiter[w] EXCEPT !.pc = pc] \in Waiter
      /\ [waiter[w] EXCEPT !.pc = pc, !.target = a, !.greeting = agents] \in Waiter
  BY <1>1 DEF Waiter
<1> QED BY <1>2 DEF TypeOK

LEMMA TypeStep == TypeOK /\ [Next]_vars => TypeOK'
<1> SUFFICES ASSUME TypeOK, [Next]_vars PROVE TypeOK'
  OBVIOUS
<1>1. ASSUME NEW m \in Input, Mutate(m) PROVE TypeOK'
  <2>1. agents' \in Agents
    BY <1>1, MutateType
  <2>2. subs' \in [SubId -> Subscriber]
    <3>1. ASSUME NEW w \in SubId PROVE subs'[w] \in Subscriber
      BY <1>1, MutateType, WaiterType, SubscriberType
    <3>2. subs' = [w \in SubId |-> subs'[w]]
      BY <1>1 DEF Mutate, Broadcast, TypeOK
    <3> QED BY <3>1, <3>2
  <2>3. was' \in [SubId -> SUBSET (AgentState \cup {NoAgent})]
    <3>1. ASSUME NEW w \in SubId PROVE agents'[waiter[w].target] \in AgentState \cup {NoAgent}
      BY <2>1, WaiterType DEF Agents
    <3> QED BY <1>1, <3>1 DEF Mutate, TypeOK
  <2>4. due' \in SUBSET SubId /\ inputs' \in 0 .. MaxInput /\ waiter' \in [SubId -> Waiter]
    BY <1>1, BoundAssumption DEF Mutate, TypeOK
  <2> QED BY <2>1, <2>2, <2>3, <2>4 DEF TypeOK
<1>2. ASSUME NEW w \in SubId, NEW a \in AgentId, DialHello(w, a) PROVE TypeOK'
  BY <1>2, WaiterStep DEF DialHello, TypeOK
<1>3. ASSUME NEW w \in SubId, Ask(w) PROVE TypeOK'
  <2>1. waiter' \in [SubId -> Waiter]
    BY <1>3, WaiterType, WaiterStep DEF Ask
  <2>2. {agents[waiter[w].target]} \in SUBSET (AgentState \cup {NoAgent})
    BY WaiterType
  <2> QED BY <1>3, <2>1, <2>2 DEF Ask, TypeOK
<1>4. ASSUME NEW w \in SubId, SubscribeWait(w) PROVE TypeOK'
  <2>1. waiter' \in [SubId -> Waiter]
    BY <1>4, WaiterType, WaiterStep DEF SubscribeWait
  <2>2. Subscribe(subs[w]) \in Subscriber
    BY WaiterType, SubscriptionType
  <2> QED BY <1>4, <2>1, <2>2 DEF SubscribeWait, TypeOK
<1>5. ASSUME NEW w \in SubId, Check(w) PROVE TypeOK'
  <2>1. waiter' \in [SubId -> Waiter] /\ subs' \in [SubId -> Subscriber]
    <3>1. CASE Terminal(agents[waiter[w].target])
      <4>1. UpdateOf(agents, waiter[w].target) \in Update
        BY WaiterType DEF UpdateOf, Update
      <4> QED BY <1>5, <3>1, <4>1, FinishType DEF Check
    <3>2. CASE ~Terminal(agents[waiter[w].target])
      <4>1. waiter' = [waiter EXCEPT ![w].pc = "loop"] /\ subs' = subs
        BY <1>5, <3>2 DEF Check
      <4> QED BY <4>1, WaiterType, WaiterStep DEF TypeOK
    <3> QED BY <3>1, <3>2
  <2>2. due' \in SUBSET SubId /\ UNCHANGED <<agents, was, inputs>>
    BY <1>5 DEF Check, TypeOK
  <2> QED BY <2>1, <2>2 DEF TypeOK
<1>6. ASSUME NEW w \in SubId, Receive(w) PROVE TypeOK'
  <2>1. subs[w] \in Subscriber /\ Head(subs[w].ch) \in Update /\ Tail(subs[w].ch) \in Seq(Update)
    BY <1>6, WaiterType DEF Receive
  <2>2. waiter' \in [SubId -> Waiter] /\ subs' \in [SubId -> Subscriber]
    <3>1. ASSUME Finish(w, Head(subs[w].ch))
          PROVE  waiter' \in [SubId -> Waiter] /\ subs' \in [SubId -> Subscriber]
      BY <2>1, <3>1, FinishType
    <3>2. ASSUME subs' = [subs EXCEPT ![w].ch = Tail(@)], UNCHANGED waiter
          PROVE  waiter' \in [SubId -> Waiter] /\ subs' \in [SubId -> Subscriber]
      <4>1. [subs[w] EXCEPT !.ch = Tail(subs[w].ch)] \in Subscriber
        BY <2>1 DEF Subscriber
      <4> QED BY <3>2, <4>1 DEF TypeOK
    <3> QED BY <1>6, <3>1, <3>2 DEF Receive
  <2> QED BY <1>6, <2>2 DEF Receive, TypeOK
<1>7. ASSUME NEW w \in SubId, FeedClosed(w) PROVE TypeOK'
  BY <1>7, FinishType DEF FeedClosed, TypeOK
<1>8. CASE UNCHANGED vars
  BY <1>8 DEF vars, TypeOK
<1> QED BY <1>1, <1>2, <1>3, <1>4, <1>5, <1>6, <1>7, <1>8 DEF Next, handleWait

-----------------------------------------------------------------------------
(* The invariant is kept.                                                  *)

\* What another waiter does leaves a waiter's invariant alone.
LEMMA Others ==
  ASSUME TypeOK, NEW w \in SubId, NEW v \in SubId, v # w, WaiterInv(v),
         agents' = agents, waiter'[v] = waiter[v], subs'[v] = subs[v], was'[v] = was[v],
         v \in due' <=> v \in due
  PROVE  WaiterInv(v)'
BY DEF WaiterInv, FeedInv, DueInv, TrueInv, AnswerInv, Following, At

\* A handler that has returned keeps its answer.
LEMMA Returned ==
  ASSUME TypeOK, NEW w \in SubId, NEW answer \in Update \cup {NoAnswer}, Finish(w, answer),
         answer # NoAnswer =>
           answer.id = waiter[w].target /\ answer.agent \in was'[w] /\ Terminal(answer.agent)
  PROVE  WaiterInv(w)'
<1>1. waiter'[w] = [waiter[w] EXCEPT !.pc = "done", !.answer = answer]
  BY DEF Finish, TypeOK
<1>2. waiter'[w].pc = "done" /\ waiter'[w].answer = answer /\ waiter'[w].target = waiter[w].target
  BY <1>1, WaiterType DEF Waiter
<1> QED BY <1>2 DEF WaiterInv, FeedInv, DueInv, TrueInv, AnswerInv, Following, At

LEMMA MutateStep ==
  ASSUME IInv, NEW m \in Input, Mutate(m), NEW w \in SubId
  PROVE  WaiterInv(w)'
<1> DEFINE u == UpdateOf(agents', m.id)
<1> DEFINE s == subs[w]
<1>0. TypeOK /\ WaiterInv(w)
  BY DEF IInv, AllWaiterInv
<1>1. /\ m \in Mutation /\ m.id \in AgentId /\ agents \in Agents /\ agents' = Apply(agents, m)
      /\ u \in Update /\ s \in Subscriber /\ s.ch \in Seq(Update)
      /\ waiter[w].target \in AgentId
      /\ u.id = m.id /\ u.agent = agents'[m.id]
      /\ subs'[w] = IF Silent(agents, m) THEN s ELSE Deliver(s, u)
  BY <1>0, MutateType, WaiterType DEF Mutate, TypeOK, UpdateOf
<1>2. UNCHANGED waiter /\ \A pc : At(w, pc)' <=> At(w, pc)
  BY DEF Mutate, At
<1>3. Following(w)' <=> Following(w)
  BY <1>2 DEF Following
<1>4. w \in due' <=> \/ w \in due
                     \/ Following(w) /\ waiter[w].target = m.id /\ Terminal(agents'[m.id])
  BY DEF Mutate, Following
<1>5. was'[w] = IF waiter[w].pc \in {"unused", "greeted", "done"} THEN was[w]
                ELSE was[w] \cup {agents'[waiter[w].target]}
  BY DEF Mutate
<1>6. Silent(agents, m) => agents' = agents /\ agents[m.id] = NoAgent
  BY <1>1, SilentSame DEF Silent
\* What becomes of the feed.
<1>7. ASSUME Following(w), subs'[w].open
      PROVE  /\ s.open
             /\ \/ Silent(agents, m) /\ subs'[w].ch = s.ch
                \/ ~Silent(agents, m) /\ subs'[w].ch = Append(s.ch, u)
  <2>1. (s.member <=> s.open) /\ (s.flag <=> ~s.open)
    BY <1>0, <1>7 DEF WaiterInv, FeedInv
  <2>2. CASE Silent(agents, m)
    BY <1>1, <1>7, <2>2
  <2>3. CASE ~Silent(agents, m)
    <3>1. subs'[w] = Deliver(s, u) /\ Deliver(s, u).open
      BY <1>1, <1>7, <2>3
    <3>2. s.member /\ Deliver(s, u).member
      BY <1>1, <2>1, <3>1, DeliverCases
    <3>3. Deliver(s, u).ch = Append(s.ch, u)
      BY <1>1, <2>1, <3>2, DeliverCases
    <3> QED BY <2>1, <2>3, <3>1, <3>2, <3>3
  <2> QED BY <2>2, <2>3
<1>8. ASSUME Following(w)
      PROVE  \/ subs'[w].ch = s.ch
             \/ subs'[w].ch = Append(s.ch, u)
  <2>1. (s.member <=> s.open) /\ (s.flag <=> ~s.open)
    BY <1>0, <1>8 DEF WaiterInv, FeedInv
  <2> DEFINE n == Deliver(s, u)
  <2>2. s \in Subscriber /\ u \in Update /\ (subs'[w] = s \/ subs'[w] = n)
    BY <1>1
  <2>3. s.member => s.open /\ ~s.flag
    BY <2>1
  <2>4. ~s.member => n = s
    BY <2>2, <2>3, DeliverCases
  <2>5. s.member /\ n.member => n.ch = Append(s.ch, u)
    BY <2>2, <2>3, DeliverCases
  <2>6. s.member /\ ~n.member => n.ch = s.ch
    BY <2>2, <2>3, DeliverCases
  <2> HIDE DEF n
  <2> QED BY <2>2, <2>4, <2>5, <2>6
<1>9. FeedInv(w)'
  <2>1. CASE waiter[w].pc \in {"unused", "greeted", "subscribe"}
    <3>1. s = NewSubscriber /\ w \notin due /\ ~Following(w)
      BY <1>0, <2>1 DEF WaiterInv, FeedInv, Following, At
    <3>2. subs'[w] = NewSubscriber
      BY <1>1, <3>1 DEF Deliver, NewSubscriber
    <3> QED BY <1>2, <1>3, <1>4, <3>1, <3>2 DEF FeedInv
  <2>2. CASE Following(w)
    <3>1. (s.member <=> s.open) /\ (s.flag <=> ~s.open)
      BY <1>0, <2>2 DEF WaiterInv, FeedInv
    <3>2. (subs'[w].member <=> subs'[w].open) /\ (subs'[w].flag <=> ~subs'[w].open)
      BY <1>1, <3>1, DeliverCases DEF Subscriber
    <3> QED BY <1>2, <2>2, <3>2 DEF FeedInv, Following, At
  <2>3. CASE ~(waiter[w].pc \in {"unused", "greeted", "subscribe"}) /\ ~Following(w)
    BY <1>2, <1>3, <2>3 DEF FeedInv
  <2> QED BY <2>1, <2>2, <2>3
<1> DEFINE q == subs'[w].ch
<1>10. DueInv(w)'
  <2> SUFFICES ASSUME w \in due', Following(w), subs'[w].open
               PROVE  \E i \in 1 .. Len(q) : q[i].id = waiter[w].target /\ Terminal(q[i].agent)
    BY <1>2, <1>3 DEF DueInv
  <2>1. CASE waiter[w].target = m.id /\ Terminal(agents'[m.id])
    <3>1. ~Silent(agents, m)
      BY <1>6, <2>1 DEF Terminal
    <3>2. q = Append(s.ch, u)
      BY <1>7, <3>1
    <3>3. Len(s.ch) + 1 \in 1 .. Len(q) /\ q[Len(s.ch) + 1] = u
      BY <1>1, <3>2
    <3> QED BY <1>1, <2>1, <3>3
  <2>2. CASE w \in due
    <3>1. PICK i \in 1 .. Len(s.ch) :
            s.ch[i].id = waiter[w].target /\ Terminal(s.ch[i].agent)
      BY <1>0, <1>7, <2>2 DEF WaiterInv, DueInv
    <3>2. i \in 1 .. Len(q) /\ q[i] = s.ch[i]
      BY <1>1, <1>7, <3>1
    <3> QED BY <3>1, <3>2
  <2> QED BY <1>4, <2>1, <2>2
<1>11. TrueInv(w)'
  <2>1. At(w, "subscribe") \/ Following(w) =>
          /\ was'[w] = was[w] \cup {agents'[waiter[w].target]}
    BY <1>5 DEF At, Following
  <2>2. ASSUME Following(w), NEW i \in 1 .. Len(q), q[i].id = waiter[w].target
        PROVE  q[i].agent \in was'[w]
    <3>1. CASE i \in 1 .. Len(s.ch) /\ q[i] = s.ch[i]
      BY <1>0, <2>1, <2>2, <3>1 DEF WaiterInv, TrueInv
    <3>2. CASE q[i] = u
      BY <1>1, <2>1, <2>2, <3>2
    <3>3. \/ i \in 1 .. Len(s.ch) /\ q[i] = s.ch[i]
          \/ q[i] = u
      <4>1. CASE q = s.ch
        BY <2>2, <4>1
      <4>2. CASE q = Append(s.ch, u)
        BY <1>1, <2>2, <4>2, AppendShape
      <4> QED BY <1>8, <2>2, <4>1, <4>2
    <3> QED BY <3>1, <3>2, <3>3
  <2> QED BY <1>2, <1>3, <2>1, <2>2 DEF TrueInv
<1>12. AnswerInv(w)'
  BY <1>0, <1>2, <1>5 DEF WaiterInv, AnswerInv, At
<1> QED BY <1>9, <1>10, <1>11, <1>12 DEF WaiterInv
\* The first update about the agent with a result in it is the answer, and an
\* update that is passed over was not one.
LEMMA ReceiveStep ==
  ASSUME IInv, NEW w \in SubId, Receive(w)
  PROVE  WaiterInv(w)'
<1> DEFINE c == subs[w].ch
<1>1. TypeOK /\ WaiterInv(w) /\ waiter[w] \in Waiter
      /\ subs[w] \in Subscriber /\ c \in Seq(Update) /\ c # <<>>
      /\ UNCHANGED <<agents, due, was>> /\ Following(w) /\ waiter[w].pc = "loop"
  BY WaiterType DEF Receive, IInv, AllWaiterInv, Following, At
<1>2. /\ Head(c) = c[1] /\ c[1] \in Update /\ 1 \in 1 .. Len(c)
      /\ Len(Tail(c)) = Len(c) - 1 /\ Len(c) \in Nat
      /\ \A i \in 1 .. Len(Tail(c)) : i + 1 \in 1 .. Len(c) /\ Tail(c)[i] = c[i + 1]
  BY <1>1
<1>3. CASE Head(c).id = waiter[w].target /\ Terminal(Head(c).agent)
  <2>1. Finish(w, Head(c)) /\ Head(c).agent \in was'[w]
    BY <1>1, <1>2, <1>3 DEF Receive, WaiterInv, TrueInv
  <2> QED BY <1>1, <1>2, <1>3, <2>1, Returned
<1>4. CASE ~(Head(c).id = waiter[w].target /\ Terminal(Head(c).agent))
  <2>1. subs' = [subs EXCEPT ![w].ch = Tail(c)] /\ UNCHANGED waiter
    BY <1>4 DEF Receive
  <2>2. /\ subs'[w].ch = Tail(c) /\ subs'[w].open = subs[w].open
        /\ subs'[w].flag = subs[w].flag /\ subs'[w].member = subs[w].member
    BY <1>1, <2>1 DEF TypeOK, Subscriber
  <2>3. FeedInv(w)'
    BY <1>1, <2>1, <2>2 DEF WaiterInv, FeedInv, Following, At
  <2>4. DueInv(w)'
    <3> SUFFICES ASSUME w \in due, subs[w].open
                 PROVE  \E i \in 1 .. Len(Tail(c)) :
                          Tail(c)[i].id = waiter[w].target /\ Terminal(Tail(c)[i].agent)
      BY <1>1, <2>1, <2>2 DEF DueInv
    <3>1. PICK i \in 1 .. Len(c) : c[i].id = waiter[w].target /\ Terminal(c[i].agent)
      BY <1>1 DEF WaiterInv, DueInv
    <3>2. i # 1
      BY <1>2, <1>4, <3>1
    <3>3. i - 1 \in 1 .. Len(Tail(c)) /\ Tail(c)[i - 1] = c[i]
      <4>1. i - 1 \in 1 .. Len(Tail(c)) /\ (i - 1) + 1 = i
        BY <1>2, <3>2
      <4> QED BY <1>2, <4>1
    <3> QED BY <3>1, <3>3
  <2>5. TrueInv(w)'
    <3>1. ASSUME NEW i \in 1 .. Len(Tail(c)), Tail(c)[i].id = waiter[w].target
          PROVE  Tail(c)[i].agent \in was[w]
      BY <1>1, <1>2, <3>1 DEF WaiterInv, TrueInv
    <3> QED BY <1>1, <2>1, <2>2, <3>1 DEF WaiterInv, TrueInv, Following, At
  <2>6. AnswerInv(w)'
    BY <1>1, <2>1 DEF WaiterInv, AnswerInv, At
  <2> QED BY <2>3, <2>4, <2>5, <2>6 DEF WaiterInv
<1> QED BY <1>3, <1>4

\* The snapshot is read after the subscription: what was due before is in it.
LEMMA CheckStep ==
  ASSUME IInv, NEW w \in SubId, Check(w)
  PROVE  WaiterInv(w)'
<1> DEFINE t == waiter[w].target
<1>1. TypeOK /\ WaiterInv(w) /\ waiter[w] \in Waiter /\ t \in AgentId
      /\ UNCHANGED <<agents, was>> /\ Following(w) /\ waiter[w].pc = "check"
  BY WaiterType DEF Check, IInv, AllWaiterInv, Following, At
<1>2. CASE Terminal(agents[t])
  <2>1. UpdateOf(agents, t) \in Update /\ Finish(w, UpdateOf(agents, t))
    BY <1>1, <1>2, WaiterType DEF UpdateOf, Update, Check
  <2>2. UpdateOf(agents, t).id = t /\ UpdateOf(agents, t).agent = agents[t]
        /\ agents[t] \in was'[w]
    BY <1>1 DEF UpdateOf, WaiterInv, TrueInv
  <2> QED BY <1>1, <1>2, <2>1, <2>2, Returned
<1>3. CASE ~Terminal(agents[t])
  <2>1. waiter' = [waiter EXCEPT ![w].pc = "loop"] /\ UNCHANGED <<subs, due>>
    BY <1>3 DEF Check
  <2>2. /\ waiter'[w].pc = "loop" /\ waiter'[w].target = t
        /\ waiter'[w].answer = waiter[w].answer
    BY <1>1, <2>1 DEF TypeOK, Waiter
  <2> QED BY <1>1, <2>1, <2>2
          DEF WaiterInv, FeedInv, DueInv, TrueInv, AnswerInv, Following, At
<1> QED BY <1>2, <1>3

LEMMA InvStep == IInv /\ [Next]_vars => AllWaiterInv'
<1> SUFFICES ASSUME IInv, [Next]_vars, NEW w \in SubId PROVE WaiterInv(w)'
  BY DEF AllWaiterInv
<1>0. TypeOK /\ WaiterInv(w) /\ waiter[w] \in Waiter
  BY WaiterType DEF IInv, AllWaiterInv
<1>1. ASSUME NEW m \in Input, Mutate(m) PROVE WaiterInv(w)'
  BY <1>1, MutateStep
<1>2. ASSUME NEW v \in SubId, v # w,
             (\E a \in AgentId : DialHello(v, a)) \/ Ask(v) \/ handleWait(v)
      PROVE  WaiterInv(w)'
  <2>1. /\ agents' = agents /\ waiter'[w] = waiter[w] /\ subs'[w] = subs[w]
        /\ was'[w] = was[w] /\ (w \in due' <=> w \in due)
    BY <1>0, <1>2 DEF TypeOK, DialHello, Ask, handleWait, SubscribeWait, Check, Receive,
                      FeedClosed, Finish
  <2> QED BY <1>0, <1>2, <2>1, Others
<1>3. ASSUME NEW a \in AgentId, DialHello(w, a) PROVE WaiterInv(w)'
  <2>1. /\ waiter[w].pc = "unused" /\ waiter'[w].pc = "greeted"
        /\ waiter'[w].answer = waiter[w].answer /\ UNCHANGED <<agents, subs, due, was>>
    BY <1>0, <1>3 DEF DialHello, TypeOK, Waiter, At
  <2> QED BY <1>0, <2>1
          DEF WaiterInv, FeedInv, DueInv, TrueInv, AnswerInv, Following, At
<1>4. CASE Ask(w)
  <2>1. /\ waiter[w].pc = "greeted" /\ waiter'[w].pc = "subscribe"
        /\ waiter'[w].answer = waiter[w].answer /\ waiter'[w].target = waiter[w].target
        /\ UNCHANGED <<agents, subs, due>> /\ was'[w] = {agents[waiter[w].target]}
    BY <1>0, <1>4 DEF Ask, TypeOK, Waiter, At
  <2> QED BY <1>0, <2>1
          DEF WaiterInv, FeedInv, DueInv, TrueInv, AnswerInv, Following, At
<1>5. CASE SubscribeWait(w)
  <2>1. /\ waiter[w].pc = "subscribe" /\ waiter'[w].pc = "check"
        /\ waiter'[w].answer = waiter[w].answer /\ waiter'[w].target = waiter[w].target
        /\ UNCHANGED <<agents, due, was>> /\ subs'[w] = Subscribe(NewSubscriber)
        /\ w \notin due
    BY <1>0, <1>5 DEF SubscribeWait, TypeOK, Waiter, At, WaiterInv, FeedInv
  <2>2. /\ Subscribe(NewSubscriber).member /\ Subscribe(NewSubscriber).open
        /\ ~Subscribe(NewSubscriber).flag /\ Len(Subscribe(NewSubscriber).ch) = 0
    BY DEF Subscribe, NewSubscriber
  <2> QED BY <1>0, <2>1, <2>2
          DEF WaiterInv, FeedInv, DueInv, TrueInv, AnswerInv, Following, At
<1>6. CASE Check(w) \/ Receive(w)
  BY <1>6, CheckStep, ReceiveStep
<1>7. CASE FeedClosed(w)
  BY <1>0, <1>7, Returned DEF FeedClosed
<1>8. CASE UNCHANGED vars
  BY <1>0, <1>8 DEF vars, WaiterInv, FeedInv, DueInv, TrueInv, AnswerInv, Following, At
<1>9. ASSUME NEW v \in SubId,
             (\E a \in AgentId : DialHello(v, a)) \/ Ask(v) \/ handleWait(v)
      PROVE  WaiterInv(w)'
  BY <1>2, <1>3, <1>4, <1>5, <1>6, <1>7, <1>9 DEF handleWait
<1> QED BY <1>1, <1>8, <1>9 DEF Next

LEMMA InitInv == Init => IInv
<1> SUFFICES ASSUME Init PROVE IInv
  OBVIOUS
<1>1. ASSUME NEW w \in SubId
      PROVE  /\ waiter[w] \in Waiter /\ waiter[w].pc = "unused" /\ waiter[w].answer = NoAnswer
             /\ subs[w] = NewSubscriber /\ subs[w] \in Subscriber
  <2>1. Idle(w) \in Waiter
    BY AgentAssumption DEF Idle, Waiter, NoAgents, Agents
  <2>2. NewSubscriber \in Subscriber
    BY DEF NewSubscriber, Subscriber
  <2> QED BY <2>1, <2>2 DEF Init, Idle
<1>2. TypeOK
  <2>1. waiter \in [SubId -> Waiter] /\ subs \in [SubId -> Subscriber]
    BY <1>1 DEF Init
  <2> QED BY <2>1, BoundAssumption DEF Init, TypeOK, Agents, NoAgents
<1>3. AllWaiterInv
  BY <1>1 DEF Init, AllWaiterInv, WaiterInv, FeedInv, DueInv, TrueInv, AnswerInv, Following, At
<1> QED BY <1>2, <1>3 DEF IInv

-----------------------------------------------------------------------------
(* The theorems.                                                           *)

LEMMA Invariance == Spec => []IInv
<1>1. IInv /\ [Next]_vars => IInv'
  BY TypeStep, InvStep DEF IInv
<1> QED BY InitInv, <1>1, PTL DEF Spec

\* The state of handlers and commands is of the type it is declared with.
THEOREM Typing == Spec => []TypeOK
BY Invariance, PTL DEF IInv

\* A handler with nothing left to look at has had no result to report: none is
\* lost between the subscription, the snapshot and the updates (handleWait).
THEOREM NothingLost == Spec => []NoLostResult
<1>1. IInv => NoLostResult
  <2> SUFFICES ASSUME IInv, NEW w \in SubId, At(w, "loop"), subs[w].open,
                      subs[w].ch = <<>>, w \in due
               PROVE  FALSE
    BY DEF NoLostResult
  <2>1. Len(subs[w].ch) = 0
    OBVIOUS
  <2> QED BY <2>1 DEF IInv, AllWaiterInv, WaiterInv, DueInv, Following
<1> QED BY Invariance, <1>1, PTL

\* The result that `mure wait` prints is one that the agent's record held since
\* the command asked.
THEOREM AnswersAreTrue == Spec => []AnswerWasTrue
<1>1. IInv => AnswerWasTrue
  BY DEF IInv, AllWaiterInv, WaiterInv, AnswerInv, AnswerWasTrue
<1> QED BY Invariance, <1>1, PTL
=============================================================================
