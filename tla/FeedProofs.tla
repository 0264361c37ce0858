------------------------------ MODULE FeedProofs ------------------------------
(***************************************************************************)
(* Proofs about SidebarFeed, for every set of agents and inputs, any       *)
(* number of sessions, and every capacity of the three queues between the  *)
(* roster and the rows.                                                    *)
(***************************************************************************)
EXTENDS SidebarFeed, RosterOpsProofs, SequenceTheorems

-----------------------------------------------------------------------------
(* What a queue of frames makes of a row.                                   *)

\* Frame f says something about agent a, and what it says.
About(f, a) ==
  \/ f.event = "roster"
  \/ f.event = "agent_update" /\ f.update.id = a

Said(f, a) == IF f.event = "roster" THEN f.agents[a] ELSE f.update.agent

Mentions(q, a) == {i \in 1 .. Len(q) : About(q[i], a)}

LastMention(q, a) ==
  CHOOSE i \in Mentions(q, a) : \A j \in Mentions(q, a) : j <= i

\* What a row that holds v holds after all the frames of q.
Seen(q, a, v) ==
  IF Mentions(q, a) = {} THEN v ELSE Said(q[LastMention(q, a)], a)

\* The last frame about an agent decides.
LEMMA SeenLast ==
  ASSUME NEW q, NEW a, NEW v, Len(q) \in Nat, NEW i \in Mentions(q, a),
         \A j \in Mentions(q, a) : j <= i
  PROVE  Seen(q, a, v) = Said(q[i], a)
<1>1. \A j \in Mentions(q, a) : j \in Nat
  BY DEF Mentions
<1>2. LastMention(q, a) \in Mentions(q, a)
      /\ \A j \in Mentions(q, a) : j <= LastMention(q, a)
  BY DEF LastMention
<1>3. LastMention(q, a) = i
  BY <1>1, <1>2
<1> QED BY <1>3 DEF Seen

LEMMA SeenNone ==
  ASSUME NEW q, NEW a, NEW v, Mentions(q, a) = {}
  PROVE  Seen(q, a, v) = v
BY DEF Seen

LEMMA LastExists ==
  ASSUME NEW q, NEW a, Len(q) \in Nat, Mentions(q, a) # {}
  PROVE  \E i \in Mentions(q, a) : \A j \in Mentions(q, a) : j <= i
<1> DEFINE T == {n \in Nat : \E i \in Mentions(q, a) : n = Len(q) - i}
<1>1. \A i \in Mentions(q, a) : i \in Nat /\ Len(q) - i \in Nat
  BY DEF Mentions
<1>2. T # {} /\ T \in SUBSET Nat
  BY <1>1
<1>3. PICK n \in T : \A m \in T : n <= m
  <2> HIDE DEF T
  <2> QED BY <1>2, LeastOf
<1>4. PICK i \in Mentions(q, a) : n = Len(q) - i
  BY <1>3
<1>5. ASSUME NEW j \in Mentions(q, a) PROVE j <= i
  <2>1. Len(q) - i <= Len(q) - j
    BY <1>1, <1>3, <1>4
  <2> QED BY <1>1, <2>1
<1> QED BY <1>5

\* A frame at the end of a queue has the last word.
LEMMA SeenAppend ==
  ASSUME NEW q \in Seq(Frame), NEW f \in Frame, NEW a, NEW v
  PROVE  Seen(Append(q, f), a, v) = IF About(f, a) THEN Said(f, a) ELSE Seen(q, a, v)
<1> DEFINE qq == Append(q, f)
<1>1. /\ Len(q) \in Nat /\ Len(qq) = Len(q) + 1 /\ Len(qq) \in Nat
      /\ qq[Len(q) + 1] = f /\ \A i \in 1 .. Len(q) : qq[i] = q[i]
  OBVIOUS
<1> HIDE DEF qq
<1>2. CASE About(f, a)
  <2>1. Len(q) + 1 \in Mentions(qq, a) /\ \A j \in Mentions(qq, a) : j <= Len(q) + 1
    BY <1>1, <1>2 DEF Mentions
  <2>2. Seen(qq, a, v) = Said(qq[Len(q) + 1], a)
    BY <1>1, <2>1, SeenLast
  <2> QED BY <1>1, <1>2, <2>2 DEF qq
<1>3. CASE ~About(f, a)
  <2>1. Mentions(qq, a) = Mentions(q, a)
    BY <1>1, <1>3 DEF Mentions
  <2>2. CASE Mentions(q, a) = {}
    BY <1>3, <2>1, <2>2, SeenNone DEF qq
  <2>3. CASE Mentions(q, a) # {}
    <3>1. PICK i \in Mentions(q, a) : \A j \in Mentions(q, a) : j <= i
      BY <1>1, <2>3, LastExists
    <3>2. Seen(q, a, v) = Said(q[i], a) /\ Seen(qq, a, v) = Said(qq[i], a)
      BY <1>1, <2>1, <3>1, SeenLast
    <3>3. qq[i] = q[i]
      BY <1>1, <3>1 DEF Mentions
    <3> QED BY <1>3, <3>2, <3>3 DEF qq
  <2> QED BY <2>2, <2>3
<1> QED BY <1>2, <1>3

\* The frame at the head of a queue may as well have been applied before.
LEMMA SeenTail ==
  ASSUME NEW q \in Seq(Frame), q # <<>>, NEW a, NEW v
  PROVE  Seen(q, a, v) =
           Seen(Tail(q), a, IF About(Head(q), a) THEN Said(Head(q), a) ELSE v)
<1> DEFINE qq == Tail(q)
           w == IF About(Head(q), a) THEN Said(Head(q), a) ELSE v
<1>1. /\ Len(q) \in Nat /\ Len(qq) = Len(q) - 1 /\ Len(qq) \in Nat
      /\ 1 \in 1 .. Len(q) /\ Head(q) = q[1]
      /\ \A i \in 1 .. Len(qq) : qq[i] = q[i + 1]
  OBVIOUS
<1>2. w = IF About(q[1], a) THEN Said(q[1], a) ELSE v
  BY <1>1
<1> HIDE DEF qq, w
<1>3. ASSUME NEW i PROVE i \in Mentions(qq, a) <=> i + 1 \in Mentions(q, a) /\ i \in 1 .. Len(qq)
  BY <1>1 DEF Mentions
<1>4. ASSUME NEW j \in Mentions(q, a), j # 1
      PROVE  j - 1 \in Mentions(qq, a)
  <2>1. j - 1 \in 1 .. Len(qq) /\ (j - 1) + 1 = j
    BY <1>1, <1>4 DEF Mentions
  <2> QED BY <1>3, <2>1
<1>5. CASE Mentions(qq, a) = {}
  <2>1. \A j \in Mentions(q, a) : j = 1
    BY <1>4, <1>5
  <2>2. Seen(qq, a, w) = w
    BY <1>5, SeenNone
  <2>3. CASE About(q[1], a)
    <3>1. 1 \in Mentions(q, a) /\ \A j \in Mentions(q, a) : j <= 1
      BY <1>1, <2>1, <2>3 DEF Mentions
    <3>2. Seen(q, a, v) = Said(q[1], a)
      BY <1>1, <3>1, SeenLast
    <3> QED BY <1>2, <2>2, <2>3, <3>2 DEF qq, w
  <2>4. CASE ~About(q[1], a)
    <3>1. Mentions(q, a) = {}
      BY <2>1, <2>4 DEF Mentions
    <3> QED BY <1>2, <2>2, <2>4, <3>1, SeenNone DEF qq, w
  <2> QED BY <2>3, <2>4
<1>6. CASE Mentions(qq, a) # {}
  <2>1. PICK i \in Mentions(qq, a) : \A j \in Mentions(qq, a) : j <= i
    BY <1>1, <1>6, LastExists
  <2>2. i \in 1 .. Len(qq) /\ i + 1 \in Mentions(q, a)
    BY <1>3, <2>1
  <2>3. ASSUME NEW j \in Mentions(q, a) PROVE j <= i + 1
    <3>1. CASE j = 1
      BY <1>1, <2>2, <3>1
    <3>2. CASE j # 1
      <4>1. j - 1 <= i /\ j \in Nat
        BY <1>4, <2>1, <3>2 DEF Mentions
      <4> QED BY <1>1, <2>2, <4>1
    <3> QED BY <3>1, <3>2
  <2>4. Seen(q, a, v) = Said(q[i + 1], a) /\ Seen(qq, a, w) = Said(qq[i], a)
    BY <1>1, <2>1, <2>2, <2>3, SeenLast
  <2> QED BY <1>1, <2>2, <2>4 DEF qq, w
<1> QED BY <1>5, <1>6

\* The updates in a subscriber's channel as the frames they will be.
Told(u) == [event |-> "agent_update", update |-> u]

Pending(ch) == [i \in 1 .. Len(ch) |-> Told(ch[i])]

LEMMA PendingShape ==
  ASSUME NEW ch \in Seq(Update)
  PROVE  /\ Pending(ch) \in Seq(Frame)
         /\ \A u \in Update : /\ Told(u) \in Frame /\ Told(u) \in UpdateFrame
                              /\ Pending(Append(ch, u)) = Append(Pending(ch), Told(u))
         /\ ch # <<>> => /\ Head(ch) \in Update
                         /\ Tail(ch) \in Seq(Update)
                         /\ Pending(ch) # <<>>
                         /\ Head(Pending(ch)) = Told(Head(ch))
                         /\ Tail(Pending(ch)) = Pending(Tail(ch))
<1>1. \A u \in Update : Told(u) \in Frame /\ Told(u) \in UpdateFrame
  BY DEF Told, Frame, UpdateFrame
<1>2. /\ Len(ch) \in Nat /\ \A i \in 1 .. Len(ch) : ch[i] \in Update
  OBVIOUS
<1>3. Pending(ch) \in Seq(Frame) /\ Len(Pending(ch)) = Len(ch)
  BY <1>1, <1>2 DEF Pending
<1>4. ASSUME NEW u \in Update
      PROVE  Pending(Append(ch, u)) = Append(Pending(ch), Told(u))
  <2> DEFINE l == Append(ch, u)
             p == Append(Pending(ch), Told(u))
  <2>1. /\ l \in Seq(Update) /\ Len(l) = Len(ch) + 1 /\ l[Len(ch) + 1] = u
        /\ \A i \in 1 .. Len(ch) : l[i] = ch[i]
    OBVIOUS
  <2>2. /\ p \in Seq(Frame) /\ Len(p) = Len(ch) + 1 /\ p[Len(ch) + 1] = Told(u)
        /\ \A i \in 1 .. Len(ch) : p[i] = Pending(ch)[i]
    BY <1>1, <1>2, <1>3
  <2> HIDE DEF l, p
  <2>3. Pending(l) \in Seq(Frame) /\ Len(Pending(l)) = Len(l)
    <3>1. \A i \in 1 .. Len(l) : Told(l[i]) \in Frame
      BY <1>1, <2>1
    <3> QED BY <1>2, <2>1, <3>1 DEF Pending
  <2>4. ASSUME NEW i \in 1 .. Len(ch) + 1 PROVE Pending(l)[i] = p[i]
    <3>1. Pending(l)[i] = Told(l[i])
      BY <2>1 DEF Pending
    <3>2. CASE i = Len(ch) + 1
      BY <2>1, <2>2, <3>1, <3>2
    <3>3. CASE i # Len(ch) + 1
      <4>1. i \in 1 .. Len(ch) /\ Pending(ch)[i] = Told(ch[i])
        BY <1>2, <3>3 DEF Pending
      <4> QED BY <2>1, <2>2, <3>1, <4>1
    <3> QED BY <3>2, <3>3
  <2>5. Pending(l) = p
    BY <2>1, <2>2, <2>3, <2>4, SeqEqual
  <2> QED BY <2>5 DEF l, p
<1>5. ASSUME ch # <<>>
      PROVE  /\ Head(ch) \in Update
             /\ Tail(ch) \in Seq(Update)
             /\ Pending(ch) # <<>>
             /\ Head(Pending(ch)) = Told(Head(ch))
             /\ Tail(Pending(ch)) = Pending(Tail(ch))
  <2> DEFINE t == Tail(ch)
  <2>1. /\ Head(ch) = ch[1] /\ 1 \in 1 .. Len(ch) /\ Len(t) = Len(ch) - 1
        /\ t \in Seq(Update) /\ \A i \in 1 .. Len(t) : t[i] = ch[i + 1]
    BY <1>5
  <2> HIDE DEF t
  <2>2. Pending(ch) # <<>> /\ Head(Pending(ch)) = Told(ch[1])
    <3>1. Pending(ch)[1] = Told(ch[1])
      BY <2>1 DEF Pending
    <3>2. Pending(ch) # <<>>
      BY <1>2, <1>3, <2>1
    <3> QED BY <1>3, <3>1, <3>2
  <2> DEFINE p == Tail(Pending(ch))
  <2>3. p \in Seq(Frame) /\ Len(p) = Len(ch) - 1
        /\ \A i \in 1 .. Len(ch) - 1 : p[i] = Pending(ch)[i + 1]
    BY <1>2, <1>3, <2>2
  <2> HIDE DEF p
  <2>4. Pending(t) \in Seq(Frame) /\ Len(Pending(t)) = Len(t)
    <3>1. \A i \in 1 .. Len(t) : Told(t[i]) \in Frame
      BY <1>1, <2>1
    <3> QED BY <1>2, <2>1, <3>1 DEF Pending
  <2>5. p = Pending(t)
    <3>1. ASSUME NEW i \in 1 .. Len(ch) - 1 PROVE Pending(t)[i] = p[i]
      <4>1. i \in 1 .. Len(t) /\ i + 1 \in 1 .. Len(ch)
        BY <1>2, <2>1
      <4> QED BY <2>1, <2>3, <4>1 DEF Pending
    <3> QED BY <2>1, <2>3, <2>4, <3>1, SeqEqual
  <2> QED BY <1>2, <2>1, <2>2, <2>5 DEF p, t
<1> QED BY <1>1, <1>3, <1>4, <1>5

-----------------------------------------------------------------------------
(* Types.                                                                   *)

LEMMA InitType == Init => TypeOK
<1> SUFFICES ASSUME Init PROVE TypeOK
  OBVIOUS
<1>1. agents \in Agents /\ view \in Agents
  BY DEF Init, NoAgents, Agents
<1>2. subs \in [SubId -> Subscriber]
  <2>1. NewSubscriber \in Subscriber
    BY DEF NewSubscriber, Subscriber
  <2> QED BY <2>1 DEF Init
<1>3. wire \in [SubId -> [sent : Seq(RosterFrame \cup UpdateFrame), open : BOOLEAN]]
  BY DEF Init
<1>4. count \in [input : 0 .. MaxInput, crash : 0 .. MaxCrash]
  BY BoundAssumption DEF Init
<1>5. frames \in Seq(Frame) /\ missed \in [SubId -> SUBSET AgentId]
  BY DEF Init
<1> QED BY <1>1, <1>2, <1>3, <1>4, <1>5 DEF Init, TypeOK

\* One subscriber and one connection, with their fields.
LEMMA SessionType ==
  ASSUME TypeOK, NEW k \in SubId
  PROVE  /\ subs[k] \in Subscriber /\ subs[k].ch \in Seq(Update)
         /\ subs[k].member \in BOOLEAN /\ subs[k].open \in BOOLEAN
         /\ subs[k].flag \in BOOLEAN
         /\ wire[k] \in [sent : Seq(RosterFrame \cup UpdateFrame), open : BOOLEAN]
         /\ wire[k].sent \in Seq(RosterFrame \cup UpdateFrame)
         /\ wire[k].sent \in Seq(Frame)
<1>1. subs[k] \in Subscriber
      /\ wire[k] \in [sent : Seq(RosterFrame \cup UpdateFrame), open : BOOLEAN]
  BY DEF TypeOK
<1>2. wire[k].sent \in Seq(RosterFrame \cup UpdateFrame)
  BY <1>1
<1>3. wire[k].sent \in Seq(Frame)
  BY <1>2 DEF Frame
<1> QED BY <1>1, <1>2, <1>3 DEF Subscriber

\* A write puts one frame at the end of the connection.
LEMMA WriteType ==
  ASSUME TypeOK, NEW k \in SubId, NEW f \in RosterFrame \cup UpdateFrame, Write(k, f)
  PROVE  /\ wire' \in [SubId -> [sent : Seq(RosterFrame \cup UpdateFrame), open : BOOLEAN]]
         /\ wire'[k].sent = Append(wire[k].sent, f) /\ wire'[k].open = wire[k].open
         /\ \A j \in SubId : j # k => wire'[j] = wire[j]
<1>1. wire \in [SubId -> [sent : Seq(RosterFrame \cup UpdateFrame), open : BOOLEAN]]
  BY DEF TypeOK
<1>2. Append(wire[k].sent, f) \in Seq(RosterFrame \cup UpdateFrame)
  BY SessionType
<1>3. wire' = [wire EXCEPT ![k] = [wire[k] EXCEPT !.sent = Append(wire[k].sent, f)]]
  BY DEF Write
<1>4. [wire[k] EXCEPT !.sent = Append(wire[k].sent, f)]
        \in [sent : Seq(RosterFrame \cup UpdateFrame), open : BOOLEAN]
  BY <1>2, SessionType
<1>5. wire'[k] = [wire[k] EXCEPT !.sent = Append(wire[k].sent, f)]
      /\ \A j \in SubId : j # k => wire'[j] = wire[j]
  BY <1>1, <1>3
<1>6. wire'[k].sent = Append(wire[k].sent, f) /\ wire'[k].open = wire[k].open
  BY <1>5, SessionType
<1>7. wire' \in [SubId -> [sent : Seq(RosterFrame \cup UpdateFrame), open : BOOLEAN]]
  BY <1>1, <1>3, <1>4
<1> QED BY <1>5, <1>6, <1>7

LEMMA SendType ==
  ASSUME TypeOK, NEW f \in Frame, Send(f)
  PROVE  frames' \in Seq(Frame) /\ frames' = Append(frames, f)
<1>1. frames \in Seq(Frame)
  BY DEF TypeOK
<1> QED BY <1>1 DEF Send

\* The mutation of a roster and the updates it broadcasts.
LEMMA MutateType ==
  ASSUME TypeOK, NEW m \in Input, Mutate(m)
  PROVE  /\ m \in Mutation /\ m.id \in AgentId /\ agents' = Apply(agents, m)
         /\ agents' \in Agents
         /\ UpdateOf(agents', m.id) \in Update
         /\ subs' \in [SubId -> Subscriber]
<1>1. m \in Mutation /\ m.id \in AgentId
  BY InputAssumption DEF Mutation
<1>2. agents' = Apply(agents, m) /\ agents \in Agents /\ subs \in [SubId -> Subscriber]
  BY DEF Mutate, TypeOK
<1>3. agents' \in Agents
  BY <1>1, <1>2, ApplyType
<1>4. UpdateOf(agents', m.id) \in Update
  BY <1>1, <1>3 DEF UpdateOf, Update, Agents
<1>5. subs' \in [SubId -> Subscriber]
  <2>1. CASE Silent(agents, m)
    BY <1>2, <2>1 DEF Mutate
  <2>2. CASE ~Silent(agents, m)
    <3>1. subs' = Broadcast(subs, UpdateOf(agents', m.id))
      BY <2>2 DEF Mutate
    <3> QED BY <1>2, <1>4, <3>1, SubscriberType DEF Broadcast
  <2> QED BY <2>1, <2>2
<1> QED BY <1>1, <1>2, <1>3, <1>4, <1>5

LEMMA TypeStep == TypeOK /\ [Next]_vars => TypeOK'
<1> SUFFICES ASSUME TypeOK, [Next]_vars PROVE TypeOK'
  OBVIOUS
<1>1. ASSUME NEW m \in Input, Mutate(m) PROVE TypeOK'
  <2>1. count' \in [input : 0 .. MaxInput, crash : 0 .. MaxCrash]
    <3>1. count \in [input : 0 .. MaxInput, crash : 0 .. MaxCrash]
          /\ count.input + 1 \in 0 .. MaxInput
      BY <1>1, BoundAssumption DEF Mutate, TypeOK
    <3> QED BY <1>1, <3>1 DEF Mutate
  <2>2. missed' \in [SubId -> SUBSET AgentId]
    <3>1. CASE Silent(agents, m)
      BY <1>1, <3>1 DEF Mutate, TypeOK
    <3>2. CASE ~Silent(agents, m)
      <4> DEFINE Next1(k) == CASE handler[k] = "subscribe" -> missed[k] \cup {m.id}
                               [] handler[k] = "forward"   -> missed[k] \ {m.id}
                               [] OTHER                    -> missed[k]
      <4>1. missed' = [k \in SubId |-> Next1(k)]
        BY <1>1, <3>2 DEF Mutate
      <4>2. ASSUME NEW k \in SubId PROVE Next1(k) \in SUBSET AgentId
        <5>1. missed[k] \in SUBSET AgentId /\ m.id \in AgentId
          BY <1>1, MutateType DEF TypeOK
        <5> QED BY <5>1
      <4> HIDE DEF Next1
      <4> QED BY <4>1, <4>2
    <3> QED BY <3>1, <3>2
  <2> QED BY <1>1, <2>1, <2>2, MutateType DEF Mutate, TypeOK, sidebar
<1>2. CASE Crash
  <2>1. count' \in [input : 0 .. MaxInput, crash : 0 .. MaxCrash]
    <3>1. count \in [input : 0 .. MaxInput, crash : 0 .. MaxCrash]
          /\ count.crash + 1 \in 0 .. MaxCrash
      BY <1>2, BoundAssumption DEF Crash, TypeOK
    <3> QED BY <1>2, <3>1 DEF Crash
  <2>2. agents' \in Agents
    BY <1>2 DEF Crash, NoAgents, Agents
  <2>3. subs' \in [SubId -> Subscriber]
    <3>1. NewSubscriber \in Subscriber
      BY DEF NewSubscriber, Subscriber
    <3> QED BY <1>2, <3>1 DEF Crash
  <2>4. wire' \in [SubId -> [sent : Seq(RosterFrame \cup UpdateFrame), open : BOOLEAN]]
    <3>1. ASSUME NEW k \in SubId
          PROVE  [wire[k] EXCEPT !.open = FALSE]
                   \in [sent : Seq(RosterFrame \cup UpdateFrame), open : BOOLEAN]
      BY SessionType
    <3> QED BY <1>2, <3>1 DEF Crash
  <2>5. handler' \in [SubId -> {"unused", "snapshot", "subscribe", "forward", "done"}]
    BY <1>2 DEF Crash
  <2> QED BY <1>2, <2>1, <2>2, <2>3, <2>4, <2>5 DEF Crash, TypeOK, sidebar
<1>3. CASE Start
  BY <1>3 DEF Start, TypeOK, sidebar
<1>4. ASSUME NEW k \in SubId, WriteRoster(k) PROVE TypeOK'
  <2>1. [event |-> "roster", agents |-> agents] \in RosterFrame
    BY DEF TypeOK, RosterFrame
  <2>2. wire' \in [SubId -> [sent : Seq(RosterFrame \cup UpdateFrame), open : BOOLEAN]]
    BY <1>4, <2>1, WriteType DEF WriteRoster
  <2> QED BY <1>4, <2>2 DEF WriteRoster, TypeOK, sidebar
<1>5. ASSUME NEW k \in SubId, SubscribeFeed(k) PROVE TypeOK'
  <2>1. Subscribe(subs[k]) \in Subscriber
    BY SessionType, SubscriptionType
  <2> QED BY <1>5, <2>1 DEF SubscribeFeed, TypeOK, sidebar
<1>6. ASSUME NEW k \in SubId, Forward(k) PROVE TypeOK'
  <2>1. Told(Head(subs[k].ch)) \in UpdateFrame /\ Tail(subs[k].ch) \in Seq(Update)
    BY <1>6, SessionType, PendingShape DEF Forward
  <2>2. wire' \in [SubId -> [sent : Seq(RosterFrame \cup UpdateFrame), open : BOOLEAN]]
    BY <1>6, <2>1, WriteType DEF Forward, Told
  <2>3. subs' \in [SubId -> Subscriber]
    <3>1. [subs[k] EXCEPT !.ch = Tail(subs[k].ch)] \in Subscriber
      BY <2>1, SessionType DEF Subscriber
    <3> QED BY <1>6, <3>1 DEF Forward, TypeOK
  <2> QED BY <1>6, <2>2, <2>3 DEF Forward, TypeOK, sidebar
<1>7. ASSUME NEW k \in SubId, Finish(k) PROVE TypeOK'
  <2>1. Cancel(subs[k]) \in Subscriber
    BY SessionType, SubscriptionType
  <2>2. [wire[k] EXCEPT !.open = FALSE]
           \in [sent : Seq(RosterFrame \cup UpdateFrame), open : BOOLEAN]
    BY SessionType
  <2> QED BY <1>7, <2>1, <2>2 DEF Finish, TypeOK, sidebar
<1>8. CASE Dial
  <2>1. client.session + 1 \in SubId
    BY <1>8 DEF Dial
  <2>2. [event |-> "connect"] \in Frame
    BY DEF Frame
  <2>3. frames' \in Seq(Frame)
    BY <1>8, <2>2, SendType DEF Dial
  <2>4. [wire[client.session + 1] EXCEPT !.open = TRUE]
           \in [sent : Seq(RosterFrame \cup UpdateFrame), open : BOOLEAN]
    BY <2>1, SessionType
  <2> QED BY <1>8, <2>1, <2>3, <2>4 DEF Dial, TypeOK
<1>9. CASE Read
  <2> DEFINE k == client.session
  <2>1. k \in SubId
    BY <1>9 DEF Read, TypeOK
  <2>2. wire[k].sent \in Seq(RosterFrame \cup UpdateFrame) /\ wire[k].sent # <<>>
    BY <1>9, <2>1, SessionType DEF Read
  <2>3. Head(wire[k].sent) \in Frame /\ Tail(wire[k].sent) \in Seq(RosterFrame \cup UpdateFrame)
    BY <2>2 DEF Frame
  <2>4. frames' \in Seq(Frame)
    BY <1>9, <2>3, SendType DEF Read
  <2>5. [wire[k] EXCEPT !.sent = Tail(wire[k].sent)]
          \in [sent : Seq(RosterFrame \cup UpdateFrame), open : BOOLEAN]
    BY <2>1, <2>3, SessionType
  <2> QED BY <1>9, <2>1, <2>4, <2>5 DEF Read, TypeOK, daemon
<1>10. CASE EndSession
  <2>1. [event |-> "disconnect"] \in Frame
    BY DEF Frame
  <2>2. frames' \in Seq(Frame)
    BY <1>10, <2>1, SendType DEF EndSession
  <2> QED BY <1>10, <2>2 DEF EndSession, TypeOK, daemon
<1>11. CASE Quit
  BY <1>11 DEF Quit, TypeOK, daemon
<1>12. CASE UpdateView
  <2> DEFINE f == Head(frames)
  <2>1. f \in Frame /\ Tail(frames) \in Seq(Frame)
    BY <1>12 DEF UpdateView, TypeOK
  <2>2. view' \in Agents /\ shown' \in BOOLEAN
    <3>1. shown' \in BOOLEAN
      BY <1>12 DEF UpdateView, applyFrame, TypeOK
    <3> QED BY <1>12, <2>1, <3>1
        DEF UpdateView, applyFrame, TypeOK, Frame, RosterFrame, UpdateFrame, Update, Agents
  <2> QED BY <1>12, <2>1, <2>2 DEF UpdateView, TypeOK, daemon
<1>13. CASE UNCHANGED vars
  BY <1>13 DEF vars, TypeOK
<1> QED BY <1>1, <1>2, <1>3, <1>4, <1>5, <1>6, <1>7, <1>8, <1>9, <1>10, <1>11, <1>12,
           <1>13 DEF Next, handleSidebar

\* The roster, the queues, the client and the rows keep their types.
THEOREM Typing == Spec => []TypeOK
BY InitType, TypeStep, PTL DEF Spec

-----------------------------------------------------------------------------
(* The inductive invariant.                                                 *)

\* Before it is subscribed a session's subscriber is as it was made, after the
\* handler it is not a member; in between it is a member as long as its channel
\* is open.  A session that the client has not begun has no handler.
HandlerInv ==
  \A k \in SubId :
    /\ handler[k] \in {"unused", "snapshot", "subscribe"} => subs[k] = NewSubscriber
    /\ handler[k] = "done" => ~subs[k].member
    /\ handler[k] = "forward" => /\ subs[k].member <=> subs[k].open
                                 /\ subs[k].flag <=> ~subs[k].open
    /\ k > client.session => handler[k] = "unused"

\* What the row of agent a will hold when the client has read everything that
\* is in Frames, on the connection and in the channel of session k.
Pipeline(k, a) ==
  Seen(Pending(subs[k].ch), a, Seen(wire[k].sent, a, Seen(frames, a, view[a])))

\* Session k has a roster frame behind it and a feed that is not cut.
Fed(k) ==
  \/ handler[k] = "subscribe"
  \/ handler[k] = "forward" /\ subs[k].open

\* That is the agent in the roster, unless its last change was missed.
FollowInv ==
  \A k \in SubId : k = client.session /\ Fed(k) =>
    \A a \in AgentId \ missed[k] : Pipeline(k, a) = agents[a]

IInv == TypeOK /\ HandlerInv /\ FollowInv

LEMMA HandlerStep == TypeOK /\ HandlerInv /\ [Next]_vars => HandlerInv'
<1> SUFFICES ASSUME TypeOK, HandlerInv, [Next]_vars, NEW k \in SubId
             PROVE  /\ handler'[k] \in {"unused", "snapshot", "subscribe"} =>
                         subs'[k] = NewSubscriber
                    /\ handler'[k] = "done" => ~subs'[k].member
                    /\ handler'[k] = "forward" => /\ subs'[k].member <=> subs'[k].open
                                                  /\ subs'[k].flag <=> ~subs'[k].open
                    /\ k > client'.session => handler'[k] = "unused"
  BY DEF HandlerInv
<1> DEFINE Kept ==
      /\ handler'[k] \in {"unused", "snapshot", "subscribe"} => subs'[k] = NewSubscriber
      /\ handler'[k] = "done" => ~subs'[k].member
      /\ handler'[k] = "forward" => /\ subs'[k].member <=> subs'[k].open
                                    /\ subs'[k].flag <=> ~subs'[k].open
      /\ k > client'.session => handler'[k] = "unused"
<1> SUFFICES Kept
  OBVIOUS
<1>t. /\ subs \in [SubId -> Subscriber] /\ subs[k] \in Subscriber
      /\ handler \in [SubId -> {"unused", "snapshot", "subscribe", "forward", "done"}]
      /\ client \in [pc : {"dial", "read", "gone"}, session : {0} \cup SubId]
      /\ \A j \in SubId : j \in Int /\ j # 0
      /\ client.session \in Int
  <2>1. \A j \in SubId : j \in Int /\ j # 0
    <3> DEFINE n == Cardinality(SubId)
    <3>1. SubId = 1 .. n
      BY SessionAssumption
    <3> HIDE DEF n
    <3>2. \A j \in 1 .. n : j \in Int /\ j # 0
      OBVIOUS
    <3> QED BY <3>1, <3>2, Zenon
  <2> QED BY <2>1 DEF TypeOK
<1>i. /\ handler[k] \in {"unused", "snapshot", "subscribe"} => subs[k] = NewSubscriber
      /\ handler[k] = "done" => ~subs[k].member
      /\ handler[k] = "forward" => /\ subs[k].member <=> subs[k].open
                                   /\ subs[k].flag <=> ~subs[k].open
      /\ k > client.session => handler[k] = "unused"
  BY DEF HandlerInv
<1>0. ASSUME subs'[k] = subs[k], handler'[k] = handler[k], client'.session = client.session
      PROVE  Kept
  BY <1>0, <1>i
<1>1. ASSUME NEW m \in Input, Mutate(m) PROVE Kept
  <2>1. handler' = handler /\ client' = client
    BY <1>1 DEF Mutate, sidebar
  <2>2. CASE Silent(agents, m)
    BY <1>0, <1>1, <2>1, <2>2 DEF Mutate
  <2>3. CASE ~Silent(agents, m)
    <3> DEFINE u == UpdateOf(agents', m.id)
    <3>1. subs'[k] = Deliver(subs[k], u) /\ u \in Update
      BY <1>1, <1>t, <2>3, MutateType DEF Mutate, Broadcast
    <3> HIDE DEF u
    <3>2. subs[k].member => handler[k] = "forward" /\ subs[k].open /\ ~subs[k].flag
      BY <1>t, <1>i DEF NewSubscriber
    <3>3. CASE ~subs[k].member
      <4>1. subs'[k] = subs[k]
        BY <3>1, <3>3 DEF Deliver
      <4> QED BY <1>0, <2>1, <4>1
    <3>4. CASE subs[k].member
      <4>1. /\ subs'[k].member => subs'[k].open /\ ~subs'[k].flag
            /\ ~subs'[k].member => ~subs'[k].open /\ subs'[k].flag
        BY <1>t, <3>1, <3>2, <3>4, DeliverCases
      <4> QED BY <1>i, <2>1, <3>2, <3>4, <4>1
    <3> QED BY <3>3, <3>4
  <2> QED BY <2>2, <2>3
<1>2. CASE Crash
  <2>1. /\ subs'[k] = NewSubscriber /\ client' = client
        /\ handler'[k] = (IF handler[k] = "unused" THEN "unused" ELSE "done")
    BY <1>2 DEF Crash, sidebar
  <2> QED BY <1>i, <2>1 DEF NewSubscriber
<1>3. CASE Start
  BY <1>0, <1>3 DEF Start, sidebar
<1>4. ASSUME NEW j \in SubId, WriteRoster(j) PROVE Kept
  <2>1. subs' = subs /\ client' = client /\ handler[j] = "snapshot"
        /\ handler'[k] = (IF k = j THEN "subscribe" ELSE handler[k])
    BY <1>4, <1>t DEF WriteRoster, sidebar
  <2> QED BY <1>i, <2>1
<1>5. ASSUME NEW j \in SubId, SubscribeFeed(j) PROVE Kept
  <2>1. client' = client /\ handler[j] = "subscribe"
        /\ handler'[k] = (IF k = j THEN "forward" ELSE handler[k])
        /\ subs'[k] = (IF k = j THEN Subscribe(subs[k]) ELSE subs[k])
    BY <1>5, <1>t DEF SubscribeFeed, sidebar
  <2>2. CASE k = j
    <3>1. subs'[k] = [NewSubscriber EXCEPT !.member = TRUE]
      BY <1>i, <2>1, <2>2 DEF Subscribe
    <3>2. subs'[k].member /\ subs'[k].open /\ ~subs'[k].flag
      BY <3>1 DEF NewSubscriber
    <3> QED BY <1>i, <2>1, <2>2, <3>2
  <2>3. CASE k # j
    BY <1>0, <2>1, <2>3
  <2> QED BY <2>2, <2>3
<1>6. ASSUME NEW j \in SubId, Forward(j) PROVE Kept
  <2>1. client' = client /\ handler' = handler /\ handler[j] = "forward"
        /\ subs'[k] = (IF k = j THEN [subs[k] EXCEPT !.ch = Tail(subs[k].ch)] ELSE subs[k])
    BY <1>6, <1>t DEF Forward, sidebar
  <2>2. subs'[k].member = subs[k].member /\ subs'[k].open = subs[k].open
        /\ subs'[k].flag = subs[k].flag
    BY <1>t, <2>1 DEF Subscriber
  <2>3. CASE k = j
    BY <1>i, <2>1, <2>2, <2>3
  <2>4. CASE k # j
    BY <1>0, <2>1, <2>4
  <2> QED BY <2>3, <2>4
<1>7. ASSUME NEW j \in SubId, Finish(j) PROVE Kept
  <2>1. client' = client /\ handler[j] \in {"snapshot", "forward"}
        /\ handler'[k] = (IF k = j THEN "done" ELSE handler[k])
        /\ subs'[k] = (IF k = j THEN Cancel(subs[k]) ELSE subs[k])
    BY <1>7, <1>t DEF Finish, sidebar
  <2>2. CASE k = j
    <3>1. CASE handler[k] = "snapshot"
      <4>1. ~subs'[k].member
        BY <1>i, <2>1, <2>2, <3>1 DEF Cancel, NewSubscriber
      <4> QED BY <1>i, <2>1, <2>2, <3>1, <4>1
    <3>2. CASE handler[k] = "forward"
      <4>1. ~subs'[k].member
        BY <1>i, <1>t, <2>1, <2>2, <3>2, CloseCases
      <4> QED BY <1>i, <2>1, <2>2, <3>2, <4>1
    <3> QED BY <2>1, <2>2, <3>1, <3>2
  <2>3. CASE k # j
    BY <1>0, <2>1, <2>3
  <2> QED BY <2>2, <2>3
<1>8. CASE Dial
  <2>1. /\ client' = [pc |-> "read", session |-> client.session + 1]
        /\ subs' = subs /\ client.session + 1 \in SubId
        /\ handler'[k] = (IF k = client.session + 1 THEN "snapshot" ELSE handler[k])
    BY <1>8, <1>t DEF Dial
  <2>2. client'.session = client.session + 1
    BY <2>1
  <2>3. k = client.session + 1 => handler[k] = "unused"
    BY <1>i, <1>t
  <2>4. k > client'.session => k > client.session /\ k # client.session + 1
    BY <1>t, <2>2
  <2> QED BY <1>i, <2>1, <2>3, <2>4
<1>9. CASE Read \/ EndSession \/ Quit \/ UpdateView
  <2>1. subs' = subs /\ handler' = handler
    BY <1>9 DEF Read, EndSession, Quit, UpdateView, daemon
  <2>2. client'.session = client.session
    BY <1>9, <1>t DEF Read, EndSession, Quit, UpdateView
  <2> QED BY <1>0, <2>1, <2>2
<1>10. CASE UNCHANGED vars
  BY <1>0, <1>10 DEF vars
<1> QED BY <1>1, <1>2, <1>3, <1>4, <1>5, <1>6, <1>7, <1>8, <1>9, <1>10
        DEF Next, handleSidebar

\* Each stage hands on what it was told: no step changes what a row will hold,
\* unless the agent changes with it.
LEMMA FollowStep == IInv /\ TypeOK' /\ [Next]_vars => FollowInv'
<1> SUFFICES ASSUME IInv, TypeOK', [Next]_vars, NEW k \in SubId,
                    k = client'.session, Fed(k)', NEW a \in AgentId, a \notin missed'[k]
             PROVE  Pipeline(k, a)' = agents'[a]
  BY DEF FollowInv
<1> DEFINE Keeps == Pipeline(k, a)' = agents'[a]
<1> SUFFICES Keeps
  OBVIOUS
<1>t. /\ TypeOK /\ subs \in [SubId -> Subscriber] /\ subs[k] \in Subscriber
      /\ handler \in [SubId -> {"unused", "snapshot", "subscribe", "forward", "done"}]
      /\ wire \in [SubId -> [sent : Seq(RosterFrame \cup UpdateFrame), open : BOOLEAN]]
      /\ client \in [pc : {"dial", "read", "gone"}, session : {0} \cup SubId]
      /\ subs[k].ch \in Seq(Update) /\ Pending(subs[k].ch) \in Seq(Frame)
      /\ wire[k].sent \in Seq(Frame) /\ frames \in Seq(Frame)
      /\ agents \in Agents
  BY SessionType, PendingShape DEF IInv, TypeOK
<1>i. /\ handler[k] = "subscribe" => subs[k] = NewSubscriber
      /\ handler[k] = "forward" => /\ subs[k].member <=> subs[k].open
                                   /\ subs[k].flag <=> ~subs[k].open
      /\ k = client.session /\ Fed(k) /\ a \notin missed[k] => Pipeline(k, a) = agents[a]
  BY DEF IInv, HandlerInv, FollowInv
<1>0. ASSUME subs'[k] = subs[k], handler'[k] = handler[k], client'.session = client.session,
             wire'[k].sent = wire[k].sent, frames' = frames, view' = view,
             agents' = agents, missed' = missed
      PROVE  Keeps
  BY <1>0, <1>i DEF Pipeline, Fed
<1>1. ASSUME NEW m \in Input, Mutate(m) PROVE Keeps
  <2>1. /\ handler' = handler /\ client' = client /\ frames' = frames /\ view' = view
        /\ wire' = wire
    BY <1>1 DEF Mutate, sidebar
  <2>2. /\ m \in Mutation /\ m.id \in AgentId /\ agents' = Apply(agents, m)
    BY <1>1, <1>t, MutateType
  <2>3. CASE Silent(agents, m)
    <3>1. agents' = agents
      BY <1>t, <2>2, <2>3, SilentSame
    <3> QED BY <1>0, <1>1, <2>1, <2>3, <3>1 DEF Mutate
  <2>4. CASE ~Silent(agents, m)
    <3> DEFINE u == UpdateOf(agents', m.id)
    <3>1. subs'[k] = Deliver(subs[k], u) /\ u \in Update
      BY <1>1, <1>t, <2>4, MutateType DEF Mutate, Broadcast
    <3>2. u.id = m.id /\ u.agent = agents'[m.id]
      BY DEF UpdateOf
    <3> HIDE DEF u
    <3>3. missed' = [j \in SubId |->
                       CASE handler[j] = "subscribe" -> missed[j] \cup {m.id}
                         [] handler[j] = "forward"   -> missed[j] \ {m.id}
                         [] OTHER                    -> missed[j]]
      BY <1>1, <2>4 DEF Mutate
    <3>4. CASE handler[k] = "subscribe"
      <4>1. missed'[k] = missed[k] \cup {m.id}
        BY <3>3, <3>4
      <4>2. a # m.id /\ a \notin missed[k]
        BY <4>1
      <4>3. agents'[a] = agents[a]
        BY <1>t, <2>2, <4>2, ApplyFrame
      <4>4. subs'[k] = subs[k]
        BY <1>i, <3>1, <3>4 DEF Deliver, NewSubscriber
      <4>5. Pipeline(k, a)' = Pipeline(k, a)
        BY <2>1, <4>4 DEF Pipeline
      <4>6. Pipeline(k, a) = agents[a]
        BY <1>i, <2>1, <3>4, <4>2 DEF Fed
      <4> QED BY <4>3, <4>5, <4>6
    <3>5. CASE handler[k] = "forward" /\ subs'[k].open
      <4>1. missed'[k] = missed[k] \ {m.id}
        BY <3>3, <3>5
      <4>2. subs[k].member /\ subs[k].open /\ ~subs[k].flag
        <5>1. ASSUME ~subs[k].member PROVE FALSE
          <6>1. subs'[k] = subs[k]
            BY <3>1, <5>1 DEF Deliver
          <6> QED BY <1>i, <3>5, <5>1, <6>1
        <5> QED BY <1>i, <3>5, <5>1
      <4>3. subs'[k].ch = Append(subs[k].ch, u)
        <5>1. /\ subs'[k].member => subs'[k].ch = Append(subs[k].ch, u)
              /\ ~subs'[k].member => ~subs'[k].open
          BY <1>t, <3>1, <4>2, DeliverCases
        <5> QED BY <3>5, <5>1
      <4>4. Pending(subs'[k].ch) = Append(Pending(subs[k].ch), Told(u)) /\ Told(u) \in Frame
        BY <1>t, <3>1, <4>3, PendingShape
      <4> DEFINE v == Seen(wire[k].sent, a, Seen(frames, a, view[a]))
      <4>5. Pipeline(k, a)' = Seen(Append(Pending(subs[k].ch), Told(u)), a, v)
        BY <2>1, <4>4 DEF Pipeline
      <4>6. Pipeline(k, a) = Seen(Pending(subs[k].ch), a, v)
        BY DEF Pipeline
      <4> HIDE DEF v
      <4>7. Pipeline(k, a)' = IF About(Told(u), a) THEN Said(Told(u), a) ELSE Pipeline(k, a)
        BY <1>t, <4>4, <4>5, <4>6, SeenAppend
      <4>8. CASE a = m.id
        <5>1. About(Told(u), a) /\ Said(Told(u), a) = agents'[a]
          BY <3>2, <4>8 DEF About, Said, Told
        <5> QED BY <4>7, <5>1
      <4>9. CASE a # m.id
        <5>1. ~About(Told(u), a)
          BY <3>2, <4>9 DEF About, Told
        <5>2. a \notin missed[k]
          BY <4>1, <4>9
        <5>3. Pipeline(k, a) = agents[a]
          BY <1>i, <2>1, <3>5, <4>2, <5>2 DEF Fed
        <5>4. agents'[a] = agents[a]
          BY <1>t, <2>2, <4>9, ApplyFrame
        <5> QED BY <4>7, <5>1, <5>3, <5>4
      <4> QED BY <4>8, <4>9
    <3> QED BY <2>1, <3>4, <3>5 DEF Fed
  <2> QED BY <2>3, <2>4
<1>2. CASE Crash
  <2>1. handler'[k] \in {"unused", "done"}
    BY <1>2 DEF Crash
  <2> QED BY <2>1 DEF Fed
<1>3. CASE Start
  BY <1>0, <1>3 DEF Start, sidebar
<1>4. ASSUME NEW j \in SubId, WriteRoster(j) PROVE Keeps
  <2> DEFINE f == [event |-> "roster", agents |-> agents]
  <2>1. /\ subs' = subs /\ client' = client /\ handler[j] = "snapshot" /\ frames' = frames
        /\ view' = view /\ agents' = agents /\ missed' = missed
        /\ handler'[k] = (IF k = j THEN "subscribe" ELSE handler[k])
        /\ Write(j, f)
    BY <1>4, <1>t DEF WriteRoster, sidebar
  <2>2. f \in RosterFrame /\ f \in Frame /\ f \in RosterFrame \cup UpdateFrame
        /\ About(f, a) /\ Said(f, a) = agents[a]
    BY <1>t DEF RosterFrame, Frame, About, Said
  <2> HIDE DEF f
  <2>3. wire'[j].sent = Append(wire[j].sent, f) /\ \A i \in SubId : i # j => wire'[i] = wire[i]
    BY <1>t, <2>1, <2>2, WriteType
  <2>4. CASE k = j
    <3>1. subs'[k].ch = <<>>
      <4>1. handler'[k] = "subscribe"
        BY <2>1, <2>4
      <4>2. subs[k] = NewSubscriber
        BY <2>1, <2>4 DEF IInv, HandlerInv
      <4> QED BY <2>1, <4>2 DEF NewSubscriber
    <3>2. Mentions(Pending(<<>>), a) = {}
      BY DEF Mentions, Pending
    <3> DEFINE v == Seen(frames, a, view[a])
    <3>3. Pipeline(k, a)' = Seen(Pending(<<>>), a, Seen(Append(wire[k].sent, f), a, v))
      BY <2>1, <2>3, <2>4, <3>1 DEF Pipeline
    <3> HIDE DEF v
    <3>4. Pipeline(k, a)' = Seen(Append(wire[k].sent, f), a, v)
      BY <3>2, <3>3, SeenNone
    <3>5. Pipeline(k, a)' = agents[a]
      BY <1>t, <2>2, <3>4, SeenAppend
    <3> QED BY <2>1, <3>5
  <2>5. CASE k # j
    BY <1>0, <2>1, <2>3, <2>5
  <2> QED BY <2>4, <2>5
<1>5. ASSUME NEW j \in SubId, SubscribeFeed(j) PROVE Keeps
  <2>1. /\ client' = client /\ handler[j] = "subscribe" /\ frames' = frames
        /\ wire' = wire /\ view' = view /\ agents' = agents /\ missed' = missed
        /\ handler'[k] = (IF k = j THEN "forward" ELSE handler[k])
        /\ subs'[k] = (IF k = j THEN Subscribe(subs[k]) ELSE subs[k])
    BY <1>5, <1>t DEF SubscribeFeed, sidebar
  <2>2. CASE k = j
    <3>1. subs'[k].ch = subs[k].ch
      BY <1>t, <2>1, <2>2 DEF Subscribe, Subscriber
    <3>2. Pipeline(k, a)' = Pipeline(k, a)
      BY <2>1, <3>1 DEF Pipeline
    <3>3. Pipeline(k, a) = agents[a]
      BY <1>i, <2>1, <2>2 DEF Fed
    <3> QED BY <2>1, <3>2, <3>3
  <2>3. CASE k # j
    BY <1>0, <2>1, <2>3
  <2> QED BY <2>2, <2>3
<1>6. ASSUME NEW j \in SubId, Forward(j) PROVE Keeps
  <2> DEFINE f == Told(Head(subs[j].ch))
  <2>1. /\ client' = client /\ handler' = handler /\ handler[j] = "forward"
        /\ frames' = frames /\ view' = view /\ agents' = agents /\ missed' = missed
        /\ subs[j].ch # <<>> /\ Write(j, f)
        /\ subs'[k] = (IF k = j THEN [subs[k] EXCEPT !.ch = Tail(subs[k].ch)] ELSE subs[k])
    BY <1>6, <1>t DEF Forward, sidebar, Told
  <2>2. f \in UpdateFrame /\ f \in Frame /\ f \in RosterFrame \cup UpdateFrame
    BY <1>t, <2>1, SessionType, PendingShape
  <2> HIDE DEF f
  <2>3. wire'[j].sent = Append(wire[j].sent, f) /\ \A i \in SubId : i # j => wire'[i] = wire[i]
    BY <1>t, <2>1, <2>2, WriteType
  <2>4. CASE k = j
    <3>1. subs'[k].ch = Tail(subs[k].ch) /\ subs'[k].open = subs[k].open
      BY <1>t, <2>1, <2>4 DEF Subscriber
    <3> DEFINE p == Pending(subs[k].ch)
    <3>2. p \in Seq(Frame) /\ p # <<>> /\ Head(p) = f /\ Tail(p) = Pending(subs'[k].ch)
      BY <1>t, <2>1, <2>4, <3>1, PendingShape DEF f
    <3> DEFINE v == Seen(frames, a, view[a])
               w == Seen(wire[k].sent, a, v)
    <3>3. Pipeline(k, a) = Seen(p, a, w)
      BY DEF Pipeline
    <3>4. Pipeline(k, a)' = Seen(Tail(p), a, Seen(Append(wire[k].sent, f), a, v))
      BY <2>1, <2>3, <2>4, <3>2 DEF Pipeline
    <3>5. Seen(Append(wire[k].sent, f), a, v) = IF About(f, a) THEN Said(f, a) ELSE w
      BY <1>t, <2>2, SeenAppend
    <3> HIDE DEF p, v, w
    <3>6. Seen(p, a, w) = Seen(Tail(p), a, IF About(f, a) THEN Said(f, a) ELSE w)
      BY <3>2, SeenTail
    <3>7. Pipeline(k, a)' = Pipeline(k, a)
      BY <3>3, <3>4, <3>5, <3>6
    <3>8. Pipeline(k, a) = agents[a]
      BY <1>i, <2>1, <2>4, <3>1 DEF Fed
    <3> QED BY <2>1, <3>7, <3>8
  <2>5. CASE k # j
    BY <1>0, <2>1, <2>3, <2>5
  <2> QED BY <2>4, <2>5
<1>7. ASSUME NEW j \in SubId, Finish(j) PROVE Keeps
  <2>1. /\ client' = client /\ frames' = frames /\ view' = view /\ agents' = agents
        /\ missed' = missed
        /\ handler'[k] = (IF k = j THEN "done" ELSE handler[k])
        /\ k # j => subs'[k] = subs[k] /\ wire'[k] = wire[k]
    BY <1>7, <1>t DEF Finish, sidebar
  <2>2. k # j
    BY <2>1 DEF Fed
  <2> QED BY <1>0, <2>1, <2>2
<1>8. CASE Dial
  <2>1. /\ client' = [pc |-> "read", session |-> client.session + 1]
        /\ client.session + 1 \in SubId
        /\ handler' = [handler EXCEPT ![client.session + 1] = "snapshot"]
    BY <1>8 DEF Dial
  <2>2. handler'[k] = "snapshot"
    BY <1>t, <2>1
  <2> QED BY <2>2 DEF Fed
<1>9. CASE Read
  <2>1. /\ client' = client /\ k = client.session /\ view' = view
        /\ agents' = agents /\ missed' = missed /\ subs' = subs /\ handler' = handler
        /\ wire[k].sent # <<>> /\ Send(Head(wire[k].sent))
        /\ wire' = [wire EXCEPT ![k] = [wire[k] EXCEPT !.sent = Tail(wire[k].sent)]]
    BY <1>9 DEF Read, daemon
  <2> DEFINE q == wire[k].sent
             f == Head(q)
  <2>2. f \in Frame /\ q \in Seq(Frame) /\ q # <<>>
    BY <1>t, <2>1
  <2>3. wire'[k].sent = Tail(q)
    BY <1>t, <2>1, SessionType
  <2>4. frames' = Append(frames, f)
    BY <1>t, <2>1, <2>2, SendType
  <2> DEFINE p == Pending(subs[k].ch)
             v == Seen(frames, a, view[a])
  <2>5. Pipeline(k, a) = Seen(p, a, Seen(q, a, v))
    BY DEF Pipeline
  <2>6. Pipeline(k, a)' = Seen(p, a, Seen(Tail(q), a, Seen(Append(frames, f), a, view[a])))
    BY <2>1, <2>3, <2>4 DEF Pipeline
  <2>7. Seen(Append(frames, f), a, view[a]) = IF About(f, a) THEN Said(f, a) ELSE v
    BY <1>t, <2>2, SeenAppend
  <2> HIDE DEF p, v, q
  <2>8. Seen(q, a, v) = Seen(Tail(q), a, IF About(f, a) THEN Said(f, a) ELSE v)
    BY <2>2, SeenTail
  <2>9. Pipeline(k, a)' = Pipeline(k, a)
    BY <2>5, <2>6, <2>7, <2>8
  <2> QED BY <1>i, <2>1, <2>9 DEF Fed
<1>10. CASE EndSession
  <2> DEFINE f == [event |-> "disconnect"]
  <2>1. /\ client'.session = client.session /\ view' = view /\ wire' = wire
        /\ agents' = agents /\ missed' = missed /\ subs' = subs /\ handler' = handler
        /\ Send(f)
    BY <1>10, <1>t DEF EndSession, daemon
  <2>2. f \in Frame /\ ~About(f, a)
    BY DEF Frame, About
  <2> HIDE DEF f
  <2>3. frames' = Append(frames, f)
    BY <1>t, <2>1, <2>2, SendType
  <2>4. Seen(frames', a, view[a]) = Seen(frames, a, view[a])
    BY <1>t, <2>2, <2>3, SeenAppend
  <2>5. Pipeline(k, a)' = Pipeline(k, a)
    BY <2>1, <2>4 DEF Pipeline
  <2> QED BY <1>i, <2>1, <2>5 DEF Fed
<1>11. CASE Quit
  <2>1. client'.session = client.session
    BY <1>11, <1>t DEF Quit
  <2> QED BY <1>0, <1>11, <2>1 DEF Quit, daemon
<1>12. CASE UpdateView
  <2> DEFINE f == Head(frames)
  <2>1. /\ client' = client /\ wire' = wire
        /\ agents' = agents /\ missed' = missed /\ subs' = subs /\ handler' = handler
        /\ frames # <<>> /\ frames' = Tail(frames) /\ applyFrame(f)
    BY <1>12 DEF UpdateView, daemon
  <2>2. f \in Frame
    BY <1>t, <2>1
  <2>3. view'[a] = IF About(f, a) THEN Said(f, a) ELSE view[a]
    <3>1. view \in Agents
      BY <1>t DEF TypeOK
    <3> HIDE DEF f
    <3>2. CASE f.event = "roster"
      BY <2>1, <3>2 DEF applyFrame, About, Said
    <3>3. CASE f.event = "agent_update"
      <4>1. view' = [view EXCEPT ![f.update.id] = f.update.agent]
        BY <2>1, <3>3 DEF applyFrame
      <4>2. f.event # "roster"
        BY <3>3
      <4> QED BY <3>1, <3>3, <4>1, <4>2 DEF About, Said, Agents
    <3>4. CASE f.event \notin {"roster", "agent_update"}
      <4>1. view' = view
        BY <2>1, <3>4 DEF applyFrame
      <4> QED BY <3>4, <4>1 DEF About
    <3> QED BY <3>2, <3>3, <3>4
  <2>4. Seen(frames, a, view[a]) =
          Seen(Tail(frames), a, IF About(f, a) THEN Said(f, a) ELSE view[a])
    BY <1>t, <2>1, SeenTail
  <2>5. Seen(frames', a, view'[a]) = Seen(frames, a, view[a])
    BY <2>1, <2>3, <2>4
  <2>6. Pipeline(k, a)' = Pipeline(k, a)
    BY <2>1, <2>5 DEF Pipeline
  <2> QED BY <1>i, <2>1, <2>6 DEF Fed
<1>13. CASE UNCHANGED vars
  BY <1>0, <1>13 DEF vars
<1> QED BY <1>1, <1>2, <1>3, <1>4, <1>5, <1>6, <1>7, <1>8, <1>9, <1>10, <1>11, <1>12,
           <1>13 DEF Next, handleSidebar

LEMMA Initially == Init => IInv
<1> SUFFICES ASSUME Init PROVE IInv
  OBVIOUS
<1>1. HandlerInv
  BY DEF Init, HandlerInv
<1>2. FollowInv
  BY DEF Init, FollowInv, Fed
<1> QED BY <1>1, <1>2, InitType DEF IInv

\* When a connected sidebar has nothing on its way to it, its rows are the
\* roster's agents, but for those whose last change its session was not told:
\* whatever was queued, dropped on overflow, cut by a crash or reconnected.
THEOREM SidebarFollows == Spec => []ViewFollows
<1>1. IInv /\ [Next]_vars => IInv'
  BY TypeStep, HandlerStep, FollowStep DEF IInv
<1>2. IInv => ViewFollows
  <2> SUFFICES ASSUME IInv, Drained, NEW a \in AgentId \ missed[client.session]
               PROVE  view[a] = agents[a]
    BY DEF ViewFollows
  <2> DEFINE k == client.session
  <2>1. /\ k \in SubId /\ handler[k] = "forward" /\ subs[k].open /\ subs[k].ch = <<>>
        /\ wire[k].sent = <<>> /\ frames = <<>>
    BY DEF Drained, IInv, TypeOK
  <2>2. Pipeline(k, a) = agents[a]
    BY <2>1 DEF IInv, FollowInv, Fed
  <2>3. Mentions(<<>>, a) = {} /\ Mentions(Pending(<<>>), a) = {}
    BY DEF Mentions, Pending
  <2>4. Pipeline(k, a) = view[a]
    BY <2>1, <2>3, SeenNone DEF Pipeline
  <2> QED BY <2>2, <2>4
<1> QED BY <1>1, <1>2, Initially, PTL DEF Spec
=============================================================================
