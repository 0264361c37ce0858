---------------------------- MODULE RosterOpsProofs ----------------------------
(***************************************************************************)
(* Lemmas about the operations of the roster, for the proofs about every   *)
(* module that uses them.                                                  *)
(***************************************************************************)
EXTENDS RosterOps, TLAPS, WellFoundedInduction

\* A mutation keeps the map of agents well formed.
LEMMA ApplyType ==
  ASSUME NEW A \in Agents, NEW m \in Mutation
  PROVE  Apply(A, m) \in Agents
<1>1. ASSUME NEW a \in AgentState, NEW h \in Mutation,
             h.op \in {"hello", "identity"}
      PROVE  ApplyHelloIdentity(a, h) \in AgentState
  BY <1>1 DEF Mutation, AgentState, ApplyHelloIdentity
<1>2. ASSUME NEW st \in Vocabulary \cup {NoStatus}
      PROVE  NewAgent(st) \in AgentState
  BY <1>2 DEF NewAgent, AgentState
<1>3. m.id \in AgentId
  BY DEF Mutation
<1>4. ASSUME NEW st \in Vocabulary \cup {NoStatus}
      PROVE  Found(A, m.id, st) \in AgentState
  BY <1>2, <1>3, <1>4 DEF Found, Agents
<1>5. CASE m.op = "hello"
  <2>1. ApplyHelloIdentity(Found(A, m.id, "idle"), m) \in AgentState
    BY <1>1, <1>4, <1>5 DEF Vocabulary
  <2> QED BY <2>1, <1>3, <1>5 DEF Apply, UpsertFromHello, Agents
<1>6. CASE m.op = "identity"
  <2>1. A[m.id] # NoAgent => ApplyHelloIdentity(A[m.id], m) \in AgentState
    BY <1>1, <1>3, <1>6 DEF Agents
  <2> QED BY <2>1, <1>3, <1>6 DEF Apply, UpdateIdentityIfPresent, Agents
<1>7. CASE m.op = "status"
  <2>1. m.status \in Vocabulary /\ m.ts \in Nat
    BY <1>7 DEF Mutation
  <2>2. Found(A, m.id, NoStatus) \in AgentState
    BY <1>4
  <2>3. [Found(A, m.id, NoStatus) EXCEPT
           !.status = m.status,
           !.ended = IF m.status = "idle" THEN m.ts
                     ELSE Found(A, m.id, NoStatus).ended] \in AgentState
    BY <2>1, <2>2 DEF AgentState
  <2> QED BY <2>3, <1>3, <1>7 DEF Apply, ApplyStatus, Agents
<1>8. CASE m.op = "result"
  <2>1. m.text \in Text \cup {NoText}
    BY <1>8 DEF Mutation
  <2>2. Found(A, m.id, NoStatus) \in AgentState
    BY <1>4
  <2>3. [Found(A, m.id, NoStatus) EXCEPT !.result = m.text] \in AgentState
    BY <2>1, <2>2 DEF AgentState
  <2> QED BY <2>3, <1>3, <1>8 DEF Apply, ApplyResult, Agents
<1>9. CASE m.op = "remove"
  BY <1>3, <1>9 DEF Apply, Remove, Agents
<1> QED BY <1>5, <1>6, <1>7, <1>8, <1>9 DEF Mutation

\* A mutation changes the agent it names and no other one.
LEMMA ApplyFrame ==
  ASSUME NEW A \in Agents, NEW m \in Mutation, NEW a \in AgentId, a # m.id
  PROVE  Apply(A, m)[a] = A[a]
BY DEF Apply, UpsertFromHello, UpdateIdentityIfPresent, ApplyStatus,
       ApplyResult, Remove, Agents, Mutation

\* A mutation that is not broadcast has changed nothing.
LEMMA SilentSame ==
  ASSUME NEW A \in Agents, NEW m \in Mutation, Silent(A, m)
  PROVE  Apply(A, m) = A
<1>1. CASE m.op = "identity"
  BY <1>1 DEF Silent, Apply, UpdateIdentityIfPresent
<1>2. CASE m.op = "remove"
  BY <1>2 DEF Silent, Apply, Remove, Agents
<1> QED BY <1>1, <1>2 DEF Silent

\* What broadcast does to one subscriber whose flag and channel agree: it gets
\* the update, or loses its membership and has its channel closed.
LEMMA DeliverCases ==
  ASSUME NEW s \in Subscriber, NEW u \in Update, s.member => s.open /\ ~s.flag
  PROVE  /\ Deliver(s, u) \in Subscriber
         /\ ~s.member => Deliver(s, u) = s
         /\ s.member /\ Deliver(s, u).member =>
              /\ Deliver(s, u).open /\ ~Deliver(s, u).flag
              /\ Deliver(s, u).ch = Append(s.ch, u)
         /\ s.member /\ ~Deliver(s, u).member =>
              ~Deliver(s, u).open /\ Deliver(s, u).flag /\ Deliver(s, u).ch = s.ch
<1>1. CASE ~s.member
  BY <1>1 DEF Deliver
<1>2. CASE s.member /\ Len(s.ch) < SubBuf
  <2>1. Deliver(s, u) = [s EXCEPT !.ch = Append(s.ch, u)]
    BY <1>2 DEF Deliver
  <2>2. s.ch \in Seq(Update) /\ Append(s.ch, u) \in Seq(Update)
    BY DEF Subscriber
  <2> QED BY <1>2, <2>1, <2>2 DEF Subscriber
<1>3. CASE s.member /\ ~(Len(s.ch) < SubBuf)
  <2>1. Deliver(s, u) = [[s EXCEPT !.open = FALSE, !.flag = TRUE] EXCEPT !.member = FALSE]
    BY <1>3 DEF Deliver, CloseSub
  <2> QED BY <1>3, <2>1 DEF Subscriber
<1> QED BY <1>1, <1>2, <1>3

\* What subscribe, cancel and the end of the goroutine do to a subscriber leaves
\* it one.
LEMMA SubscriptionType ==
  ASSUME NEW s \in Subscriber
  PROVE  /\ Subscribe(s) \in Subscriber
         /\ Cancel(s) \in Subscriber
         /\ QuitSub(s) \in Subscriber
<1>1. Subscribe(s) \in Subscriber
  BY DEF Subscribe, Subscriber
<1>2. CloseSub(s) \in Subscriber
  BY DEF CloseSub, Subscriber
<1>3. QuitSub(s) \in Subscriber
  BY <1>2 DEF QuitSub
<1>4. Cancel(s) \in Subscriber
  <2>1. [s EXCEPT !.member = FALSE] \in Subscriber
    BY DEF Subscriber
  <2>2. CloseSub([s EXCEPT !.member = FALSE]) \in Subscriber
    BY <2>1 DEF CloseSub, Subscriber
  <2> QED BY <2>1, <2>2 DEF Cancel
<1> QED BY <1>1, <1>3, <1>4

\* So does a delivery.
LEMMA SubscriberType ==
  ASSUME NEW s \in Subscriber, NEW u \in Update
  PROVE  Deliver(s, u) \in Subscriber
<1>1. s.ch \in Seq(Update) /\ Append(s.ch, u) \in Seq(Update)
  BY DEF Subscriber
<1>2. [s EXCEPT !.member = FALSE] \in Subscriber /\ CloseSub(s) \in Subscriber
  BY DEF Subscriber, CloseSub
<1>3. [CloseSub(s) EXCEPT !.member = FALSE] \in Subscriber
  BY <1>2 DEF Subscriber
<1>4. [s EXCEPT !.ch = Append(s.ch, u)] \in Subscriber
  BY <1>1 DEF Subscriber
<1> QED BY <1>2, <1>3, <1>4 DEF Deliver

\* Cancel and the end of run leave a closed channel with its contents.
LEMMA CloseCases ==
  ASSUME NEW s \in Subscriber, s.flag <=> ~s.open, s.member <=> s.open
  PROVE  /\ ~Cancel(s).member /\ ~Cancel(s).open /\ Cancel(s).flag
         /\ Cancel(s).ch = s.ch
         /\ QuitSub(s).member = s.member /\ ~QuitSub(s).open /\ QuitSub(s).flag
         /\ QuitSub(s).ch = s.ch
BY DEF Cancel, QuitSub, CloseSub, Subscriber

\* What an appended sequence holds.
LEMMA AppendShape ==
  ASSUME NEW S, NEW q \in Seq(S), NEW e \in S, NEW qq, qq = Append(q, e)
  PROVE  /\ Len(q) \in Nat
         /\ DOMAIN q = 1 .. Len(q)
         /\ DOMAIN qq = 1 .. (Len(q) + 1)
         /\ qq[Len(q) + 1] = e
         /\ \A i \in 1 .. Len(q) : qq[i] = q[i]
  OBVIOUS

\* A nonempty set of natural numbers has a least one.
LEMMA LeastOf ==
  ASSUME NEW T \in SUBSET Nat, T # {}
  PROVE  \E n \in T : \A m \in T : n <= m
<1>1. IsWellFoundedOn(OpToRel(<, Nat), Nat)
  BY NatLessThanWellFounded
<1>2. PICK n \in T : \A m \in T : <<m, n>> \notin OpToRel(<, Nat)
  BY <1>1, WFMin
<1>3. ASSUME NEW m \in T PROVE n <= m
  <2>1. <<m, n>> \notin OpToRel(<, Nat)
    BY <1>2
  <2>2. ~(m < n)
    BY <2>1 DEF OpToRel
  <2> QED BY <2>2
<1> QED BY <1>3
=============================================================================
