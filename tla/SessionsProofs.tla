----------------------------- MODULE SessionsProofs -----------------------------
(***************************************************************************)
(* Proofs about AgentSessions, for every set of agents, panes and          *)
(* harnesses, and any number of connections and frames.                    *)
(***************************************************************************)
EXTENDS AgentSessions, RosterOpsProofs

-----------------------------------------------------------------------------
(* The inductive invariant.                                                *)

\* What is unread on a connection is something that the agent's harness sends
\* over connections of that kind.
SentInv ==
  \A c \in Conn : Used(c) =>
    \A i \in DOMAIN conn[c].sent :
      conn[c].sent[i] \in IF conn[c].oneshot THEN harness[conn[c].id].emit
                                             ELSE harness[conn[c].id].own

\* Of an agent whose harness waits for the daemon, and owns no connection, one
\* connection at most is not over, and its frame is the last that was emitted.
Awaiting(a) == harness[a].awaits /\ ~harness[a].owns

Unread(c, status) ==
  /\ conn[c].pc \in {"hello", "read"}
  /\ conn[c].sent # <<>>
  /\ conn[c].sent[1].event = "status"
  /\ conn[c].sent[1].status = status

OneAtATime(a) ==
  \A c \in Conn : Serves(c, a) =>
    /\ conn[c].oneshot
    /\ conn[c].pc # "done" =>
         /\ \A d \in Conn : Serves(d, a) /\ conn[d].pc # "done" => d = c
         /\ Len(conn[c].sent) <= 1
         /\ conn[c].sent # <<>> /\ conn[c].sent[1].event = "status" =>
              conn[c].sent[1].status = emitted[a].status

\* If the roster does not show its last status, this is still unread.
LastStatus(a) ==
  Listed(a) =>
    \/ agents[a].status \in {NoStatus, emitted[a].status}
    \/ \E c \in Conn : Serves(c, a) /\ Unread(c, emitted[a].status)

IInv == TypeOK /\ SentInv
AwaitInv == \A a \in AgentId : Awaiting(a) => OneAtATime(a) /\ LastStatus(a)
-----------------------------------------------------------------------------
(* What the operations of the roster do to the agent they name.            *)

LEMMA NewAgentType ==
  ASSUME NEW st \in Vocabulary \cup {NoStatus}
  PROVE  /\ NewAgent(st) \in AgentState
         /\ NewAgent(st).pane = NoPane /\ NewAgent(st).status = st
BY DEF NewAgent, AgentState

LEMMA HelloEffect ==
  ASSUME NEW A \in Agents, NEW h, h.id \in AgentId, h.pane \in Pane \cup {NoPane}
  PROVE  /\ UpsertFromHello(A, h) \in Agents
         /\ UpsertFromHello(A, h)[h.id] \in AgentState
         /\ h.pane # NoPane => UpsertFromHello(A, h)[h.id].pane = h.pane
         /\ UpdateIdentityIfPresent(A, h) \in Agents
         /\ A[h.id] = NoAgent => UpdateIdentityIfPresent(A, h) = A
         /\ A[h.id] # NoAgent =>
              /\ UpdateIdentityIfPresent(A, h)[h.id] \in AgentState
              /\ h.pane # NoPane => UpdateIdentityIfPresent(A, h)[h.id].pane = h.pane
              /\ UpdateIdentityIfPresent(A, h)[h.id].status = A[h.id].status
         /\ \A a \in AgentId \ {h.id} :
              /\ UpsertFromHello(A, h)[a] = A[a]
              /\ UpdateIdentityIfPresent(A, h)[a] = A[a]
<1>1. ASSUME NEW s \in AgentState
      PROVE  /\ ApplyHelloIdentity(s, h) \in AgentState
             /\ h.pane # NoPane => ApplyHelloIdentity(s, h).pane = h.pane
             /\ ApplyHelloIdentity(s, h).status = s.status
  BY <1>1 DEF ApplyHelloIdentity, AgentState
<1>2. Found(A, h.id, "idle") \in AgentState /\ (A[h.id] # NoAgent => A[h.id] \in AgentState)
  BY NewAgentType DEF Found, Agents, Vocabulary
<1>3. /\ ApplyHelloIdentity(Found(A, h.id, "idle"), h) \in AgentState
      /\ h.pane # NoPane => ApplyHelloIdentity(Found(A, h.id, "idle"), h).pane = h.pane
  BY <1>1, <1>2
<1>4. A[h.id] # NoAgent =>
        /\ ApplyHelloIdentity(A[h.id], h) \in AgentState
        /\ h.pane # NoPane => ApplyHelloIdentity(A[h.id], h).pane = h.pane
        /\ ApplyHelloIdentity(A[h.id], h).status = A[h.id].status
  BY <1>1, <1>2
<1> QED BY <1>3, <1>4 DEF UpsertFromHello, UpdateIdentityIfPresent, Agents

LEMMA StatusEffect ==
  ASSUME NEW A \in Agents, NEW st, st.id \in AgentId, st.status \in Vocabulary, st.ts \in Nat
  PROVE  /\ ApplyStatus(A, st) \in Agents
         /\ ApplyStatus(A, st)[st.id] \in AgentState
         /\ ApplyStatus(A, st)[st.id].status = st.status
         /\ A[st.id] # NoAgent => ApplyStatus(A, st)[st.id].pane = A[st.id].pane
         /\ \A a \in AgentId \ {st.id} : ApplyStatus(A, st)[a] = A[a]
<1> DEFINE f == Found(A, st.id, NoStatus)
<1> DEFINE g == [f EXCEPT !.status = st.status,
                          !.ended = IF st.status = "idle" THEN st.ts ELSE f.ended]
<1>1. f \in AgentState /\ (A[st.id] # NoAgent => f = A[st.id])
  BY NewAgentType DEF Found, Agents
<1> HIDE DEF f
<1>2. g \in AgentState /\ g.status = st.status /\ g.pane = f.pane
  BY <1>1 DEF AgentState
<1> HIDE DEF g
<1>3. ApplyStatus(A, st) = [A EXCEPT ![st.id] = g]
  BY DEF ApplyStatus, f, g
<1> QED BY <1>1, <1>2, <1>3 DEF Agents

LEMMA ResultEffect ==
  ASSUME NEW A \in Agents, NEW rs, rs.id \in AgentId, rs.text \in Text \cup {NoText}
  PROVE  /\ ApplyResult(A, rs) \in Agents
         /\ ApplyResult(A, rs)[rs.id] \in AgentState
         /\ A[rs.id] = NoAgent => ApplyResult(A, rs)[rs.id].status = NoStatus
         /\ A[rs.id] # NoAgent =>
              /\ ApplyResult(A, rs)[rs.id].pane = A[rs.id].pane
              /\ ApplyResult(A, rs)[rs.id].status = A[rs.id].status
         /\ \A a \in AgentId \ {rs.id} : ApplyResult(A, rs)[a] = A[a]
<1> DEFINE f == Found(A, rs.id, NoStatus)
<1> DEFINE g == [f EXCEPT !.result = rs.text]
<1>1. /\ f \in AgentState /\ (A[rs.id] # NoAgent => f = A[rs.id])
      /\ A[rs.id] = NoAgent => f.status = NoStatus
  BY NewAgentType DEF Found, Agents
<1> HIDE DEF f
<1>2. g \in AgentState /\ g.status = f.status /\ g.pane = f.pane
  BY <1>1 DEF AgentState
<1> HIDE DEF g
<1>3. ApplyResult(A, rs) = [A EXCEPT ![rs.id] = g]
  BY DEF ApplyResult, f, g
<1> QED BY <1>1, <1>2, <1>3 DEF Agents

LEMMA RemoveEffect ==
  ASSUME NEW A \in Agents, NEW a \in AgentId
  PROVE  /\ Remove(A, [id |-> a]) \in Agents
         /\ Remove(A, [id |-> a])[a] = NoAgent
         /\ \A b \in AgentId \ {a} : Remove(A, [id |-> a])[b] = A[b]
BY DEF Remove, Agents

-----------------------------------------------------------------------------
(* Connections.                                                            *)

\* A connection that is used is one.
LEMMA ConnType ==
  ASSUME TypeOK, NEW c \in Conn
  PROVE  /\ Used(c) <=> conn[c] \in Connection
         /\ Used(c) => /\ conn[c].id \in AgentId /\ conn[c].pane \in Pane \cup {NoPane}
                       /\ conn[c].oneshot \in BOOLEAN /\ conn[c].sent \in Seq(Frame)
                       /\ conn[c].pc \in {"hello", "read", "reapply", "done"}
<1>1. \A k \in Connection : k # Unused
  <2>1. DOMAIN Unused = {"id"}
    BY DEF Unused
  <2>2. \A k \in Connection : "pc" \in DOMAIN k
    BY DEF Connection
  <2> QED BY <2>1, <2>2
<1>2. conn[c] \in Connection \cup {Unused}
  BY DEF TypeOK
<1>3. Used(c) <=> conn[c] \in Connection
  BY <1>1, <1>2 DEF Used
<1>4. Used(c) => /\ conn[c].id \in AgentId /\ conn[c].pane \in Pane \cup {NoPane}
                 /\ conn[c].oneshot \in BOOLEAN /\ conn[c].sent \in Seq(Frame)
                 /\ conn[c].pc \in {"hello", "read", "reapply", "done"}
  BY <1>3 DEF Connection
<1> QED BY <1>3, <1>4

\* A step that writes connection c leaves the others alone.
LEMMA WriteConn ==
  ASSUME TypeOK, NEW c \in Conn, NEW k \in Connection, conn' = [conn EXCEPT ![c] = k]
  PROVE  /\ conn' \in [Conn -> Connection \cup {Unused}]
         /\ conn'[c] = k /\ Used(c)'
         /\ \A d \in Conn \ {c} : conn'[d] = conn[d]
<1>1. conn \in [Conn -> Connection \cup {Unused}]
  BY DEF TypeOK
<1>2. conn' \in [Conn -> Connection \cup {Unused}]
  BY <1>1
<1>3. conn'[c] = k
  BY <1>1
<1>4. \A d \in Conn \ {c} : conn'[d] = conn[d]
  BY <1>1
<1>5. k # Unused
  <2>1. DOMAIN Unused = {"id"}
    BY DEF Unused
  <2>2. "pc" \in DOMAIN k
    BY DEF Connection
  <2> QED BY <2>1, <2>2
<1> QED BY <1>2, <1>3, <1>4, <1>5 DEF Used

\* The handler of connection c goes on to its next step.
LEMMA GotoConn ==
  ASSUME TypeOK, NEW c \in Conn, Used(c),
         NEW pc \in {"hello", "read", "reapply", "done"}, Goto(c, pc)
  PROVE  /\ conn' \in [Conn -> Connection \cup {Unused}]
         /\ Used(c)'
         /\ conn'[c].id = conn[c].id /\ conn'[c].pane = conn[c].pane
         /\ conn'[c].oneshot = conn[c].oneshot /\ conn'[c].sent = conn[c].sent
         /\ conn'[c].pc = pc
         /\ \A d \in Conn \ {c} : conn'[d] = conn[d]
<1> DEFINE k == [conn[c] EXCEPT !.pc = pc]
<1>1. conn[c] \in Connection /\ conn' = [conn EXCEPT ![c] = k]
  BY ConnType DEF Goto, TypeOK
<1>2. /\ k \in Connection
      /\ k.id = conn[c].id /\ k.pane = conn[c].pane
      /\ k.oneshot = conn[c].oneshot /\ k.sent = conn[c].sent /\ k.pc = pc
  BY <1>1 DEF Connection
<1> HIDE DEF k
<1> QED BY <1>1, <1>2, WriteConn

\* It reads the frame at the head of what was sent.
LEMMA ReadConn ==
  ASSUME TypeOK, NEW c \in Conn, NEW event,
         NEW pc \in {"hello", "read", "reapply", "done"}, Reads(c, event, pc)
  PROVE  /\ conn' \in [Conn -> Connection \cup {Unused}]
         /\ Used(c) /\ Used(c)' /\ conn[c].pc = "read"
         /\ conn'[c].id = conn[c].id /\ conn'[c].pane = conn[c].pane
         /\ conn'[c].oneshot = conn[c].oneshot
         /\ conn'[c].pc = pc
         /\ conn[c].sent # <<>> /\ Head(conn[c].sent) = conn[c].sent[1]
         /\ 1 \in DOMAIN conn[c].sent
         /\ conn[c].sent[1] \in Frame /\ conn[c].sent[1].event = event
         /\ Len(conn'[c].sent) = Len(conn[c].sent) - 1
         /\ \A i \in DOMAIN conn'[c].sent :
              i + 1 \in DOMAIN conn[c].sent /\ conn'[c].sent[i] = conn[c].sent[i + 1]
         /\ \A d \in Conn \ {c} : conn'[d] = conn[d]
<1> DEFINE q == conn[c].sent
<1> DEFINE k == [conn[c] EXCEPT !.sent = Tail(q), !.pc = pc]
<1>1. /\ Used(c) /\ conn[c].pc = "read" /\ q # <<>> /\ Head(q).event = event
      /\ conn[c] \in Connection /\ conn' = [conn EXCEPT ![c] = k] /\ q \in Seq(Frame)
  BY ConnType DEF Reads, At, TypeOK
<1>2. /\ Tail(q) \in Seq(Frame) /\ Head(q) = q[1] /\ q[1] \in Frame /\ 1 \in DOMAIN q
      /\ Len(Tail(q)) = Len(q) - 1
      /\ \A i \in DOMAIN Tail(q) : i + 1 \in DOMAIN q /\ Tail(q)[i] = q[i + 1]
  BY <1>1
<1>3. /\ k \in Connection
      /\ k.id = conn[c].id /\ k.pane = conn[c].pane
      /\ k.oneshot = conn[c].oneshot /\ k.sent = Tail(q) /\ k.pc = pc
  BY <1>1, <1>2 DEF Connection
<1> HIDE DEF k
<1>4. /\ conn' \in [Conn -> Connection \cup {Unused}]
      /\ conn'[c] = k /\ Used(c)'
      /\ \A d \in Conn \ {c} : conn'[d] = conn[d]
  BY <1>1, <1>3, WriteConn
<1> QED BY <1>1, <1>2, <1>3, <1>4

\* A new connection.
LEMMA OpenConn ==
  ASSUME TypeOK, NEW c \in Conn, NEW a \in AgentId, NEW pane \in Pane \cup {NoPane},
         NEW b \in BOOLEAN, NEW q \in Seq(Frame), Open(c, a, pane, b, q)
  PROVE  /\ conn' \in [Conn -> Connection \cup {Unused}]
         /\ ~Used(c) /\ Used(c)'
         /\ conn'[c] = [id |-> a, pane |-> pane, oneshot |-> b, sent |-> q,
                        closed |-> b, pc |-> "hello"]
         /\ \A d \in Conn \ {c} : conn'[d] = conn[d]
<1> DEFINE k == [id |-> a, pane |-> pane, oneshot |-> b, sent |-> q,
                 closed |-> b, pc |-> "hello"]
<1>1. k \in Connection
  BY DEF Connection
<1>2. conn' = [conn EXCEPT ![c] = k]
  BY DEF Open
<1>3. ~Used(c)
  BY DEF Open
<1> QED BY <1>1, <1>2, <1>3, WriteConn

\* One more frame is sent over a connection.
LEMMA SendConn ==
  ASSUME TypeOK, NEW c \in Conn, NEW f \in Frame, Used(c),
         conn' = [conn EXCEPT ![c].sent = Append(@, f)]
  PROVE  /\ conn' \in [Conn -> Connection \cup {Unused}]
         /\ Used(c)'
         /\ conn'[c].id = conn[c].id /\ conn'[c].pane = conn[c].pane
         /\ conn'[c].oneshot = conn[c].oneshot /\ conn'[c].pc = conn[c].pc
         /\ conn'[c].sent = Append(conn[c].sent, f)
         /\ \A d \in Conn \ {c} : conn'[d] = conn[d]
<1> DEFINE q == Append(conn[c].sent, f)
<1> DEFINE k == [conn[c] EXCEPT !.sent = q]
<1>1. conn[c] \in Connection /\ conn[c].sent \in Seq(Frame) /\ conn' = [conn EXCEPT ![c] = k]
  BY ConnType DEF TypeOK
<1>2. q \in Seq(Frame)
  BY <1>1
<1> HIDE DEF q
<1>3. /\ k \in Connection
      /\ k.id = conn[c].id /\ k.pane = conn[c].pane
      /\ k.oneshot = conn[c].oneshot /\ k.sent = q /\ k.pc = conn[c].pc
  BY <1>1, <1>2 DEF Connection
<1> HIDE DEF k
<1> QED BY <1>1, <1>3, WriteConn DEF q

\* Dropped connections, and those of a killed agent, are closed: nothing else
\* about them changes.
LEMMA CloseConn ==
  ASSUME TypeOK, (\E c \in Conn : Drop(c)) \/ (\E a \in AgentId : KillPane(a))
  PROVE  /\ conn' \in [Conn -> Connection \cup {Unused}]
         /\ \A d \in Conn :
              /\ Used(d)' <=> Used(d)
              /\ Used(d) =>
                   /\ conn'[d].id = conn[d].id /\ conn'[d].pane = conn[d].pane
                   /\ conn'[d].oneshot = conn[d].oneshot /\ conn'[d].sent = conn[d].sent
                   /\ conn'[d].pc = conn[d].pc
<1>0. conn \in [Conn -> Connection \cup {Unused}]
  BY DEF TypeOK
<1>1. ASSUME NEW d \in Conn, Used(d)
      PROVE  LET k == [conn[d] EXCEPT !.closed = TRUE]
             IN  /\ k \in Connection /\ k # Unused
                 /\ k.id = conn[d].id /\ k.pane = conn[d].pane
                 /\ k.oneshot = conn[d].oneshot /\ k.sent = conn[d].sent /\ k.pc = conn[d].pc
  <2> DEFINE k == [conn[d] EXCEPT !.closed = TRUE]
  <2>1. conn[d] \in Connection
    BY <1>1, ConnType
  <2>2. /\ k \in Connection
        /\ k.id = conn[d].id /\ k.pane = conn[d].pane
        /\ k.oneshot = conn[d].oneshot /\ k.sent = conn[d].sent /\ k.pc = conn[d].pc
    BY <2>1 DEF Connection
  <2>3. k # Unused
    <3>1. DOMAIN Unused = {"id"} /\ "pc" \in DOMAIN k
      BY <2>2 DEF Unused, Connection
    <3> QED BY <3>1
  <2> QED BY <2>2, <2>3
<1>2. ASSUME NEW d \in Conn
      PROVE  \/ conn'[d] = conn[d]
             \/ Used(d) /\ conn'[d] = [conn[d] EXCEPT !.closed = TRUE]
  BY <1>0 DEF Drop, KillPane, Serves
<1>3. conn' = [d \in Conn |-> conn'[d]]
  BY <1>0 DEF Drop, KillPane
<1>4. ASSUME NEW d \in Conn PROVE conn'[d] \in Connection \cup {Unused}
  BY <1>0, <1>1, <1>2
<1>5. conn' \in [Conn -> Connection \cup {Unused}]
  BY <1>3, <1>4
<1>6. ASSUME NEW d \in Conn
      PROVE  /\ Used(d)' <=> Used(d)
             /\ Used(d) =>
                  /\ conn'[d].id = conn[d].id /\ conn'[d].pane = conn[d].pane
                  /\ conn'[d].oneshot = conn[d].oneshot /\ conn'[d].sent = conn[d].sent
                  /\ conn'[d].pc = conn[d].pc
  <2>1. CASE conn'[d] = conn[d]
    BY <2>1 DEF Used
  <2>2. CASE Used(d) /\ conn'[d] = [conn[d] EXCEPT !.closed = TRUE]
    <3>1. conn'[d] # Unused
      BY <1>1, <2>2
    <3> QED BY <1>1, <2>2, <3>1 DEF Used
  <2> QED BY <1>2, <2>1, <2>2
<1> QED BY <1>5, <1>6
-----------------------------------------------------------------------------
(* The handler of a connection writes to this connection and to the record *)
(* of its agent.                                                           *)

\* What each kind of step of the handler does to the roster.
LEMMA HandlerOps ==
  ASSUME TypeOK, NEW c \in Conn, handle(c)
  PROVE  /\ agents' \in Agents
         /\ \A a \in AgentId \ {conn[c].id} : agents'[a] = agents[a]
<1>0. Used(c) /\ conn[c].id \in AgentId /\ conn[c].pane \in Pane \cup {NoPane}
      /\ agents \in Agents
  BY ConnType
  DEF handle, Hello, ReadStatus, ReadResult, Reapply, ReadBye, ReadOther, ReadMalformed,
      ReadEnd, Reads, At, TypeOK
<1>1. HelloOf(c).id = conn[c].id /\ HelloOf(c).pane = conn[c].pane
  BY DEF HelloOf
<1>2. CASE Hello(c) \/ Reapply(c)
  <2> DEFINE h == HelloOf(c)
  <2>1. \/ agents' = UpsertFromHello(agents, h)
        \/ agents' = UpdateIdentityIfPresent(agents, h)
    BY <1>2 DEF Hello, Reapply
  <2>2. h.id = conn[c].id /\ h.id \in AgentId /\ h.pane \in Pane \cup {NoPane}
    BY <1>0, <1>1
  <2> HIDE DEF h
  <2>3. /\ UpsertFromHello(agents, h) \in Agents
        /\ UpdateIdentityIfPresent(agents, h) \in Agents
        /\ \A a \in AgentId \ {h.id} :
             /\ UpsertFromHello(agents, h)[a] = agents[a]
             /\ UpdateIdentityIfPresent(agents, h)[a] = agents[a]
    BY <1>0, <2>2, HelloEffect
  <2> QED BY <2>1, <2>2, <2>3
<1>3. CASE ReadStatus(c)
  <2> DEFINE st == [id |-> conn[c].id, ts |-> 1, status |-> Head(conn[c].sent).status]
  <2>1. /\ conn[c].sent[1] \in Frame /\ conn[c].sent[1].event = "status"
        /\ Head(conn[c].sent) = conn[c].sent[1]
    BY <1>0, <1>3, ReadConn DEF ReadStatus, AfterFrame
  <2>2. conn[c].sent[1].status \in Vocabulary
    BY <2>1 DEF Frame
  <2>3. st.id = conn[c].id /\ st.status \in Vocabulary /\ st.ts \in Nat
    BY <2>1, <2>2
  <2>4. agents' = ApplyStatus(agents, st)
    BY <1>3 DEF ReadStatus
  <2> HIDE DEF st
  <2> QED BY <1>0, <2>3, <2>4, StatusEffect
<1>4. CASE ReadResult(c)
  <2> DEFINE rs == [id |-> conn[c].id, text |-> Head(conn[c].sent).text]
  <2>1. /\ conn[c].sent[1] \in Frame /\ conn[c].sent[1].event = "result"
        /\ Head(conn[c].sent) = conn[c].sent[1]
    BY <1>0, <1>4, ReadConn DEF ReadResult, AfterFrame
  <2>2. conn[c].sent[1].text \in Text \cup {NoText}
    BY <2>1 DEF Frame
  <2>3. rs.id = conn[c].id /\ rs.text \in Text \cup {NoText}
    BY <2>1, <2>2
  <2>4. agents' = ApplyResult(agents, rs)
    BY <1>4 DEF ReadResult
  <2> HIDE DEF rs
  <2> QED BY <1>0, <2>3, <2>4, ResultEffect
<1>5. CASE ReadBye(c) \/ ReadOther(c) \/ ReadMalformed(c) \/ ReadEnd(c)
  BY <1>0, <1>5, RemoveEffect DEF ReadBye, ReadOther, ReadMalformed, ReadEnd
<1> QED BY <1>2, <1>3, <1>4, <1>5 DEF handle

LEMMA HandlerConn ==
  ASSUME TypeOK, NEW c \in Conn, handle(c)
  PROVE  /\ conn' \in [Conn -> Connection \cup {Unused}]
         /\ Used(c) /\ Used(c)'
         /\ conn'[c].id = conn[c].id /\ conn'[c].pane = conn[c].pane
         /\ conn'[c].oneshot = conn[c].oneshot
         /\ Len(conn'[c].sent) <= Len(conn[c].sent)
         /\ \A i \in DOMAIN conn'[c].sent :
              \E j \in DOMAIN conn[c].sent : conn'[c].sent[i] = conn[c].sent[j]
         /\ \A d \in Conn \ {c} : conn'[d] = conn[d]
         /\ UNCHANGED <<harness, proc, emitted, live, bridge>>
<1>0. ASSUME Used(c) PROVE conn[c].sent \in Seq(Frame)
  BY <1>0, ConnType
<1>1. CASE Hello(c) \/ Reapply(c) \/ ReadEnd(c)
  <2>1. /\ Used(c) /\ UNCHANGED <<harness, proc, emitted, live, bridge>>
        /\ Goto(c, "read") \/ Goto(c, "done")
    BY <1>1 DEF Hello, Reapply, ReadEnd, At
  <2>2. conn[c].sent \in Seq(Frame) /\ Len(conn[c].sent) \in Nat
    BY <1>0, <2>1
  <2> QED BY <2>1, <2>2, GotoConn
<1>2. ASSUME NEW event, NEW pc \in {"hello", "read", "reapply", "done"}, Reads(c, event, pc)
      PROVE  /\ conn' \in [Conn -> Connection \cup {Unused}]
             /\ Used(c) /\ Used(c)'
             /\ conn'[c].id = conn[c].id /\ conn'[c].pane = conn[c].pane
             /\ conn'[c].oneshot = conn[c].oneshot
             /\ Len(conn'[c].sent) <= Len(conn[c].sent)
             /\ \A i \in DOMAIN conn'[c].sent :
                  \E j \in DOMAIN conn[c].sent : conn'[c].sent[i] = conn[c].sent[j]
             /\ \A d \in Conn \ {c} : conn'[d] = conn[d]
             /\ UNCHANGED <<harness, proc, emitted, live, bridge>>
  <2>1. UNCHANGED <<harness, proc, emitted, live, bridge>>
    BY <1>2 DEF Reads
  <2>2. Used(c) /\ conn[c].sent \in Seq(Frame) /\ Len(conn[c].sent) \in Nat
    BY <1>0, <1>2, ReadConn
  <2> QED BY <1>2, <2>1, <2>2, ReadConn
<1>3. AfterFrame(c) \in {"hello", "read", "reapply", "done"}
  BY DEF AfterFrame
<1> QED BY <1>1, <1>2, <1>3
        DEF handle, ReadStatus, ReadResult, ReadBye, ReadOther, ReadMalformed

LEMMA HandlerBegun ==
  ASSUME TypeOK, NEW c \in Conn, handle(c)
  PROVE  conn'[c].pc # "hello"
<1>1. CASE Hello(c) \/ Reapply(c) \/ ReadEnd(c)
  <2>1. Used(c) /\ (Goto(c, "read") \/ Goto(c, "done"))
    BY <1>1 DEF Hello, Reapply, ReadEnd, At
  <2> QED BY <2>1, GotoConn
<1>2. ASSUME NEW event, NEW pc \in {"read", "reapply", "done"}, Reads(c, event, pc)
      PROVE  conn'[c].pc # "hello"
  BY <1>2, ReadConn
<1>3. AfterFrame(c) \in {"read", "reapply", "done"}
  BY DEF AfterFrame
<1> QED BY <1>1, <1>2, <1>3
        DEF handle, ReadStatus, ReadResult, ReadBye, ReadOther, ReadMalformed

-----------------------------------------------------------------------------
(* Types, panes and what is sent.                                          *)

\* A hello names a pane or none.
LEMMA HelloPanes ==
  ASSUME TypeOK, NEW a \in AgentId
  PROVE  OwnPane(a) \in Pane \cup {NoPane} /\ emitPaneID(a) \subseteq Pane \cup {NoPane}
<1>1. /\ proc[a].pane \in Pane \cup {NoPane} /\ live \subseteq Pane
      /\ harness[a].env \in {"pane", "tmux", "bare"}
  BY HarnessAssumption DEF TypeOK
<1> QED BY <1>1 DEF OwnPane, emitPaneID

\* What the agent sends is counted, and its last status is remembered.
LEMMA SaysType ==
  ASSUME TypeOK, NEW a \in AgentId, NEW f \in Frame, Says(a, f)
  PROVE  /\ emitted' \in [AgentId -> [n : 0 .. MaxEmit, status : Vocabulary \cup {NoStatus}]]
         /\ emitted'[a].status = IF f.event = "status" THEN f.status ELSE emitted[a].status
         /\ \A b \in AgentId \ {a} : emitted'[b] = emitted[b]
<1> DEFINE e == [n |-> emitted[a].n + 1,
                 status |-> IF f.event = "status" THEN f.status ELSE emitted[a].status]
<1>1. /\ emitted \in [AgentId -> [n : 0 .. MaxEmit, status : Vocabulary \cup {NoStatus}]]
      /\ emitted[a].n < MaxEmit /\ emitted' = [emitted EXCEPT ![a] = e]
  BY DEF TypeOK, Says
<1>2. f.event = "status" => f.status \in Vocabulary
  BY DEF Frame
<1>3. e.n \in 0 .. MaxEmit
  BY <1>1, BoundsAssumption
<1>4. e.status \in Vocabulary \cup {NoStatus}
  BY <1>1, <1>2
<1>5. e \in [n : 0 .. MaxEmit, status : Vocabulary \cup {NoStatus}]
  BY <1>3, <1>4
<1>6. e.status = IF f.event = "status" THEN f.status ELSE emitted[a].status
  OBVIOUS
<1> HIDE DEF e
<1> QED BY <1>1, <1>5, <1>6

\* What the environment's steps are.
LEMMA Opens ==
  ASSUME TypeOK, NEW a \in AgentId, NEW c \in Conn,
         Connect(a, c) \/ \E f \in Frame : sendOneshot(a, c, f)
  PROVE  /\ conn' \in [Conn -> Connection \cup {Unused}]
         /\ ~Used(c) /\ Used(c)'
         /\ conn'[c].id = a /\ conn'[c].pc = "hello"
         /\ \A d \in Conn \ {c} : conn'[d] = conn[d]
         /\ UNCHANGED <<agents, harness, proc, live, bridge>>
         /\ \/ /\ ~conn'[c].oneshot /\ conn'[c].sent = <<>>
               /\ harness[a].owns /\ UNCHANGED emitted
            \/ \E f \in Frame :
                 /\ conn'[c].oneshot /\ conn'[c].sent = <<f>>
                 /\ f \in harness[a].emit /\ Says(a, f)
                 /\ harness[a].awaits => \A d \in Conn : Serves(d, a) => conn[d].pc = "done"
<1>1. CASE Connect(a, c)
  <2>0. OwnPane(a) \in Pane \cup {NoPane}
    BY HelloPanes
  <2>1. Open(c, a, OwnPane(a), FALSE, <<>>)
    BY <1>1, Zenon DEF Connect
  <2>2. /\ conn' \in [Conn -> Connection \cup {Unused}]
        /\ ~Used(c) /\ Used(c)'
        /\ conn'[c] = [id |-> a, pane |-> OwnPane(a), oneshot |-> FALSE, sent |-> <<>>,
                       closed |-> FALSE, pc |-> "hello"]
        /\ \A d \in Conn \ {c} : conn'[d] = conn[d]
    <3>1. <<>> \in Seq(Frame)
      OBVIOUS
    <3> QED BY <2>0, <2>1, <3>1, OpenConn, Zenon
  <2> QED BY <1>1, <2>0, <2>2 DEF Connect
<1>2. ASSUME NEW f \in Frame, sendOneshot(a, c, f)
      PROVE  /\ conn' \in [Conn -> Connection \cup {Unused}]
             /\ ~Used(c) /\ Used(c)'
             /\ conn'[c].id = a /\ conn'[c].pc = "hello"
             /\ \A d \in Conn \ {c} : conn'[d] = conn[d]
             /\ conn'[c].oneshot /\ conn'[c].sent = <<f>>
  <2>1. PICK p \in Pane \cup {NoPane} : Open(c, a, p, TRUE, <<f>>)
    BY <1>2, HelloPanes, Zenon DEF sendOneshot
  <2>2. /\ conn' \in [Conn -> Connection \cup {Unused}]
        /\ ~Used(c) /\ Used(c)'
        /\ conn'[c] = [id |-> a, pane |-> p, oneshot |-> TRUE, sent |-> <<f>>,
                       closed |-> TRUE, pc |-> "hello"]
        /\ \A d \in Conn \ {c} : conn'[d] = conn[d]
    <3>1. <<f>> \in Seq(Frame)
      OBVIOUS
    <3> QED BY <2>1, <3>1, OpenConn, Zenon
  <2> QED BY <2>2
<1> QED BY <1>1, <1>2 DEF sendOneshot

\* The bridge only takes agents out.
LEMMA Reconciles ==
  ASSUME TypeOK, reconcile
  PROVE  /\ agents' \in Agents
         /\ bridge' \in [pc : {"wait", "listed", "prune"}, live : SUBSET Pane,
                         doomed : SUBSET AgentId]
         /\ \A a \in AgentId : agents'[a] = agents[a] \/ agents'[a] = NoAgent
         /\ \A a \in AgentId : agents'[a] # agents[a] => a \in bridge.doomed
         /\ UNCHANGED <<harness, proc, emitted, live, conn>>
<1>0. agents \in Agents /\ live \in SUBSET Pane
      /\ bridge \in [pc : {"wait", "listed", "prune"}, live : SUBSET Pane,
                     doomed : SUBSET AgentId]
  BY DEF TypeOK
<1>1. CASE ListPanes \/ TakeSnapshot \/ EndTick
  <2>1. UNCHANGED <<agents, harness, proc, emitted, live, conn>>
    BY <1>1 DEF ListPanes, TakeSnapshot, EndTick
  <2>2. bridge' \in [pc : {"wait", "listed", "prune"}, live : SUBSET Pane,
                     doomed : SUBSET AgentId]
    <3>1. CASE ListPanes
      BY <1>0, <3>1 DEF ListPanes
    <3>2. CASE TakeSnapshot
      <4> DEFINE D == {a \in AgentId : /\ agents[a] # NoAgent
                                       /\ agents[a].pane # NoPane
                                       /\ agents[a].pane \notin bridge.live}
      <4>1. D \in SUBSET AgentId
        OBVIOUS
      <4>2. bridge' = [bridge EXCEPT !.pc = "prune", !.live = {}, !.doomed = D]
        BY <3>2 DEF TakeSnapshot
      <4> HIDE DEF D
      <4> QED BY <1>0, <4>1, <4>2
    <3>3. CASE EndTick
      BY <3>3 DEF EndTick
    <3> QED BY <1>1, <3>1, <3>2, <3>3
  <2> QED BY <1>0, <2>1, <2>2
<1>2. ASSUME NEW a \in AgentId, Prune(a)
      PROVE  /\ agents' \in Agents
             /\ bridge' \in [pc : {"wait", "listed", "prune"}, live : SUBSET Pane,
                             doomed : SUBSET AgentId]
             /\ \A b \in AgentId : agents'[b] = agents[b] \/ agents'[b] = NoAgent
             /\ \A b \in AgentId : agents'[b] # agents[b] => b \in bridge.doomed
             /\ UNCHANGED <<harness, proc, emitted, live, conn>>
  <2>1. /\ agents' = Remove(agents, [id |-> a]) /\ a \in bridge.doomed
        /\ bridge' = [bridge EXCEPT !.doomed = bridge.doomed \ {a}]
        /\ UNCHANGED <<harness, proc, emitted, live, conn>>
    BY <1>2 DEF Prune
  <2>2. bridge' \in [pc : {"wait", "listed", "prune"}, live : SUBSET Pane,
                     doomed : SUBSET AgentId]
    BY <1>0, <2>1
  <2> QED BY <1>0, <2>1, <2>2, RemoveEffect
<1> QED BY <1>1, <1>2 DEF reconcile

LEMMA BaseStep == IInv /\ [Next]_vars => IInv'
<1> SUFFICES ASSUME IInv, [Next]_vars PROVE IInv'
  OBVIOUS
<1>0. TypeOK /\ SentInv
  BY DEF IInv
<1>1. ASSUME NEW c \in Conn, handle(c) PROVE IInv'
  <2>1. /\ agents' \in Agents /\ conn' \in [Conn -> Connection \cup {Unused}]
        /\ UNCHANGED <<harness, proc, emitted, live, bridge>>
    BY <1>0, <1>1, HandlerOps, HandlerConn
  <2>2. TypeOK'
    BY <1>0, <2>1 DEF TypeOK
  <2>3. SentInv'
    <3> SUFFICES ASSUME NEW d \in Conn, Used(d)', NEW i \in DOMAIN conn'[d].sent
                 PROVE  conn'[d].sent[i] \in
                          IF conn'[d].oneshot THEN harness[conn'[d].id].emit
                                              ELSE harness[conn'[d].id].own
      BY <2>1 DEF SentInv
    <3>1. CASE d # c
      <4>1. conn'[d] = conn[d] /\ Used(d)
        BY <1>0, <1>1, <3>1, HandlerConn DEF Used
      <4> QED BY <1>0, <4>1 DEF SentInv
    <3>2. CASE d = c
      <4>1. /\ Used(c) /\ conn'[c].id = conn[c].id /\ conn'[c].oneshot = conn[c].oneshot
            /\ \E j \in DOMAIN conn[c].sent : conn'[c].sent[i] = conn[c].sent[j]
        BY <1>0, <1>1, <3>2, HandlerConn
      <4> QED BY <1>0, <3>2, <4>1 DEF SentInv
    <3> QED BY <3>1, <3>2
  <2> QED BY <2>2, <2>3 DEF IInv
<1>2. ASSUME NEW a \in AgentId, NEW c \in Conn,
             Connect(a, c) \/ \E f \in Frame : sendOneshot(a, c, f)
      PROVE  IInv'
  <2>1. /\ conn' \in [Conn -> Connection \cup {Unused}]
        /\ Used(c)' /\ conn'[c].id = a
        /\ \A d \in Conn \ {c} : conn'[d] = conn[d]
        /\ UNCHANGED <<agents, harness, proc, live, bridge>>
        /\ \/ /\ ~conn'[c].oneshot /\ conn'[c].sent = <<>>
              /\ UNCHANGED emitted
           \/ \E f \in Frame :
                /\ conn'[c].oneshot /\ conn'[c].sent = <<f>>
                /\ f \in harness[a].emit /\ Says(a, f)
    BY <1>0, <1>2, Opens
  <2>2. emitted' \in [AgentId -> [n : 0 .. MaxEmit, status : Vocabulary \cup {NoStatus}]]
    BY <1>0, <2>1, SaysType DEF TypeOK
  <2>3. TypeOK'
    BY <1>0, <2>1, <2>2 DEF TypeOK
  <2>4. SentInv'
    <3> SUFFICES ASSUME NEW d \in Conn, Used(d)', NEW i \in DOMAIN conn'[d].sent
                 PROVE  conn'[d].sent[i] \in
                          IF conn'[d].oneshot THEN harness[conn'[d].id].emit
                                              ELSE harness[conn'[d].id].own
      BY <2>1 DEF SentInv
    <3>1. CASE d # c
      <4>1. conn'[d] = conn[d] /\ Used(d)
        BY <2>1, <3>1 DEF Used
      <4> QED BY <1>0, <4>1 DEF SentInv
    <3>2. CASE d = c /\ conn'[c].sent = <<>>
      <4>1. DOMAIN <<>> = {}
        OBVIOUS
      <4> QED BY <3>2, <4>1
    <3>3. ASSUME d = c, NEW f \in Frame, conn'[c].oneshot, conn'[c].sent = <<f>>,
                 f \in harness[a].emit
          PROVE  conn'[d].sent[i] \in
                   IF conn'[d].oneshot THEN harness[conn'[d].id].emit
                                       ELSE harness[conn'[d].id].own
      <4>1. i = 1 /\ <<f>>[1] = f
        BY <3>3
      <4> QED BY <2>1, <3>3, <4>1
    <3> QED BY <2>1, <3>1, <3>2, <3>3
  <2> QED BY <2>3, <2>4 DEF IInv
<1>3. ASSUME NEW a \in AgentId, NEW p \in Pane, Spawn(a, p) PROVE IInv'
  <2>1. /\ proc' = [proc EXCEPT ![a] = [pane |-> p, runs |-> TRUE]]
        /\ live' = live \cup {p}
        /\ UNCHANGED <<agents, harness, emitted, conn, bridge>>
    BY <1>3 DEF Spawn
  <2>2. TypeOK'
    <3>1. [pane |-> p, runs |-> TRUE] \in [pane : Pane \cup {NoPane}, runs : BOOLEAN]
      OBVIOUS
    <3> QED BY <1>0, <2>1, <3>1 DEF TypeOK
  <2>3. SentInv'
    BY <1>0, <2>1 DEF SentInv, Used
  <2> QED BY <2>2, <2>3 DEF IInv
<1>4. ASSUME NEW c \in Conn, NEW f \in Frame, SendOwn(c, f) PROVE IInv'
  <2>0. /\ Used(c) /\ ~conn[c].oneshot /\ f \in harness[conn[c].id].own
        /\ Says(conn[c].id, f) /\ conn[c].id \in AgentId /\ conn[c].sent \in Seq(Frame)
        /\ UNCHANGED <<agents, harness, proc, live, bridge>>
    BY <1>0, <1>4, ConnType DEF SendOwn
  <2>1. /\ conn' \in [Conn -> Connection \cup {Unused}]
        /\ conn'[c].id = conn[c].id /\ conn'[c].pane = conn[c].pane
        /\ conn'[c].oneshot = conn[c].oneshot
        /\ conn'[c].sent = Append(conn[c].sent, f)
        /\ \A d \in Conn \ {c} : conn'[d] = conn[d]
    BY <1>0, <1>4, <2>0, SendConn DEF SendOwn
  <2>2. emitted' \in [AgentId -> [n : 0 .. MaxEmit, status : Vocabulary \cup {NoStatus}]]
    BY <1>0, <2>0, SaysType
  <2>3. TypeOK'
    BY <1>0, <2>0, <2>1, <2>2 DEF TypeOK
  <2>4. SentInv'
    <3> SUFFICES ASSUME NEW d \in Conn, Used(d)', NEW i \in DOMAIN conn'[d].sent
                 PROVE  conn'[d].sent[i] \in
                          IF conn'[d].oneshot THEN harness[conn'[d].id].emit
                                              ELSE harness[conn'[d].id].own
      BY <2>0 DEF SentInv
    <3>1. CASE d # c
      <4>1. conn'[d] = conn[d] /\ Used(d)
        BY <2>1, <3>1 DEF Used
      <4> QED BY <1>0, <4>1 DEF SentInv
    <3>2. CASE d = c
      <4>1. conn'[c].sent[i] = f \/ (i \in DOMAIN conn[c].sent /\ conn'[c].sent[i] = conn[c].sent[i])
        BY <2>0, <2>1, <3>2, AppendShape
      <4>2. i \in DOMAIN conn[c].sent => conn[c].sent[i] \in harness[conn[c].id].own
        BY <1>0, <2>0 DEF SentInv
      <4> QED BY <2>0, <2>1, <3>2, <4>1, <4>2
    <3> QED BY <3>1, <3>2
  <2> QED BY <2>3, <2>4 DEF IInv
<1>5. CASE (\E c \in Conn : Drop(c)) \/ (\E a \in AgentId : KillPane(a))
  <2>1. /\ conn' \in [Conn -> Connection \cup {Unused}]
        /\ \A d \in Conn :
             /\ Used(d)' <=> Used(d)
             /\ Used(d) =>
                  /\ conn'[d].id = conn[d].id /\ conn'[d].pane = conn[d].pane
                  /\ conn'[d].oneshot = conn[d].oneshot /\ conn'[d].sent = conn[d].sent
    BY <1>0, <1>5, CloseConn
  <2>2. UNCHANGED <<agents, harness, emitted, bridge>>
    BY <1>5 DEF Drop, KillPane
  <2>3. live' \in SUBSET Pane
    BY <1>0, <1>5 DEF Drop, KillPane, TypeOK
  <2>4. proc' \in [AgentId -> [pane : Pane \cup {NoPane}, runs : BOOLEAN]]
    <3>1. UNCHANGED proc \/ \E a \in AgentId : proc' = [proc EXCEPT ![a].runs = FALSE]
      BY <1>5 DEF Drop, KillPane
    <3>2. proc \in [AgentId -> [pane : Pane \cup {NoPane}, runs : BOOLEAN]]
      BY <1>0 DEF TypeOK
    <3>3. ASSUME NEW a \in AgentId PROVE
            [proc[a] EXCEPT !.runs = FALSE] \in [pane : Pane \cup {NoPane}, runs : BOOLEAN]
      BY <3>2
    <3> QED BY <3>1, <3>2, <3>3
  <2>5. TypeOK'
    BY <1>0, <2>1, <2>2, <2>3, <2>4 DEF TypeOK
  <2>6. SentInv'
    BY <1>0, <2>1, <2>2 DEF SentInv
  <2> QED BY <2>5, <2>6 DEF IInv
<1>6. CASE reconcile
  <2>1. /\ agents' \in Agents
        /\ bridge' \in [pc : {"wait", "listed", "prune"}, live : SUBSET Pane,
                        doomed : SUBSET AgentId]
        /\ UNCHANGED <<harness, proc, emitted, live, conn>>
    BY <1>0, <1>6, Reconciles
  <2> QED BY <1>0, <2>1 DEF IInv, TypeOK, SentInv, Used
<1>7. CASE UNCHANGED vars
  BY <1>0, <1>7 DEF vars, IInv, TypeOK, SentInv, Used
<1>8. ASSUME NEW p \in Pane, CloseUserPane(p) PROVE IInv'
  BY <1>0, <1>8 DEF CloseUserPane, IInv, TypeOK, SentInv, Used
<1> QED BY <1>1, <1>2, <1>3, <1>4, <1>5, <1>6, <1>7, <1>8 DEF Next, Environment

LEMMA BaseInit == Init => IInv
<1> SUFFICES ASSUME Init PROVE IInv
  OBVIOUS
<1>1. agents \in Agents /\ harness \in [AgentId -> Harness] /\ live \in SUBSET Pane
  BY UserPaneAssumption DEF Init, Agents
<1>2. proc \in [AgentId -> [pane : Pane \cup {NoPane}, runs : BOOLEAN]]
  BY DEF Init, NotSpawned
<1>3. emitted \in [AgentId -> [n : 0 .. MaxEmit, status : Vocabulary \cup {NoStatus}]]
  BY BoundsAssumption DEF Init
<1>4. conn \in [Conn -> Connection \cup {Unused}] /\ \A c \in Conn : ~Used(c)
  BY DEF Init, Used
<1>5. bridge \in [pc : {"wait", "listed", "prune"}, live : SUBSET Pane,
                  doomed : SUBSET AgentId]
  BY DEF Init
<1>6. TypeOK
  BY <1>1, <1>2, <1>3, <1>4, <1>5 DEF TypeOK
<1> QED BY <1>4, <1>6 DEF IInv, SentInv

\* Every step keeps what a connection was opened with.
LEMMA ConnKept ==
  ASSUME IInv, [Next]_vars, NEW d \in Conn, Used(d)
  PROVE  /\ Used(d)' /\ conn'[d].id = conn[d].id /\ conn'[d].pane = conn[d].pane
         /\ conn'[d].oneshot = conn[d].oneshot
         /\ conn'[d].pc = conn[d].pc \/ handle(d)
<1>0. TypeOK
  BY DEF IInv
<1>1. ASSUME NEW c \in Conn, handle(c)
      PROVE  /\ Used(d)' /\ conn'[d].id = conn[d].id /\ conn'[d].pane = conn[d].pane
             /\ conn'[d].oneshot = conn[d].oneshot
             /\ conn'[d].pc = conn[d].pc \/ handle(d)
  BY <1>0, <1>1, HandlerConn DEF Used
<1>2. ASSUME conn'[d] = conn[d]
      PROVE  /\ Used(d)' /\ conn'[d].id = conn[d].id /\ conn'[d].pane = conn[d].pane
             /\ conn'[d].oneshot = conn[d].oneshot /\ conn'[d].pc = conn[d].pc
  BY <1>2 DEF Used
<1>3. ASSUME NEW a \in AgentId, NEW c \in Conn,
             Connect(a, c) \/ \E f \in Frame : sendOneshot(a, c, f)
      PROVE  conn'[d] = conn[d]
  <2>1. ~Used(c) /\ \A e \in Conn \ {c} : conn'[e] = conn[e]
    BY <1>0, <1>3, Opens
  <2> QED BY <2>1
<1>4. ASSUME NEW c \in Conn, NEW f \in Frame, SendOwn(c, f)
      PROVE  /\ Used(d)' /\ conn'[d].id = conn[d].id /\ conn'[d].pane = conn[d].pane
             /\ conn'[d].oneshot = conn[d].oneshot /\ conn'[d].pc = conn[d].pc
  <2>1. Used(c) /\ conn' = [conn EXCEPT ![c].sent = Append(@, f)]
    BY <1>4 DEF SendOwn
  <2> QED BY <1>0, <1>2, <2>1, SendConn
<1>5. CASE (\E c \in Conn : Drop(c)) \/ (\E a \in AgentId : KillPane(a))
  BY <1>0, <1>5, CloseConn
<1>6. CASE \/ \E p \in Pane : CloseUserPane(p) \/ \E a \in AgentId : Spawn(a, p)
           \/ reconcile \/ UNCHANGED vars
  <2>1. UNCHANGED conn
    BY <1>0, <1>6, Reconciles DEF Spawn, CloseUserPane, vars
  <2> QED BY <1>2, <2>1
<1> QED BY <1>1, <1>2, <1>3, <1>4, <1>5, <1>6 DEF Next, Environment

-----------------------------------------------------------------------------
(* Nothing stays in the roster for ever.                                   *)

\* No owner of a connection sends a frame that does not decode.
OwnersSpeakPlainly == \A h \in Harness : \A f \in h.own : f.event # "malformed"

Reaper(a) == HasReaper(a) \/ Paneless(a)

\* A handler that has begun does not begin again, so that an emit that was handled
\* remains one.
LEMMA PanelessKept ==
  ASSUME IInv, [Next]_vars, NEW a \in AgentId, Paneless(a)
  PROVE  Paneless(a)'
<1>1. PICK c \in Conn : /\ Serves(c, a) /\ conn[c].oneshot /\ conn[c].pane = NoPane
                        /\ conn[c].pc # "hello"
  BY DEF Paneless
<1>2. /\ Serves(c, a)' /\ conn'[c].oneshot /\ conn'[c].pane = NoPane
      /\ conn'[c].pc = conn[c].pc \/ handle(c)
  BY <1>1, ConnKept DEF Serves
<1>3. handle(c) => conn'[c].pc # "hello"
  BY HandlerBegun DEF IInv
<1> QED BY <1>1, <1>2, <1>3 DEF Paneless

\* The reaper of an entry survives what does not concern it.
LEMMA ReaperKept ==
  ASSUME IInv, [Next]_vars, NEW a \in AgentId, Reaper(a), agents'[a] = agents[a],
         \A c \in Conn : Serves(c, a) /\ handle(c) =>
           \/ conn'[c].pc = conn[c].pc
           \/ conn[c].pc # "reapply" /\ conn[c].oneshot
  PROVE  Reaper(a)'
<1>1. ASSUME NEW c \in Conn, Serves(c, a), conn'[c].pc = conn[c].pc
      PROVE  /\ Serves(c, a)' /\ conn'[c].pane = conn[c].pane
             /\ \A pc : At(c, pc) => At(c, pc)'
             /\ Owns(c, a) => Owns(c, a)'
  BY <1>1, ConnKept DEF Serves, At, Owns
<1>2. CASE agents[a].pane # NoPane
  BY <1>2 DEF Reaper, HasReaper
<1>3. ASSUME NEW c \in Conn, Serves(c, a), At(c, "reapply"), conn[c].pane # NoPane
      PROVE  Reaper(a)'
  <2>1. conn'[c].pc = conn[c].pc
    BY <1>3, ConnKept DEF At, Serves
  <2> QED BY <1>1, <1>3, <2>1 DEF Reaper, HasReaper
<1>4. ASSUME NEW c \in Conn, Owns(c, a), conn[c].pc \in {"hello", "read"}
      PROVE  Reaper(a)'
  <2>1. Serves(c, a) /\ conn'[c].pc = conn[c].pc
    BY <1>4, ConnKept DEF Owns, Serves
  <2> QED BY <1>1, <1>4, <2>1 DEF Reaper, HasReaper
<1>5. CASE Paneless(a)
  BY <1>5, PanelessKept DEF Reaper
<1> QED BY <1>2, <1>3, <1>4, <1>5 DEF Reaper, HasReaper

\* What the handler of a connection of the agent leaves behind.
LEMMA ReaperHandler ==
  ASSUME IInv, OwnersSpeakPlainly, NEW c \in Conn, handle(c), NEW a \in AgentId,
         a = conn[c].id, Listed(a) => Reaper(a), Listed(a)'
  PROVE  Reaper(a)'
<1>0. /\ TypeOK /\ SentInv /\ [Next]_vars /\ agents \in Agents
      /\ Used(c) /\ conn[c].pane \in Pane \cup {NoPane} /\ conn[c].oneshot \in BOOLEAN
      /\ \A d \in Conn : d # c => ~handle(d) \/ conn'[d] = conn[d]
  BY HandlerConn, ConnType DEF IInv, Next, TypeOK
<1>1. /\ Used(c)' /\ conn'[c].id = a /\ conn'[c].pane = conn[c].pane
      /\ conn'[c].oneshot = conn[c].oneshot
  BY <1>0, HandlerConn
\* An emit without a pane is an exception, an owner without one stays to remove it.
<1>2. ASSUME conn[c].pane = NoPane, conn[c].oneshot PROVE Reaper(a)'
  BY <1>0, <1>1, <1>2, HandlerBegun DEF Reaper, Paneless, Serves
<1>3. ASSUME ~conn[c].oneshot, conn'[c].pc = "read" PROVE Reaper(a)'
  BY <1>1, <1>3 DEF Reaper, HasReaper, Owns, Serves
<1>8. CASE Hello(c) \/ Reapply(c)
  <2>1. CASE ~conn[c].oneshot
    <3>1. conn'[c].pc = "read"
      BY <1>0, <1>8, GotoConn DEF Hello, Reapply
    <3> QED BY <1>3, <2>1, <3>1
  <2>2. CASE conn[c].pane # NoPane
    <3> DEFINE h == HelloOf(c)
    <3>1. h.id = a /\ h.id \in AgentId /\ h.pane \in Pane \cup {NoPane} /\ h.pane # NoPane
      BY <1>0, <2>2 DEF HelloOf
    <3>2. \/ agents' = UpsertFromHello(agents, h)
          \/ agents' = UpdateIdentityIfPresent(agents, h)
      BY <1>8 DEF Hello, Reapply
    <3> HIDE DEF h
    <3>3. /\ UpsertFromHello(agents, h)[h.id].pane = h.pane
          /\ agents[h.id] = NoAgent => UpdateIdentityIfPresent(agents, h) = agents
          /\ agents[h.id] # NoAgent => UpdateIdentityIfPresent(agents, h)[h.id].pane = h.pane
      BY <1>0, <3>1, HelloEffect
    <3>4. agents'[a].pane # NoPane
      BY <3>1, <3>2, <3>3 DEF Listed
    <3> QED BY <3>4 DEF Reaper, HasReaper
  <2> QED BY <1>0, <1>2, <2>1, <2>2
<1>9. CASE ReadStatus(c) \/ ReadResult(c)
  <2>1. conn'[c].pc = AfterFrame(c)
    BY <1>0, <1>9, ReadConn DEF ReadStatus, ReadResult, AfterFrame
  <2>2. CASE conn[c].oneshot /\ conn[c].pane # NoPane
    BY <1>0, <1>1, <2>1, <2>2 DEF AfterFrame, Reaper, HasReaper, Serves, At
  <2> QED BY <1>0, <1>2, <1>3, <2>1, <2>2 DEF AfterFrame
<1>4. CASE ReadBye(c)
  BY <1>0, <1>4, RemoveEffect DEF ReadBye, Listed
<1>5. CASE ReadOther(c)
  <2>1. /\ agents' = agents /\ conn[c].pc = "read" /\ conn'[c].pc = "read"
    BY <1>0, <1>5, ReadConn DEF ReadOther
  <2> QED BY <1>0, <2>1, ReaperKept DEF Listed
<1>6. CASE ReadMalformed(c)
  <2>1. /\ agents' = agents /\ conn[c].pc = "read" /\ conn[c].sent[1].event = "malformed"
        /\ 1 \in DOMAIN conn[c].sent
    BY <1>0, <1>6, ReadConn DEF ReadMalformed
  <2>2. conn[c].oneshot
    <3>1. SUFFICES ASSUME ~conn[c].oneshot PROVE FALSE
      OBVIOUS
    <3>2. conn[c].sent[1] \in harness[a].own
      BY <1>0, <2>1, <3>1 DEF SentInv
    <3>3. harness[a] \in Harness
      BY <1>0 DEF TypeOK
    <3> QED BY <2>1, <3>2, <3>3 DEF OwnersSpeakPlainly
  <2> QED BY <1>0, <2>1, <2>2, ReaperKept DEF Listed
<1>7. CASE ReadEnd(c)
  <2>1. CASE conn[c].oneshot
    <3>1. agents' = agents /\ conn[c].pc = "read"
      BY <1>7, <2>1 DEF ReadEnd, At
    <3> QED BY <1>0, <2>1, <3>1, ReaperKept DEF Listed
  <2>2. CASE ~conn[c].oneshot
    BY <1>0, <1>7, <2>2, RemoveEffect DEF ReadEnd, Listed
  <2> QED BY <2>1, <2>2
<1> QED BY <1>4, <1>5, <1>6, <1>7, <1>8, <1>9 DEF handle

LEMMA ReaperStep == IInv /\ OwnersSpeakPlainly /\ EntryHasReaper /\ [Next]_vars => EntryHasReaper'
<1> SUFFICES ASSUME IInv, OwnersSpeakPlainly, EntryHasReaper, [Next]_vars,
                    NEW a \in AgentId, Listed(a)'
             PROVE  Reaper(a)'
  BY DEF EntryHasReaper, Reaper
<1>0. TypeOK /\ (Listed(a) => Reaper(a))
  BY DEF IInv, EntryHasReaper, Reaper
<1>1. CASE \E c \in Conn : handle(c) /\ conn[c].id = a
  BY <1>0, <1>1, ReaperHandler
<1>2. ASSUME ~\E c \in Conn : handle(c) /\ conn[c].id = a
      PROVE  Reaper(a)'
  <2>1. agents'[a] = agents[a]
    <3>1. ASSUME NEW c \in Conn, handle(c) PROVE agents'[a] = agents[a]
      BY <1>0, <1>2, <3>1, HandlerOps
    <3>2. CASE reconcile
      BY <1>0, <3>2, Reconciles DEF Listed
    <3>3. CASE Environment \/ UNCHANGED vars
      BY <3>3 DEF Environment, Spawn, Connect, sendOneshot, KillPane, SendOwn, Drop,
                     CloseUserPane, vars
    <3> QED BY <3>1, <3>2, <3>3 DEF Next
  <2>2. Reaper(a)
    BY <1>0, <2>1 DEF Listed
  <2> QED BY <1>2, <2>1, <2>2, ReaperKept DEF Serves
<1> QED BY <1>1, <1>2

-----------------------------------------------------------------------------
(* Only owners and the bridge take agents out.                             *)

\* No bye is sent over a oneshot connection: `mure emit` knows status and
\* result (cmd/mure/emit.go), and so do the plugins.
EmittersNeverBye == \A h \in Harness : \A f \in h.emit : f.event # "bye"

LEMMA RemovalStep ==
  ASSUME IInv, EmittersNeverBye, [Next]_vars, NEW a \in AgentId, Listed(a), ~Listed(a)'
  PROVE  \/ \E c \in Conn : Owns(c, a) /\ At(c, "read") /\ At(c, "done")'
         \/ a \in bridge.doomed
<1>0. TypeOK /\ SentInv /\ agents \in Agents
  BY DEF IInv, TypeOK
<1>1. CASE Environment \/ UNCHANGED vars
  BY <1>1 DEF Environment, Spawn, Connect, sendOneshot, KillPane, SendOwn, Drop,
                     CloseUserPane, vars, Listed
<1>2. CASE reconcile
  BY <1>0, <1>2, Reconciles DEF Listed
<1>3. ASSUME NEW c \in Conn, handle(c)
      PROVE  Owns(c, a) /\ At(c, "read") /\ At(c, "done")'
  <2>0. Used(c) /\ Used(c)' /\ a = conn[c].id /\ conn[c].pane \in Pane \cup {NoPane}
    BY <1>0, <1>3, HandlerOps, HandlerConn, ConnType DEF Listed
  <2>1. CASE Hello(c) \/ Reapply(c)
    <3> DEFINE h == HelloOf(c)
    <3>1. h.id = a /\ h.pane \in Pane \cup {NoPane} /\ h.id \in AgentId
      BY <2>0 DEF HelloOf
    <3>2. \/ agents' = UpsertFromHello(agents, h)
          \/ agents' = UpdateIdentityIfPresent(agents, h)
      BY <2>1 DEF Hello, Reapply
    <3> HIDE DEF h
    <3>3. /\ UpsertFromHello(agents, h)[h.id] \in AgentState
          /\ agents[h.id] # NoAgent => UpdateIdentityIfPresent(agents, h)[h.id] \in AgentState
      BY <1>0, <3>1, HelloEffect
    <3> QED BY <3>1, <3>2, <3>3, NoAgentAssumption DEF Listed
  <2>2. CASE ReadStatus(c)
    <3> DEFINE st == [id |-> a, ts |-> 1, status |-> Head(conn[c].sent).status]
    <3>1. /\ conn[c].sent[1] \in Frame /\ conn[c].sent[1].event = "status"
          /\ Head(conn[c].sent) = conn[c].sent[1]
      BY <1>0, <2>2, ReadConn DEF ReadStatus, AfterFrame
    <3>2. conn[c].sent[1].status \in Vocabulary
      BY <3>1 DEF Frame
    <3>3. st.id = a /\ st.id \in AgentId /\ st.status \in Vocabulary /\ st.ts \in Nat
      BY <3>1, <3>2
    <3>4. agents' = ApplyStatus(agents, st)
      BY <2>0, <2>2 DEF ReadStatus
    <3> HIDE DEF st
    <3>5. ApplyStatus(agents, st)[st.id] \in AgentState
      BY <1>0, <3>3, StatusEffect
    <3> QED BY <3>3, <3>4, <3>5, NoAgentAssumption DEF Listed
  <2>3. CASE ReadResult(c)
    <3> DEFINE rs == [id |-> a, text |-> Head(conn[c].sent).text]
    <3>1. /\ conn[c].sent[1] \in Frame /\ conn[c].sent[1].event = "result"
          /\ Head(conn[c].sent) = conn[c].sent[1]
      BY <1>0, <2>3, ReadConn DEF ReadResult, AfterFrame
    <3>2. conn[c].sent[1].text \in Text \cup {NoText}
      BY <3>1 DEF Frame
    <3>3. rs.id = a /\ rs.id \in AgentId /\ rs.text \in Text \cup {NoText}
      BY <3>1, <3>2
    <3>4. agents' = ApplyResult(agents, rs)
      BY <2>0, <2>3 DEF ReadResult
    <3> HIDE DEF rs
    <3>5. ApplyResult(agents, rs)[rs.id] \in AgentState
      BY <1>0, <3>3, ResultEffect
    <3> QED BY <3>3, <3>4, <3>5, NoAgentAssumption DEF Listed
  <2>4. CASE ReadBye(c)
    <3>1. /\ conn[c].pc = "read" /\ conn'[c].pc = "done" /\ conn[c].sent[1].event = "bye"
          /\ 1 \in DOMAIN conn[c].sent
      BY <1>0, <2>4, ReadConn DEF ReadBye
    <3>2. ~conn[c].oneshot
      <4>1. SUFFICES ASSUME conn[c].oneshot PROVE FALSE
        OBVIOUS
      <4>2. conn[c].sent[1] \in harness[a].emit
        BY <1>0, <2>0, <3>1, <4>1 DEF SentInv
      <4>3. harness[a] \in Harness
        BY <1>0 DEF TypeOK
      <4> QED BY <3>1, <4>2, <4>3 DEF EmittersNeverBye
    <3> QED BY <2>0, <3>1, <3>2 DEF Owns, Serves, At
  <2>5. CASE ReadOther(c) \/ ReadMalformed(c)
    BY <2>5 DEF ReadOther, ReadMalformed, Listed
  <2>6. CASE ReadEnd(c)
    <3>1. conn[c].pc = "read" /\ Goto(c, "done") /\ ~conn[c].oneshot
      BY <2>6 DEF ReadEnd, At, Listed
    <3>2. conn'[c].pc = "done"
      BY <1>0, <2>0, <3>1, GotoConn
    <3> QED BY <2>0, <3>1, <3>2 DEF Owns, Serves, At
  <2> QED BY <1>3, <2>1, <2>2, <2>3, <2>4, <2>5, <2>6 DEF handle
<1> QED BY <1>1, <1>2, <1>3 DEF Next

-----------------------------------------------------------------------------
(* What is shown is what was emitted last.                                 *)

\* The steps that concern neither the emits nor the connections of an agent.
LEMMA AwaitSame ==
  ASSUME NEW a \in AgentId, OneAtATime(a), LastStatus(a),
         emitted'[a] = emitted[a], agents'[a] = agents[a] \/ ~Listed(a)',
         \A c \in Conn :
           /\ Serves(c, a)' <=> Serves(c, a)
           /\ Serves(c, a) =>
                /\ conn'[c].oneshot = conn[c].oneshot /\ conn'[c].pc = conn[c].pc
                /\ conn'[c].sent = conn[c].sent
  PROVE  OneAtATime(a)' /\ LastStatus(a)'
<1>1. OneAtATime(a)'
  BY DEF OneAtATime
<1>2. ASSUME Listed(a)'
      PROVE  \/ agents'[a].status \in {NoStatus, emitted'[a].status}
             \/ \E c \in Conn : Serves(c, a)' /\ Unread(c, emitted[a].status)'
  <2>1. Listed(a) /\ agents'[a] = agents[a]
    BY <1>2 DEF Listed
  <2>2. CASE agents[a].status \in {NoStatus, emitted[a].status}
    BY <2>1, <2>2
  <2>3. ASSUME NEW c \in Conn, Serves(c, a), Unread(c, emitted[a].status)
        PROVE  Serves(c, a)' /\ Unread(c, emitted[a].status)'
    BY <2>3 DEF Unread
  <2> QED BY <2>1, <2>2, <2>3 DEF LastStatus
<1> QED BY <1>1, <1>2 DEF LastStatus

\* A new emit of an agent that waits finds all its connections over.
LEMMA AwaitEmit ==
  ASSUME IInv, NEW a \in AgentId, Awaiting(a), OneAtATime(a), LastStatus(a), NEW c \in Conn,
         Connect(a, c) \/ \E f \in Frame : sendOneshot(a, c, f)
  PROVE  OneAtATime(a)' /\ LastStatus(a)'
<1>1. /\ ~Used(c) /\ Used(c)' /\ conn'[c].id = a /\ conn'[c].pc = "hello"
      /\ \A d \in Conn \ {c} : conn'[d] = conn[d]
      /\ UNCHANGED agents
  BY Opens DEF IInv
<1>2. PICK f \in Frame :
        /\ conn'[c].oneshot /\ conn'[c].sent = <<f>>
        /\ Says(a, f)
        /\ \A d \in Conn : Serves(d, a) => conn[d].pc = "done"
  BY Opens DEF IInv, Awaiting
<1>3. emitted'[a].status = IF f.event = "status" THEN f.status ELSE emitted[a].status
  BY <1>2, SaysType DEF IInv
<1>4. Len(<<f>>) = 1 /\ <<f>>[1] = f /\ <<f>> # <<>>
  OBVIOUS
<1>5. \A d \in Conn \ {c} : Serves(d, a)' => conn'[d].pc = "done" /\ conn'[d].oneshot
  BY <1>1, <1>2 DEF Serves, Used, OneAtATime
<1>6. OneAtATime(a)'
  <2>1. \A d \in Conn : Serves(d, a)' /\ conn'[d].pc # "done" => d = c
    BY <1>5
  <2>2. /\ conn'[c].oneshot /\ Len(conn'[c].sent) <= 1
        /\ conn'[c].sent[1].event = "status" => conn'[c].sent[1].status = emitted'[a].status
    BY <1>2, <1>3, <1>4
  <2>3. ASSUME NEW d \in Conn, Serves(d, a)'
        PROVE  d = c \/ (conn'[d].oneshot /\ conn'[d].pc = "done")
    BY <1>5, <2>3
  <2> QED BY <2>1, <2>2, <2>3 DEF OneAtATime
<1>7. LastStatus(a)'
  <2>1. SUFFICES ASSUME Listed(a)
                 PROVE  \/ agents'[a].status \in {NoStatus, emitted'[a].status}
                        \/ \E d \in Conn : Serves(d, a)' /\ Unread(d, emitted[a].status)'
    BY <1>1 DEF LastStatus, Listed
  <2>2. CASE f.event = "status"
    BY <1>1, <1>2, <1>3, <1>4, <2>2 DEF Serves, Unread
  <2>3. CASE f.event # "status"
    <3>1. \A d \in Conn : ~(Serves(d, a) /\ Unread(d, emitted[a].status))
      BY <1>2 DEF Unread
    <3> QED BY <1>1, <1>3, <2>1, <2>3, <3>1 DEF LastStatus
  <2> QED BY <2>2, <2>3
<1> QED BY <1>6, <1>7

\* The one connection is handled.
LEMMA AwaitHandler ==
  ASSUME IInv, NEW a \in AgentId, OneAtATime(a), LastStatus(a), NEW c \in Conn, handle(c),
         conn[c].id = a
  PROVE  OneAtATime(a)' /\ LastStatus(a)'
<1>0. TypeOK /\ agents \in Agents
  BY DEF IInv, TypeOK
<1>1. /\ Used(c) /\ Used(c)' /\ conn'[c].id = a /\ conn'[c].oneshot = conn[c].oneshot
      /\ Len(conn'[c].sent) <= Len(conn[c].sent)
      /\ \A i \in DOMAIN conn'[c].sent :
           \E j \in DOMAIN conn[c].sent : conn'[c].sent[i] = conn[c].sent[j]
      /\ \A d \in Conn \ {c} : conn'[d] = conn[d]
      /\ conn'[c] \in Connection \cup {Unused}
      /\ UNCHANGED emitted
  BY <1>0, HandlerConn
<1>2. conn[c].sent \in Seq(Frame) /\ conn'[c].sent \in Seq(Frame)
      /\ conn[c].pane \in Pane \cup {NoPane}
  BY <1>0, <1>1, ConnType DEF Used, Connection
<1>3. conn[c].oneshot /\ conn[c].pc \in {"hello", "read", "reapply"}
  BY <1>1, Zenon
  DEF OneAtATime, Serves, handle, Hello, ReadStatus, ReadResult, Reapply, ReadBye, ReadOther,
      ReadMalformed, ReadEnd, Reads, At
<1>4. /\ \A d \in Conn : Serves(d, a) /\ conn[d].pc # "done" => d = c
      /\ Len(conn[c].sent) <= 1
      /\ conn[c].sent # <<>> /\ conn[c].sent[1].event = "status" =>
           conn[c].sent[1].status = emitted[a].status
  BY <1>1, <1>3 DEF OneAtATime, Serves
<1>5. OneAtATime(a)'
  <2>1. Len(conn'[c].sent) <= 1
    BY <1>1, <1>2, <1>4
  <2>2. ASSUME conn'[c].sent # <<>>
        PROVE  conn[c].sent # <<>> /\ conn'[c].sent[1] = conn[c].sent[1]
    <3>1. 1 \in DOMAIN conn'[c].sent
      BY <1>2, <2>2
    <3>2. PICK j \in DOMAIN conn[c].sent : conn'[c].sent[1] = conn[c].sent[j]
      BY <1>1, <3>1
    <3>3. j = 1 /\ conn[c].sent # <<>>
      BY <1>2, <1>4, <3>2
    <3> QED BY <3>2, <3>3
  <2>3. \A d \in Conn : Serves(d, a)' /\ conn'[d].pc # "done" => d = c
    BY <1>1, <1>4 DEF Serves, Used
  <2>4. \A d \in Conn \ {c} : Serves(d, a)' => conn'[d].oneshot
    BY <1>1 DEF OneAtATime, Serves, Used
  <2> QED BY <1>1, <1>3, <1>4, <2>1, <2>2, <2>3, <2>4, ZenonT(60) DEF OneAtATime
\* If the roster does not show the last status, the unread one is that of c.
<1>6. ASSUME Listed(a), ~Unread(c, emitted[a].status)
      PROVE  agents[a].status \in {NoStatus, emitted[a].status}
  BY <1>4, <1>6 DEF LastStatus, Unread
<1>7. ASSUME agents'[a].status \in {NoStatus, emitted[a].status} \/ ~Listed(a)'
      PROVE  LastStatus(a)'
  BY <1>1, <1>7 DEF LastStatus
<1>8. CASE Hello(c)
  <2> DEFINE h == HelloOf(c)
  <2>1. /\ h.id = a /\ h.pane \in Pane \cup {NoPane} /\ h.id \in AgentId
        /\ agents' = UpdateIdentityIfPresent(agents, h)
        /\ Goto(c, "read") /\ conn[c].pc = "hello"
    BY <1>2, <1>3, <1>8 DEF HelloOf, Hello, At
  <2> HIDE DEF h
  <2>2. /\ agents[h.id] = NoAgent => agents' = agents
        /\ agents[h.id] # NoAgent => agents'[h.id].status = agents[h.id].status
    BY <1>0, <2>1, HelloEffect
  <2>3. conn'[c].pc = "read" /\ conn'[c].sent = conn[c].sent
    BY <1>0, <1>1, <2>1, GotoConn
  <2>4. Unread(c, emitted[a].status) => Unread(c, emitted[a].status)'
    BY <1>1, <2>3 DEF Unread
  <2> QED BY <1>1, <1>5, <1>6, <1>7, <2>1, <2>2, <2>4 DEF LastStatus, Listed, Serves
<1>9. CASE Reapply(c)
  <2> DEFINE h == HelloOf(c)
  <2>1. /\ h.id = a /\ h.pane \in Pane \cup {NoPane} /\ h.id \in AgentId
        /\ agents' = UpdateIdentityIfPresent(agents, h)
        /\ conn[c].pc = "reapply"
    BY <1>2, <1>9 DEF HelloOf, Reapply, At
  <2> HIDE DEF h
  <2>2. /\ agents[h.id] = NoAgent => agents' = agents
        /\ agents[h.id] # NoAgent => agents'[h.id].status = agents[h.id].status
    BY <1>0, <2>1, HelloEffect
  <2>3. ~Unread(c, emitted[a].status)
    BY <2>1 DEF Unread
  <2> QED BY <1>5, <1>6, <1>7, <2>1, <2>2, <2>3 DEF Listed
<1>10. CASE ReadStatus(c)
  <2> DEFINE st == [id |-> a, ts |-> 1, status |-> Head(conn[c].sent).status]
  <2>1. /\ conn[c].sent[1] \in Frame /\ conn[c].sent[1].event = "status"
        /\ Head(conn[c].sent) = conn[c].sent[1] /\ conn[c].sent # <<>>
    BY <1>0, <1>10, ReadConn DEF ReadStatus, AfterFrame
  <2>2. conn[c].sent[1].status \in Vocabulary /\ conn[c].sent[1].status = emitted[a].status
    BY <1>4, <2>1 DEF Frame
  <2>3. /\ st.id = a /\ st.id \in AgentId /\ st.status = emitted[a].status
        /\ st.status \in Vocabulary /\ st.ts \in Nat
    BY <2>1, <2>2
  <2>4. agents' = ApplyStatus(agents, st)
    BY <1>10 DEF ReadStatus
  <2> HIDE DEF st
  <2>5. ApplyStatus(agents, st)[st.id].status = st.status
    BY <1>0, <2>3, StatusEffect
  <2> QED BY <1>5, <1>7, <2>3, <2>4, <2>5
<1>11. CASE ReadResult(c)
  <2> DEFINE rs == [id |-> a, text |-> Head(conn[c].sent).text]
  <2>1. /\ conn[c].sent[1] \in Frame /\ conn[c].sent[1].event = "result"
        /\ Head(conn[c].sent) = conn[c].sent[1]
    BY <1>0, <1>11, ReadConn DEF ReadResult, AfterFrame
  <2>2. conn[c].sent[1].text \in Text \cup {NoText}
    BY <2>1 DEF Frame
  <2>3. rs.id = a /\ rs.id \in AgentId /\ rs.text \in Text \cup {NoText}
    BY <2>1, <2>2
  <2>4. agents' = ApplyResult(agents, rs)
    BY <1>11 DEF ReadResult
  <2> HIDE DEF rs
  <2>5. /\ agents[rs.id] = NoAgent => agents'[rs.id].status = NoStatus
        /\ agents[rs.id] # NoAgent => agents'[rs.id].status = agents[rs.id].status
    BY <1>0, <2>3, <2>4, ResultEffect
  <2>6. ~Unread(c, emitted[a].status)
    BY <2>1 DEF Unread
  <2> QED BY <1>5, <1>6, <1>7, <2>3, <2>5, <2>6 DEF Listed
<1>12. CASE ReadBye(c)
  BY <1>0, <1>5, <1>7, <1>12, RemoveEffect DEF ReadBye, Listed
<1>13. CASE ReadOther(c) \/ ReadMalformed(c)
  <2>1. conn[c].sent[1].event \in {"other", "malformed"} /\ agents' = agents
    BY <1>0, <1>13, ReadConn DEF ReadOther, ReadMalformed
  <2>2. ~Unread(c, emitted[a].status)
    BY <2>1 DEF Unread
  <2> QED BY <1>5, <1>6, <1>7, <2>1, <2>2 DEF Listed
<1>14. CASE ReadEnd(c)
  <2>1. conn[c].sent = <<>> /\ agents' = agents
    BY <1>3, <1>14 DEF ReadEnd
  <2>2. ~Unread(c, emitted[a].status)
    BY <2>1 DEF Unread
  <2> QED BY <1>5, <1>6, <1>7, <2>1, <2>2 DEF Listed
<1> QED BY <1>5, <1>8, <1>9, <1>10, <1>11, <1>12, <1>13, <1>14 DEF handle

LEMMA AwaitStep == IInv /\ AwaitInv /\ [Next]_vars => AwaitInv'
<1> SUFFICES ASSUME IInv, AwaitInv, [Next]_vars, NEW a \in AgentId, Awaiting(a)'
             PROVE  OneAtATime(a)' /\ LastStatus(a)'
  BY DEF AwaitInv
<1>0. TypeOK
  BY DEF IInv
<1>1. UNCHANGED harness
  <2>1. ASSUME NEW c \in Conn, handle(c) PROVE UNCHANGED harness
    BY <1>0, <2>1, HandlerConn
  <2>2. CASE Environment \/ UNCHANGED vars
    BY <2>2 DEF Environment, Spawn, Connect, sendOneshot, KillPane, SendOwn, Drop,
                     CloseUserPane, vars
  <2>3. CASE reconcile
    BY <1>0, <2>3, Reconciles
  <2> QED BY <2>1, <2>2, <2>3 DEF Next
<1>2. Awaiting(a) /\ OneAtATime(a) /\ LastStatus(a)
  BY <1>1 DEF Awaiting, AwaitInv
<1>3. ASSUME NEW c \in Conn, handle(c) PROVE OneAtATime(a)' /\ LastStatus(a)'
  <2>1. CASE conn[c].id = a
    BY <1>2, <1>3, <2>1, AwaitHandler
  <2>2. CASE conn[c].id # a
    <3>1. agents'[a] = agents[a] /\ UNCHANGED emitted
      BY <1>0, <1>3, <2>2, HandlerOps, HandlerConn
    <3>2. /\ Used(c) /\ conn'[c].id = conn[c].id
          /\ \A d \in Conn \ {c} : conn'[d] = conn[d]
      BY <1>0, <1>3, HandlerConn
    <3> QED BY <1>2, <2>2, <3>1, <3>2, AwaitSame DEF Serves, Used
  <2> QED BY <2>1, <2>2
<1>4. ASSUME NEW b \in AgentId, NEW c \in Conn,
             Connect(b, c) \/ \E f \in Frame : sendOneshot(b, c, f)
      PROVE  OneAtATime(a)' /\ LastStatus(a)'
  <2>1. CASE b = a
    BY <1>2, <1>4, <2>1, AwaitEmit
  <2>2. CASE b # a
    <3>1. /\ ~Used(c) /\ Used(c)' /\ conn'[c].id = b
          /\ \A d \in Conn \ {c} : conn'[d] = conn[d]
          /\ UNCHANGED agents
          /\ UNCHANGED emitted \/ \E f \in Frame : Says(b, f)
      BY <1>0, <1>4, Opens
    <3>2. emitted'[a] = emitted[a]
      BY <1>0, <2>2, <3>1, SaysType
    <3> QED BY <1>2, <2>2, <3>1, <3>2, AwaitSame DEF Serves, Used
  <2> QED BY <2>1, <2>2
<1>5. ASSUME NEW c \in Conn, NEW f \in Frame, SendOwn(c, f)
      PROVE  OneAtATime(a)' /\ LastStatus(a)'
  <2>1. /\ Used(c) /\ ~conn[c].oneshot /\ Says(conn[c].id, f) /\ conn[c].id \in AgentId
        /\ UNCHANGED agents /\ conn' = [conn EXCEPT ![c].sent = Append(@, f)]
    BY <1>0, <1>5, ConnType DEF SendOwn
  <2>2. conn[c].id # a
    BY <1>2, <2>1 DEF OneAtATime, Serves
  <2>3. emitted'[a] = emitted[a]
    BY <1>0, <2>1, <2>2, SaysType
  <2>4. conn'[c].id = conn[c].id /\ \A d \in Conn \ {c} : conn'[d] = conn[d]
    BY <1>0, <2>1, SendConn
  <2> QED BY <1>2, <2>1, <2>2, <2>3, <2>4, AwaitSame DEF Serves, Used
<1>6. CASE (\E c \in Conn : Drop(c)) \/ (\E b \in AgentId : KillPane(b))
  <2>1. \A d \in Conn :
          /\ Used(d)' <=> Used(d)
          /\ Used(d) => /\ conn'[d].id = conn[d].id /\ conn'[d].oneshot = conn[d].oneshot
                        /\ conn'[d].sent = conn[d].sent /\ conn'[d].pc = conn[d].pc
    BY <1>0, <1>6, CloseConn
  <2>2. UNCHANGED <<agents, emitted>>
    BY <1>6 DEF Drop, KillPane
  <2> QED BY <1>2, <2>1, <2>2, AwaitSame DEF Serves
<1>7. CASE \/ \E p \in Pane : CloseUserPane(p) \/ \E b \in AgentId : Spawn(b, p)
           \/ reconcile \/ UNCHANGED vars
  <2>1. UNCHANGED <<conn, emitted>> /\ (agents'[a] = agents[a] \/ agents'[a] = NoAgent)
    BY <1>0, <1>7, Reconciles DEF Spawn, CloseUserPane, vars
  <2> QED BY <1>2, <2>1, AwaitSame DEF Serves, Used, Listed
<1> QED BY <1>3, <1>4, <1>5, <1>6, <1>7 DEF Next, Environment

-----------------------------------------------------------------------------
(* The theorems.                                                           *)

LEMMA Base == Spec => []IInv
BY BaseInit, BaseStep, PTL DEF Spec

\* Roster, processes, connections and bridge are of the types they are declared
\* with.
THEOREM Typing == Spec => []TypeOK
<1>1. IInv => TypeOK
  BY DEF IInv
<1> QED BY Base, <1>1, PTL

\* If no owner sends a frame that does not decode, an entry without a pane, which
\* the bridge never prunes, is about to get one, has a connection whose end
\* removes it, or belongs to an agent of which an emit named no pane (handleAgent,
\* emitPaneID).
THEOREM NothingStays ==
  ASSUME OwnersSpeakPlainly
  PROVE  Spec => []EntryHasReaper
<1>1. Init => EntryHasReaper
  BY DEF Init, EntryHasReaper, Listed
<1>2. IInv /\ EntryHasReaper /\ [Next]_vars => EntryHasReaper'
  BY ReaperStep
<1> QED BY <1>1, <1>2, Base, PTL DEF Spec

\* If no emitter says bye, only a connection that owns an agent and the bridge
\* take it out of the roster (handleAgent, Bridge.reconcile).
THEOREM EmittersNeverRemove ==
  ASSUME EmittersNeverBye
  PROVE  Spec => OnlyOwnersRemove
<1>1. IInv /\ [Next]_vars =>
        [\A a \in AgentId : Listed(a) /\ ~Listed(a)' =>
           \/ \E c \in Conn : Owns(c, a) /\ At(c, "read") /\ At(c, "done")'
           \/ a \in bridge.doomed]_vars
  BY RemovalStep
<1> QED BY <1>1, Base, PTL DEF Spec, OnlyOwnersRemove

\* An agent whose harness waits for the daemon between two emits is shown with
\* the status that it emitted last, once all that it emitted has been handled.
THEOREM LastStatusShown == Spec => []ShowsLastStatus
<1>1. Init => AwaitInv
  BY DEF Init, AwaitInv, OneAtATime, LastStatus, Listed, Serves, Used
<1>2. AwaitInv => ShowsLastStatus
  <2> SUFFICES ASSUME AwaitInv, NEW a \in AgentId, Awaiting(a), Listed(a), Settled(a),
                      agents[a].status # NoStatus
               PROVE  agents[a].status = emitted[a].status
    BY DEF ShowsLastStatus, Awaiting
  <2>1. \A c \in Conn : ~(Serves(c, a) /\ Unread(c, emitted[a].status))
    BY DEF Settled, Unread
  <2> QED BY <2>1 DEF AwaitInv, LastStatus
<1> QED BY <1>1, <1>2, AwaitStep, Base, PTL DEF Spec
=============================================================================
