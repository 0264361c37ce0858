------------------------------ MODULE TmuxProofs ------------------------------
(***************************************************************************)
(* Proofs about TmuxControl, for any set of calls and any number of blocks *)
(* that answer none.                                                       *)
(***************************************************************************)
EXTENDS TmuxControl, TLAPS

-----------------------------------------------------------------------------
(* The inductive invariant.                                                *)

Pending(r) == \E i \in DOMAIN pending : pending[i] = r

\* A call that the writer has not taken has left no trace: nothing was sent on
\* its reply channel, it is not pending, and the writer does not work on it.
UntakenInv ==
  \A r \in Request :
    call[r] \in {"idle", "offer"} =>
      reply[r] = <<>> /\ ~Pending(r) /\ r \notin acked /\ writer.req # r

\* Nor has the call that the writer has taken and not pushed yet.
TakenInv ==
  /\ writer.pc \in {"push", "write", "ack"} => writer.req \in Request
  /\ writer.pc = "push" =>
       reply[writer.req] = <<>> /\ ~Pending(writer.req) /\ writer.req \notin acked

\* A pending call is pending once and has no reply and no ack.
PendingInv ==
  /\ \A i, j \in DOMAIN pending : pending[i] = pending[j] => i = j
  /\ \A r \in Request : Pending(r) => reply[r] = <<>> /\ r \notin acked

\* The reader ends only when tmux can be written to no more.
EndedInv ==
  /\ reader # "scan" => ~CanWrite
  /\ done => reader = "exited"

\* As long as tmux prints no block of its own, the one command in tmux is the one
\* the writer waits for, and this is the only one that is pending.
Waits == writer.pc = "ack" /\ writer.req \notin acked

OrderInv ==
  unsolicited = 0 =>
    /\ Len(stdin) + Len(stdout) <= 1
    /\ reader = "scan" =>
         /\ Len(stdin) + Len(stdout) = IF Waits THEN 1 ELSE 0
         /\ \A i \in DOMAIN stdin : stdin[i] = writer.req
         /\ \A i \in DOMAIN stdout : stdout[i] = writer.req
         /\ pending = IF writer.pc = "write" \/ Waits THEN <<writer.req>> ELSE <<>>

OnceInv == UntakenInv /\ TakenInv /\ PendingInv /\ AnsweredOnce
IInv == TypeOK /\ OnceInv /\ EndedInv /\ OrderInv /\ OwnReply

-----------------------------------------------------------------------------
(* What is done to the queue of pending calls.                             *)

\* Push puts the call at the end, where it has not been.
LEMMA PushQueue ==
  ASSUME TypeOK, NEW q \in Request, pending' = Append(pending, q)
  PROVE  /\ pending' \in Seq(Request)
         /\ Len(pending') = Len(pending) + 1
         /\ \A i \in DOMAIN pending : pending'[i] = pending[i]
         /\ pending'[Len(pending) + 1] = q
         /\ \A r : Pending(r)' <=> Pending(r) \/ r = q
<1>1. pending \in Seq(Request) /\ pending' \in Seq(Request)
  BY DEF TypeOK
<1>2. /\ Len(pending') = Len(pending) + 1
      /\ \A i \in DOMAIN pending : pending'[i] = pending[i]
      /\ pending'[Len(pending) + 1] = q
  BY <1>1
<1>3. ASSUME NEW r PROVE Pending(r)' <=> Pending(r) \/ r = q
  BY <1>1, <1>2 DEF Pending
<1> QED BY <1>1, <1>2, <1>3

\* failPending answers each pending call once and empties the queue.
LEMMA FailQueue ==
  ASSUME TypeOK, PendingInv, failPending
  PROVE  /\ pending' = <<>>
         /\ acked' \in SUBSET Request
         /\ reply' \in [Request -> Seq(Result)]
         /\ \A r \in Request :
              /\ reply'[r] = IF Pending(r) THEN <<"failed">> ELSE reply[r]
              /\ r \in acked' <=> r \in acked \/ Pending(r)
         /\ \A r : ~Pending(r)'
<1>1. pending' = <<>> /\ \A r : ~Pending(r)'
  BY DEF failPending, Pending
<1>2. \A r \in Request : r \in {pending[i] : i \in DOMAIN pending} <=> Pending(r)
  BY DEF Pending
<1>3. ASSUME NEW r \in Request
      PROVE  /\ reply'[r] = IF Pending(r) THEN <<"failed">> ELSE reply[r]
             /\ reply'[r] \in Seq(Result)
  <2>1. reply'[r] = IF Pending(r) THEN Append(reply[r], "failed") ELSE reply[r]
    BY <1>2 DEF failPending
  <2>2. Pending(r) => reply[r] = <<>>
    BY DEF PendingInv
  <2>3. reply[r] \in Seq(Result) /\ "failed" \in Result
    BY DEF TypeOK, Result
  <2>4. Append(<<>>, "failed") = <<"failed">> /\ <<"failed">> \in Seq(Result)
    BY <2>3
  <2> QED BY <2>1, <2>2, <2>3, <2>4
<1>4. acked' = acked \cup {pending[i] : i \in DOMAIN pending}
  BY DEF failPending
<1>5. acked' \in SUBSET Request
  BY <1>4 DEF TypeOK
<1>6. reply' \in [Request -> Seq(Result)]
  BY <1>3 DEF failPending
<1> QED BY <1>1, <1>2, <1>3, <1>4, <1>5, <1>6

\* resolve answers the first pending call and takes it out of the queue.
LEMMA ResolveQueue ==
  ASSUME TypeOK, PendingInv, NEW b \in Result, resolve(b), pending # <<>>
  PROVE  /\ pending[1] \in Request
         /\ pending' \in Seq(Request)
         /\ Len(pending') = Len(pending) - 1
         /\ \A i \in DOMAIN pending' : pending'[i] = pending[i + 1]
         /\ \A r \in Request : Pending(r)' <=> Pending(r) /\ r # pending[1]
         /\ reply' = [reply EXCEPT ![pending[1]] = <<b>>]
         /\ acked' = acked \cup {pending[1]}
<1>1. pending \in Seq(Request) /\ Len(pending) > 0 /\ 1 \in DOMAIN pending
  BY DEF TypeOK
<1>2. Head(pending) = pending[1] /\ pending[1] \in Request
  BY <1>1
<1>3. /\ pending' \in Seq(Request)
      /\ Len(pending') = Len(pending) - 1
      /\ \A i \in DOMAIN pending' : pending'[i] = pending[i + 1]
  BY <1>1 DEF resolve
<1>4. ASSUME NEW r \in Request PROVE Pending(r)' <=> Pending(r) /\ r # pending[1]
  <2>1. Pending(r)' => Pending(r) /\ r # pending[1]
    BY <1>1, <1>3 DEF Pending, PendingInv
  <2>2. ASSUME NEW i \in DOMAIN pending, pending[i] = r, r # pending[1]
        PROVE  Pending(r)'
    <3>1. i - 1 \in DOMAIN pending' /\ pending'[i - 1] = pending[i]
      BY <1>1, <1>3, <2>2
    <3> QED BY <3>1, <2>2 DEF Pending
  <2> QED BY <2>1, <2>2 DEF Pending
<1>5. reply' = [reply EXCEPT ![pending[1]] = <<b>>]
  <2>1. reply[pending[1]] = <<>>
    BY <1>1, <1>2 DEF PendingInv, Pending
  <2>2. Append(<<>>, b) = <<b>>
    OBVIOUS
  <2> QED BY <1>1, <1>2, <2>1, <2>2 DEF resolve, TypeOK
<1> QED BY <1>2, <1>3, <1>4, <1>5 DEF resolve

-----------------------------------------------------------------------------
(* Types.                                                                  *)

LEMMA InitType == Init => TypeOK
<1> SUFFICES ASSUME Init PROVE TypeOK
  OBVIOUS
<1>1. call \in [Request -> {"idle", "offer", "await", "returned", "cancelled"}]
  BY DEF Init
<1>2. /\ reply \in [Request -> Seq(Result)] /\ pending \in Seq(Request)
      /\ stdin \in Seq(Request) /\ stdout \in Seq(Request \cup {Nobody})
  BY DEF Init
<1>3. writer \in [pc : {"select", "push", "write", "ack", "exited"},
                  req : Request \cup {Nobody}]
  BY DEF Init
<1>4. acked \in SUBSET Request /\ unsolicited \in 0 .. MaxUnsolicited
  BY BoundAssumption DEF Init
<1>5. /\ reader \in {"scan", "ended", "exited"} /\ pipes \in {"open", "closed"}
      /\ done \in BOOLEAN /\ closed \in BOOLEAN /\ alive \in BOOLEAN
  BY DEF Init
<1> QED BY <1>1, <1>2, <1>3, <1>4, <1>5 DEF TypeOK

LEMMA TypeStep == TypeOK /\ PendingInv /\ TakenInv /\ [Next]_vars => TypeOK'
<1> SUFFICES ASSUME TypeOK, PendingInv, TakenInv, [Next]_vars PROVE TypeOK'
  OBVIOUS
<1> USE DEF TypeOK, goroutines, tmux
<1>1. ASSUME NEW r \in Request,
             Run(r) \/ RunClosed(r) \/ RunReplied(r) \/ RunCancelled(r)
      PROVE  TypeOK'
  <2>1. <<"closed">> \in Seq(Result)
    BY DEF Result
  <2> QED BY <1>1, <2>1 DEF Run, RunClosed, RunReplied, RunCancelled
<1>2. ASSUME NEW r \in Request, TakeRequest(r) PROVE TypeOK'
  BY <1>2 DEF TakeRequest
<1>3. CASE Push
  <2>1. writer.req \in Request
    BY <1>3 DEF Push, TakenInv
  <2>2. Append(reply[writer.req], "closed") \in Seq(Result)
    BY <2>1 DEF Result
  <2>3. Append(pending, writer.req) \in Seq(Request)
    BY <2>1
  <2>4. CASE closed
    <3>1. reply' \in [Request -> Seq(Result)]
      BY <1>3, <2>1, <2>2, <2>4 DEF Push
    <3>2. writer' \in [pc : {"select", "push", "write", "ack", "exited"},
                       req : Request \cup {Nobody}]
      BY <1>3, <2>4 DEF Push
    <3> QED BY <1>3, <2>4, <3>1, <3>2 DEF Push
  <2>5. CASE ~closed
    BY <1>3, <2>3, <2>5 DEF Push
  <2> QED BY <2>4, <2>5
<1>4. CASE Write
  <2>1. Append(stdin, writer.req) \in Seq(Request)
    BY <1>4 DEF Write, TakenInv
  <2> QED BY <1>4, <2>1 DEF Write
<1>5. CASE WriteFails
  <2>1. /\ pending' = <<>> /\ acked' \in SUBSET Request
        /\ reply' \in [Request -> Seq(Result)]
    BY <1>5, FailQueue DEF WriteFails
  <2> QED BY <1>5, <2>1 DEF WriteFails
<1>6. CASE Acked \/ WriterDone \/ ReaderDone
  <2>1. CASE Acked
    BY <2>1 DEF Acked
  <2>2. CASE WriterDone
    BY <2>2 DEF WriterDone
  <2>3. CASE ReaderDone
    BY <2>3 DEF ReaderDone
  <2> QED BY <1>6, <2>1, <2>2, <2>3
<1>7. CASE ReadBlock
  <2>1. /\ Head(stdout) \in Request \cup {Nobody} /\ Head(stdout) \in Result
        /\ Tail(stdout) \in Seq(Request \cup {Nobody})
    BY <1>7 DEF ReadBlock, Result
  <2>2. CASE pending = <<>>
    BY <1>7, <2>1, <2>2 DEF ReadBlock, resolve
  <2>3. CASE pending # <<>>
    <3>1. resolve(Head(stdout))
      BY <1>7 DEF ReadBlock
    <3>2. <<Head(stdout)>> \in Seq(Result)
      BY <2>1
    <3>3. /\ pending' \in Seq(Request) /\ acked' \in SUBSET Request
          /\ reply' \in [Request -> Seq(Result)]
      BY <2>1, <2>3, <3>1, <3>2, ResolveQueue, ZenonT(60)
    <3> QED BY <1>7, <2>1, <3>3 DEF ReadBlock
  <2> QED BY <2>2, <2>3
<1>8. CASE ReadEnd
  <2>1. /\ pending' = <<>> /\ acked' \in SUBSET Request
        /\ reply' \in [Request -> Seq(Result)]
    BY <1>8, FailQueue DEF ReadEnd
  <2> QED BY <1>8, <2>1 DEF ReadEnd
<1>9. CASE Close \/ ClosePipes \/ TmuxDies
  BY <1>9 DEF Close, ClosePipes, TmuxDies
<1>10. CASE Answer
  <2>1. /\ Head(stdin) \in Request /\ Tail(stdin) \in Seq(Request)
        /\ Append(stdout, Head(stdin)) \in Seq(Request \cup {Nobody})
    BY <1>10 DEF Answer
  <2> QED BY <1>10, <2>1 DEF Answer
<1>11. CASE AnswerNobody
  <2>1. Append(stdout, Nobody) \in Seq(Request \cup {Nobody})
    OBVIOUS
  <2> QED BY <1>11, <2>1, BoundAssumption DEF AnswerNobody
<1>12. CASE UNCHANGED vars
  BY <1>12 DEF vars
<1> QED BY <1>1, <1>2, <1>3, <1>4, <1>5, <1>6, <1>7, <1>8, <1>9, <1>10, <1>11, <1>12
        DEF Next, writerLoop, readerLoop

-----------------------------------------------------------------------------
(* One answer for each call.                                               *)

\* The steps that leave replies, queue, acks and writer alone.
LEMMA OnceSame ==
  ASSUME OnceInv, UNCHANGED <<reply, writer, pending, acked>>,
         \A r \in Request : call'[r] \in {"idle", "offer"} => call[r] \in {"idle", "offer"}
  PROVE  OnceInv'
BY DEF OnceInv, UntakenInv, TakenInv, PendingInv, AnsweredOnce, Pending

LEMMA OnceStep == TypeOK /\ OnceInv /\ [Next]_vars => OnceInv'
<1> SUFFICES ASSUME TypeOK, OnceInv, [Next]_vars PROVE OnceInv'
  OBVIOUS
<1>0. /\ call \in [Request -> {"idle", "offer", "await", "returned", "cancelled"}]
      /\ reply \in [Request -> Seq(Result)] /\ acked \in SUBSET Request
      /\ writer \in [pc : {"select", "push", "write", "ack", "exited"},
                      req : Request \cup {Nobody}]
  BY DEF TypeOK
<1>1. ASSUME NEW r \in Request, Run(r) \/ RunReplied(r) \/ RunCancelled(r) PROVE OnceInv'
  BY <1>0, <1>1, OnceSame DEF Run, RunReplied, RunCancelled, goroutines
<1>2. ASSUME NEW r \in Request, RunClosed(r) PROVE OnceInv'
  <2>1. ~Pending(r) /\ writer.req # r
    BY <1>2 DEF RunClosed, OnceInv, UntakenInv
  <2>2. UNCHANGED <<pending, acked, writer>> /\ \A q : Pending(q)' <=> Pending(q)
    BY <1>2 DEF RunClosed, goroutines, Pending
  <2>3. reply' = [reply EXCEPT ![r] = <<"closed">>] /\ Len(<<"closed">>) = 1
    BY <1>2 DEF RunClosed
  <2>4. call' = [call EXCEPT ![r] = "returned"]
    BY <1>2 DEF RunClosed
  <2> QED BY <1>0, <2>1, <2>2, <2>3, <2>4
          DEF OnceInv, UntakenInv, TakenInv, PendingInv, AnsweredOnce
<1>3. ASSUME NEW r \in Request, TakeRequest(r) PROVE OnceInv'
  <2>1. \A q : Pending(q)' <=> Pending(q)
    BY <1>3 DEF TakeRequest, Pending
  <2> QED BY <1>0, <1>3, <2>1
          DEF TakeRequest, OnceInv, UntakenInv, TakenInv, PendingInv, AnsweredOnce
<1>4. CASE Push
  <2>1. /\ writer.req \in Request /\ reply[writer.req] = <<>>
        /\ ~Pending(writer.req) /\ writer.req \notin acked
        /\ call[writer.req] \notin {"idle", "offer"}
    BY <1>4 DEF Push, OnceInv, TakenInv, UntakenInv
  <2>2. CASE closed
    <3>1. /\ reply' = [reply EXCEPT ![writer.req] = <<"closed">>]
          /\ writer' = [pc |-> "select", req |-> Nobody]
          /\ UNCHANGED <<call, pending, acked>>
      <4>1. Append(<<>>, "closed") = <<"closed">>
        OBVIOUS
      <4> QED BY <1>0, <1>4, <2>1, <2>2, <4>1 DEF Push
    <3>2. \A q : Pending(q)' <=> Pending(q)
      BY <3>1 DEF Pending
    <3>3. Len(<<"closed">>) = 1
      OBVIOUS
    <3> QED BY <1>0, <2>1, <3>1, <3>2, <3>3, NobodyAssumption
            DEF OnceInv, UntakenInv, TakenInv, PendingInv, AnsweredOnce
  <2>3. CASE ~closed
    <3>1. /\ pending' = Append(pending, writer.req)
          /\ writer' = [writer EXCEPT !.pc = "write"]
          /\ UNCHANGED <<call, reply, acked>>
      BY <1>4, <2>3 DEF Push
    <3>2. \A q : Pending(q)' <=> Pending(q) \/ q = writer.req
      BY <2>1, <3>1, PushQueue
    <3>3. \A i, j \in DOMAIN pending' : pending'[i] = pending'[j] => i = j
      BY <2>1, <3>1, PushQueue, SMTT(30) DEF OnceInv, PendingInv, Pending, TypeOK
    <3> QED BY <1>0, <2>1, <3>1, <3>2, <3>3
            DEF OnceInv, UntakenInv, TakenInv, PendingInv, AnsweredOnce
  <2> QED BY <2>2, <2>3
<1>5. CASE Write
  <2>1. writer' = [writer EXCEPT !.pc = "ack"] /\ UNCHANGED <<call, reply, pending, acked>>
    BY <1>5 DEF Write
  <2>2. \A q : Pending(q)' <=> Pending(q)
    BY <2>1 DEF Pending
  <2> QED BY <1>0, <1>5, <2>1, <2>2
          DEF Write, OnceInv, UntakenInv, TakenInv, PendingInv, AnsweredOnce
<1>6. CASE Acked \/ WriterDone
  <2>1. /\ UNCHANGED <<call, reply, pending, acked>>
        /\ writer'.pc \in {"select", "exited"} /\ writer'.req = Nobody
    BY <1>6 DEF Acked, WriterDone
  <2>2. \A q : Pending(q)' <=> Pending(q)
    BY <2>1 DEF Pending
  <2> QED BY <2>1, <2>2, NobodyAssumption
          DEF OnceInv, UntakenInv, TakenInv, PendingInv, AnsweredOnce
<1>7. CASE WriteFails \/ ReadEnd
  <2>1. failPending /\ UNCHANGED call
    BY <1>7 DEF WriteFails, ReadEnd
  <2>2. \/ UNCHANGED writer
        \/ writer'.pc = "exited" /\ writer'.req = Nobody
    BY <1>7 DEF WriteFails, ReadEnd
  <2>3. /\ pending' = <<>>
        /\ \A r \in Request :
             /\ reply'[r] = IF Pending(r) THEN <<"failed">> ELSE reply[r]
             /\ r \in acked' <=> r \in acked \/ Pending(r)
        /\ \A r : ~Pending(r)'
    BY <2>1, FailQueue DEF OnceInv
  <2>4. Len(<<"failed">>) = 1
    OBVIOUS
  <2>5. AnsweredOnce'
    <3>1. ASSUME NEW r \in Request PROVE Len(reply'[r]) <= 1
      <4>1. reply'[r] = <<"failed">> \/ reply'[r] = reply[r]
        BY <2>3
      <4>2. Len(reply[r]) <= 1
        BY DEF OnceInv, AnsweredOnce
      <4>3. Len(<<"failed">>) <= 1
        BY <2>4
      <4> QED BY <4>1, <4>2, <4>3, Zenon
    <3> QED BY <3>1 DEF AnsweredOnce
  <2>6. UntakenInv' /\ TakenInv'
    BY <2>1, <2>2, <2>3, NobodyAssumption DEF OnceInv, UntakenInv, TakenInv
  <2>7. PendingInv'
    BY <2>3 DEF PendingInv
  <2> QED BY <2>5, <2>6, <2>7 DEF OnceInv
<1>8. CASE ReadBlock
  <2>1. resolve(Head(stdout)) /\ UNCHANGED <<call, writer>> /\ Head(stdout) \in Result
    BY <1>8 DEF ReadBlock, TypeOK, Result
  <2>2. CASE pending = <<>>
    BY <2>1, <2>2, OnceSame DEF resolve
  <2>3. CASE pending # <<>>
    <3> DEFINE h == pending[1]
    <3>1. /\ h \in Request /\ pending' \in Seq(Request)
          /\ Len(pending') = Len(pending) - 1
          /\ \A i \in DOMAIN pending' : pending'[i] = pending[i + 1]
          /\ \A r \in Request : Pending(r)' <=> Pending(r) /\ r # h
          /\ reply' = [reply EXCEPT ![h] = <<Head(stdout)>>]
          /\ acked' = acked \cup {h}
      BY <2>1, <2>3, ResolveQueue DEF OnceInv
    <3>2. Pending(h) /\ pending \in Seq(Request)
      <4>1. pending \in Seq(Request) /\ 1 \in DOMAIN pending
        BY <2>3 DEF TypeOK
      <4> QED BY <4>1 DEF Pending
    <3>3. Len(<<Head(stdout)>>) = 1
      OBVIOUS
    <3> HIDE DEF h
    <3>4. AnsweredOnce'
      BY <1>0, <3>1, <3>3 DEF OnceInv, AnsweredOnce
    <3>5. UntakenInv' /\ TakenInv'
      BY <1>0, <2>1, <3>1, <3>2 DEF OnceInv, UntakenInv, TakenInv
    <3>6. \A i, j \in DOMAIN pending' : pending'[i] = pending'[j] => i = j
      BY <3>1, <3>2, SMTT(30) DEF OnceInv, PendingInv
    <3>7. PendingInv'
      BY <1>0, <3>1, <3>6 DEF OnceInv, PendingInv
    <3> QED BY <3>4, <3>5, <3>7 DEF OnceInv
  <2> QED BY <2>2, <2>3
<1>9. CASE ReaderDone \/ Close \/ ClosePipes \/ Answer \/ AnswerNobody \/ TmuxDies
  BY <1>9, OnceSame DEF ReaderDone, Close, ClosePipes, Answer, AnswerNobody, TmuxDies,
                        goroutines
<1>10. CASE UNCHANGED vars
  BY <1>10, OnceSame DEF vars
<1> QED BY <1>1, <1>2, <1>3, <1>4, <1>5, <1>6, <1>7, <1>8, <1>9, <1>10
        DEF Next, writerLoop, readerLoop

-----------------------------------------------------------------------------
(* Blocks and calls in step.                                               *)

LEMMA EndedStep == TypeOK /\ EndedInv /\ [Next]_vars => EndedInv'
<1> SUFFICES ASSUME TypeOK, EndedInv, [Next]_vars PROVE EndedInv'
  OBVIOUS
<1> USE DEF EndedInv, CanWrite, goroutines, tmux
<1>1. ASSUME NEW r \in Request,
             Run(r) \/ RunClosed(r) \/ RunReplied(r) \/ RunCancelled(r) \/ TakeRequest(r)
      PROVE  EndedInv'
  BY <1>1 DEF Run, RunClosed, RunReplied, RunCancelled, TakeRequest
<1>2. CASE Push \/ Write \/ WriteFails \/ Acked \/ WriterDone
  BY <1>2 DEF Push, Write, WriteFails, Acked, WriterDone
<1>3. CASE ReadBlock \/ ReadEnd \/ ReaderDone
  BY <1>3 DEF ReadBlock, ReadEnd, ReaderDone
<1>4. CASE Close \/ ClosePipes \/ Answer \/ AnswerNobody \/ TmuxDies
  BY <1>4 DEF Close, ClosePipes, Answer, AnswerNobody, TmuxDies, TypeOK
<1>5. CASE UNCHANGED vars
  BY <1>5 DEF vars
<1> QED BY <1>1, <1>2, <1>3, <1>4, <1>5 DEF Next, writerLoop, readerLoop

\* The steps that leave pipes, tmux, queue, acks, reader and writer alone.
LEMMA OrderSame ==
  ASSUME OrderInv, UNCHANGED <<writer, pending, acked, reader, stdin, stdout, unsolicited>>
  PROVE  OrderInv'
BY DEF OrderInv, Waits

\* The number of blocks that tmux printed of its own never falls.
LEMMA Unsolicited == TypeOK /\ [Next]_vars /\ unsolicited' = 0 => unsolicited = 0
BY DEF TypeOK, Next, writerLoop, readerLoop, vars, tmux, Run, RunClosed, RunReplied,
       RunCancelled, TakeRequest, Push, Write, WriteFails, Acked, WriterDone,
       ReadBlock, ReadEnd, ReaderDone, Close, ClosePipes, Answer, AnswerNobody, TmuxDies

LEMMA OrderStep == IInv /\ [Next]_vars => OrderInv'
<1> SUFFICES ASSUME IInv, [Next]_vars, unsolicited' = 0, unsolicited = 0
             PROVE  OrderInv'
  BY Unsolicited DEF OrderInv, IInv
<1>0. /\ writer \in [pc : {"select", "push", "write", "ack", "exited"},
                      req : Request \cup {Nobody}]
      /\ pending \in Seq(Request) /\ stdin \in Seq(Request)
      /\ stdout \in Seq(Request \cup {Nobody})
      /\ Len(stdin) \in Nat /\ Len(stdout) \in Nat
  BY DEF IInv, TypeOK
<1>1. ASSUME NEW r \in Request,
             Run(r) \/ RunClosed(r) \/ RunReplied(r) \/ RunCancelled(r)
      PROVE  OrderInv'
  BY <1>1, OrderSame
     DEF IInv, Run, RunClosed, RunReplied, RunCancelled, goroutines, tmux
<1>2. ASSUME NEW r \in Request, TakeRequest(r) PROVE OrderInv'
  BY <1>0, <1>2 DEF IInv, OrderInv, Waits, TakeRequest, tmux
<1>3. CASE Push
  <2>1. /\ UNCHANGED <<acked, reader, stdin, stdout>> /\ writer.pc = "push"
        /\ ~Waits /\ ~Waits'
    <3>1. writer'.pc \in {"select", "write"}
      BY <1>0, <1>3 DEF Push
    <3> QED BY <1>3, <3>1 DEF Push, tmux, Waits
  <2>2. CASE reader # "scan"
    BY <2>1, <2>2 DEF IInv, OrderInv
  <2>3. CASE reader = "scan"
    <3>1. /\ Len(stdin) + Len(stdout) = 0 /\ pending = <<>>
          /\ DOMAIN stdin = {} /\ DOMAIN stdout = {}
      BY <1>0, <2>1, <2>3 DEF IInv, OrderInv
    <3>2. \/ writer'.pc = "select" /\ pending' = <<>>
          \/ writer'.pc = "write" /\ pending' = <<writer'.req>>
      BY <1>0, <1>3, <3>1 DEF Push
    <3> QED BY <2>1, <3>1, <3>2 DEF OrderInv
  <2> QED BY <2>2, <2>3
<1>4. CASE Write
  <2>1. reader = "scan"
    BY <1>4 DEF Write, IInv, EndedInv
  <2>2. /\ Len(stdin) + Len(stdout) = 0 /\ pending = <<writer.req>>
        /\ DOMAIN stdout = {} /\ stdin = <<>>
    BY <1>0, <1>4, <2>1 DEF IInv, OrderInv, Write, Waits
  <2>3. writer.req \in Request /\ Pending(writer.req)
    <3>1. 1 \in DOMAIN pending /\ pending[1] = writer.req
      BY <2>2
    <3> QED BY <1>0, <3>1 DEF Pending
  <2>4. writer.req \notin acked
    BY <2>3 DEF IInv, OnceInv, PendingInv
  <2>5. /\ UNCHANGED <<pending, acked, reader, stdout>>
        /\ writer'.pc = "ack" /\ writer'.req = writer.req
        /\ stdin' = <<writer.req>>
    BY <1>0, <1>4, <2>2 DEF Write
  <2>6. Len(stdin') = 1 /\ \A i \in DOMAIN stdin' : stdin'[i] = writer.req
    BY <2>5
  <2>7. Len(stdout) = 0
    BY <1>0, <2>2
  <2> QED BY <2>2, <2>4, <2>5, <2>6, <2>7 DEF OrderInv, Waits
<1>5. CASE WriteFails
  BY <1>0, <1>5 DEF IInv, OrderInv, Waits, WriteFails, failPending, tmux
<1>6. CASE Acked \/ WriterDone
  BY <1>0, <1>6 DEF IInv, OrderInv, EndedInv, Waits, Acked, WriterDone, tmux
<1>7. CASE ReadBlock
  BY <1>0, <1>7 DEF IInv, OrderInv, Waits, ReadBlock, resolve
<1>8. CASE ReadEnd \/ ReaderDone
  BY <1>0, <1>8 DEF IInv, OrderInv, Waits, ReadEnd, ReaderDone, tmux
<1>9. CASE Answer
  BY <1>0, <1>9 DEF IInv, OrderInv, Waits, Answer, goroutines
<1>10. CASE Close \/ ClosePipes \/ TmuxDies
  BY <1>10, OrderSame DEF IInv, Close, ClosePipes, TmuxDies, goroutines, tmux
<1>11. CASE AnswerNobody
  BY <1>11 DEF AnswerNobody, IInv, TypeOK
<1>12. CASE UNCHANGED vars
  BY <1>12, OrderSame DEF IInv, vars
<1> QED BY <1>1, <1>2, <1>3, <1>4, <1>5, <1>6, <1>7, <1>8, <1>9, <1>10, <1>11, <1>12
        DEF Next, writerLoop, readerLoop

-----------------------------------------------------------------------------
(* Each call gets the block of its own command.                            *)

LEMMA OwnReplyStep == IInv /\ [Next]_vars => OwnReply'
<1> SUFFICES ASSUME IInv, [Next]_vars, unsolicited' = 0, unsolicited = 0, Correlated
             PROVE  Correlated'
  BY Unsolicited DEF OwnReply, IInv
<1>0. /\ reply \in [Request -> Seq(Result)] /\ pending \in Seq(Request)
      /\ stdout \in Seq(Request \cup {Nobody})
  BY DEF IInv, TypeOK
\* Whatever is sent is a call's own block or an error.
<1>1. ASSUME NEW q \in Request, NEW b \in {q, "failed", "closed"},
             reply' = [reply EXCEPT ![q] = <<b>>]
      PROVE  Correlated'
  <2>1. DOMAIN <<b>> = {1} /\ <<b>>[1] = b
    OBVIOUS
  <2> QED BY <1>0, <1>1, <2>1 DEF Correlated
<1>2. ASSUME failPending PROVE Correlated'
  <2>1. \A r \in Request : reply'[r] = <<"failed">> \/ reply'[r] = reply[r]
    BY <1>2, FailQueue DEF IInv, OnceInv
  <2>2. DOMAIN <<"failed">> = {1} /\ <<"failed">>[1] = "failed"
    OBVIOUS
  <2> QED BY <2>1, <2>2 DEF Correlated
<1>3. ASSUME UNCHANGED reply PROVE Correlated'
  BY <1>3 DEF Correlated
<1>4. ASSUME NEW r \in Request, RunClosed(r) PROVE Correlated'
  BY <1>1, <1>4 DEF RunClosed
<1>5. CASE Push
  <2>1. writer.req \in Request /\ reply[writer.req] = <<>>
    BY <1>5 DEF Push, IInv, OnceInv, TakenInv
  <2>2. Append(<<>>, "closed") = <<"closed">>
    OBVIOUS
  <2>3. \/ reply' = [reply EXCEPT ![writer.req] = <<"closed">>]
        \/ UNCHANGED reply
    BY <1>0, <1>5, <2>1, <2>2 DEF Push
  <2> QED BY <1>1, <1>3, <2>1, <2>3
<1>6. CASE ReadBlock
  <2>1. CASE pending = <<>>
    BY <1>3, <1>6, <2>1 DEF ReadBlock, resolve
  <2>2. CASE pending # <<>>
    <3>1. /\ pending = <<writer.req>> /\ Head(stdout) = writer.req
      BY <1>0, <1>6, <2>2 DEF ReadBlock, IInv, OrderInv
    <3>2. /\ pending[1] \in Request
          /\ reply' = [reply EXCEPT ![pending[1]] = <<Head(stdout)>>]
      <4>1. Head(stdout) \in Result /\ resolve(Head(stdout))
        BY <1>0, <1>6 DEF ReadBlock, Result
      <4> QED BY <2>2, <4>1, ResolveQueue DEF IInv, OnceInv
    <3>3. pending[1] = writer.req
      BY <3>1
    <3> QED BY <1>1, <3>1, <3>2, <3>3
  <2> QED BY <2>1, <2>2
<1>7. CASE WriteFails \/ ReadEnd
  BY <1>2, <1>7 DEF WriteFails, ReadEnd
<1>8. ASSUME NEW r \in Request,
             Run(r) \/ RunReplied(r) \/ RunCancelled(r) \/ TakeRequest(r)
      PROVE  Correlated'
  BY <1>3, <1>8 DEF Run, RunReplied, RunCancelled, TakeRequest
<1>9. CASE \/ Write \/ Acked \/ WriterDone \/ ReaderDone \/ Close \/ ClosePipes
           \/ Answer \/ AnswerNobody \/ TmuxDies
  BY <1>3, <1>9 DEF Write, Acked, WriterDone, ReaderDone, Close, ClosePipes, Answer,
                    AnswerNobody, TmuxDies
<1>10. CASE UNCHANGED vars
  BY <1>3, <1>10 DEF vars
<1> QED BY <1>4, <1>5, <1>6, <1>7, <1>8, <1>9, <1>10 DEF Next, writerLoop, readerLoop

-----------------------------------------------------------------------------
(* The theorems.                                                           *)

LEMMA InitInv == Init => IInv
<1> SUFFICES ASSUME Init PROVE IInv
  OBVIOUS
<1>1. TypeOK
  BY InitType
<1>2. OnceInv
  BY NobodyAssumption DEF Init, OnceInv, UntakenInv, TakenInv, PendingInv, AnsweredOnce, Pending
<1>3. EndedInv
  BY DEF Init, EndedInv
<1>4. OrderInv
  BY DEF Init, OrderInv, Waits
<1>5. OwnReply
  BY DEF Init, OwnReply, Correlated
<1> QED BY <1>1, <1>2, <1>3, <1>4, <1>5 DEF IInv

LEMMA Invariance == Spec => []IInv
<1>1. IInv /\ [Next]_vars => IInv'
  BY TypeStep, OnceStep, EndedStep, OrderStep, OwnReplyStep DEF IInv, OnceInv
<1> QED BY InitInv, <1>1, PTL DEF Spec

\* The state of the client is of the type it is declared with.
THEOREM Typing == Spec => []TypeOK
BY Invariance, PTL DEF IInv

\* No call of Run is answered twice: neither goroutine ever sends on a reply
\* channel that is full (client.go, writerLoop, failPending and resolve).
THEOREM AtMostOneAnswer == Spec => []AnsweredOnce
<1>1. IInv => AnsweredOnce
  BY DEF IInv, OnceInv
<1> QED BY Invariance, <1>1, PTL

\* As long as tmux prints no block of its own, a call of Run returns the block
\* of its own command or an error, although blocks are matched by order alone.
THEOREM OwnAnswer == Spec => []OwnReply
BY Invariance, PTL DEF IInv

\* As long as tmux prints no block of its own, at most one command is in tmux.
THEOREM OneCommandAtATime == Spec => []NoPipelining
<1>1. IInv => NoPipelining
  BY DEF IInv, OrderInv, NoPipelining
<1> QED BY Invariance, <1>1, PTL
=============================================================================
