------------------------------ MODULE TmuxControl ------------------------------
(***************************************************************************)
(* The tmux control-mode client (internal/tmuxctl/client.go): callers of   *)
(* Run, the writer goroutine, the reader goroutine, Close, and the tmux    *)
(* process between the two pipes.                                          *)
(*                                                                         *)
(* A request is one call of Run.  Of a reply block only whose command it   *)
(* answers is kept: the client does not look at the numbers of the blocks. *)
(* Asynchronous notifications are put into a channel that nobody has to    *)
(* read, without blocking, and are left out.  Output lines are taken to    *)
(* fit into the scanner's buffer, so that the reader stops only at the end *)
(* of the output.                                                          *)
(***************************************************************************)
EXTENDS Naturals, Sequences

CONSTANTS Request,       \* calls of Run
          Nobody,        \* the command of a block that answers no request
          MaxUnsolicited \* bound: such blocks (one answers `attach` itself)

ASSUME NobodyAssumption == Nobody \notin Request
ASSUME BoundAssumption  == MaxUnsolicited \in Nat

VARIABLES call,    \* the callers of Run
          reply,   \* the reply channel of each call, with all that was sent on it
          writer,  \* the writer goroutine and the request it works on
          pending, \* the requests that wait for a block
          acked,   \* the requests whose ack is closed
          reader,  \* the reader goroutine
          done,    \* the done channel is closed
          closed,  \* Close has been called
          pipes,   \* closed by Close
          alive,   \* the tmux process runs
          stdin,   \* commands tmux has not executed yet
          stdout,  \* blocks the reader has not read yet
          unsolicited

goroutines == <<writer, pending, acked, reader, done>>
tmux       == <<alive, stdin, stdout, unsolicited>>
vars       == <<call, reply, writer, pending, acked, reader, done,
                closed, pipes, alive, stdin, stdout, unsolicited>>

Result == Request \cup {Nobody, "failed", "closed"}

Init ==
  /\ call = [r \in Request |-> "idle"]
  /\ reply = [r \in Request |-> <<>>]
  /\ writer = [pc |-> "select", req |-> Nobody]
  /\ pending = <<>>
  /\ acked = {}
  /\ reader = "scan"
  /\ done = FALSE
  /\ closed = FALSE
  /\ pipes = "open"
  /\ alive = TRUE
  /\ stdin = <<>>
  /\ stdout = <<>>
  /\ unsolicited = 0

-----------------------------------------------------------------------------
(* Run.  Its reply channel holds one result; a second send would block.    *)

Run(r) ==
  /\ call[r] = "idle"
  /\ call' = [call EXCEPT ![r] = "offer"]
  /\ UNCHANGED <<reply, goroutines, closed, pipes, tmux>>

\* The reader has exited before the writer took the request: ErrClosed.
RunClosed(r) ==
  /\ call[r] = "offer"
  /\ done
  /\ call' = [call EXCEPT ![r] = "returned"]
  /\ reply' = [reply EXCEPT ![r] = <<"closed">>]
  /\ UNCHANGED <<goroutines, closed, pipes, tmux>>

RunReplied(r) ==
  /\ call[r] = "await"
  /\ reply[r] # <<>>
  /\ call' = [call EXCEPT ![r] = "returned"]
  /\ UNCHANGED <<reply, goroutines, closed, pipes, tmux>>

\* Mutant: a caller that gives up takes its entry out of the queue.
RunCancelledRemoves(r) ==
  LET Other(p) == p # r
  IN  /\ call[r] \in {"offer", "await"}
      /\ call' = [call EXCEPT ![r] = "cancelled"]
      /\ pending' = SelectSeq(pending, Other)
      /\ acked' = acked \cup {r}
      /\ UNCHANGED <<reply, writer, reader, done, closed, pipes, tmux>>

\* The caller's context is cancelled.
RunCancelled(r) ==
  /\ call[r] \in {"offer", "await"}
  /\ call' = [call EXCEPT ![r] = "cancelled"]
  /\ UNCHANGED <<reply, goroutines, closed, pipes, tmux>>

-----------------------------------------------------------------------------
(* writerLoop.                                                             *)

\* The rendezvous on reqCh, which select may prefer to a closed done channel.
TakeRequest(r) ==
  /\ writer.pc = "select"
  /\ call[r] = "offer"
  /\ call' = [call EXCEPT ![r] = "await"]
  /\ writer' = [pc |-> "push", req |-> r]
  /\ UNCHANGED <<reply, pending, acked, reader, done, closed, pipes, tmux>>

Push ==
  /\ writer.pc = "push"
  /\ IF closed
       THEN /\ reply' = [reply EXCEPT ![writer.req] = Append(@, "closed")]
            /\ writer' = [pc |-> "select", req |-> Nobody]
            /\ UNCHANGED pending
       ELSE /\ pending' = Append(pending, writer.req)
            /\ writer' = [writer EXCEPT !.pc = "write"]
            /\ UNCHANGED reply
  /\ UNCHANGED <<call, acked, reader, done, closed, pipes, tmux>>

\* Every pending request gets an error and its ack.
failPending ==
  LET failed == {pending[i] : i \in DOMAIN pending}
  IN  /\ reply' = [r \in Request |->
                     IF r \in failed THEN Append(reply[r], "failed") ELSE reply[r]]
      /\ acked' = acked \cup failed
      /\ pending' = <<>>

CanWrite == alive /\ pipes = "open"

\* Mutant: the writer does not wait for the reply.
WritePipelined ==
  /\ writer.pc = "write"
  /\ CanWrite
  /\ stdin' = Append(stdin, writer.req)
  /\ writer' = [pc |-> "select", req |-> Nobody]
  /\ UNCHANGED <<call, reply, pending, acked, reader, done, closed, pipes,
                 alive, stdout, unsolicited>>

Write ==
  /\ writer.pc = "write"
  /\ CanWrite
  /\ stdin' = Append(stdin, writer.req)
  /\ writer' = [writer EXCEPT !.pc = "ack"]
  /\ UNCHANGED <<call, reply, pending, acked, reader, done, closed, pipes,
                 alive, stdout, unsolicited>>

\* Mutant: a failed write ends the writer and leaves the caller pending.
WriteFailsSilently ==
  /\ writer.pc = "write"
  /\ ~CanWrite
  /\ pending' = <<>>
  /\ writer' = [pc |-> "exited", req |-> Nobody]
  /\ UNCHANGED <<call, reply, acked, reader, done, closed, pipes, tmux>>

WriteFails ==
  /\ writer.pc = "write"
  /\ ~CanWrite
  /\ failPending
  /\ writer' = [pc |-> "exited", req |-> Nobody]
  /\ UNCHANGED <<call, reader, done, closed, pipes, tmux>>

Acked ==
  /\ writer.pc = "ack"
  /\ writer.req \in acked
  /\ writer' = [pc |-> "select", req |-> Nobody]
  /\ UNCHANGED <<call, reply, pending, acked, reader, done, closed, pipes, tmux>>

WriterDone ==
  /\ writer.pc \in {"select", "ack"}
  /\ done
  /\ writer' = [pc |-> "exited", req |-> Nobody]
  /\ UNCHANGED <<call, reply, pending, acked, reader, done, closed, pipes, tmux>>

writerLoop ==
  \/ \E r \in Request : TakeRequest(r)
  \/ Push \/ Write \/ WriteFails \/ Acked \/ WriterDone

-----------------------------------------------------------------------------
(* readerLoop.                                                             *)

\* Mutant: the entry that was answered stays at the head of the queue.
resolveKept(b) ==
  IF pending = <<>> THEN UNCHANGED <<reply, pending, acked>>
  ELSE /\ reply' = [reply EXCEPT ![Head(pending)] = Append(@, b)]
       /\ acked' = acked \cup {Head(pending)}
       /\ UNCHANGED pending

\* The first pending request gets the block, whatever the block's number; a
\* block that nobody waits for is dropped.
resolve(b) ==
  IF pending = <<>> THEN UNCHANGED <<reply, pending, acked>>
  ELSE /\ reply' = [reply EXCEPT ![Head(pending)] = Append(@, b)]
       /\ acked' = acked \cup {Head(pending)}
       /\ pending' = Tail(pending)

ReadBlock ==
  /\ reader = "scan"
  /\ pipes = "open"
  /\ stdout # <<>>
  /\ resolve(Head(stdout))
  /\ stdout' = Tail(stdout)
  /\ UNCHANGED <<call, writer, reader, done, closed, pipes, alive, stdin, unsolicited>>

ReadEnd ==
  /\ reader = "scan"
  /\ pipes = "closed" \/ (~alive /\ stdout = <<>>)
  /\ failPending
  /\ reader' = "ended"
  /\ UNCHANGED <<call, writer, done, closed, pipes, tmux>>

\* Mutant: the reader returns without closing done.
ReaderDoneForgotten ==
  /\ reader = "ended"
  /\ reader' = "exited"
  /\ UNCHANGED <<call, reply, writer, pending, acked, done, closed, pipes, tmux>>

\* The defers: done is closed.
ReaderDone ==
  /\ reader = "ended"
  /\ reader' = "exited"
  /\ done' = TRUE
  /\ UNCHANGED <<call, reply, writer, pending, acked, closed, pipes, tmux>>

readerLoop == ReadBlock \/ ReadEnd \/ ReaderDone

-----------------------------------------------------------------------------
(* Close, and tmux.                                                        *)

Close ==
  /\ ~closed
  /\ closed' = TRUE
  /\ UNCHANGED <<call, reply, goroutines, pipes, tmux>>

\* The rest of Close: the pipes are closed, the process is killed.
ClosePipes ==
  /\ closed /\ pipes = "open"
  /\ pipes' = "closed"
  /\ alive' = FALSE
  /\ UNCHANGED <<call, reply, goroutines, closed, stdin, stdout, unsolicited>>

Answer ==
  /\ alive
  /\ stdin # <<>>
  /\ stdout' = Append(stdout, Head(stdin))
  /\ stdin' = Tail(stdin)
  /\ UNCHANGED <<call, reply, goroutines, closed, pipes, alive, unsolicited>>

\* A block for a command that did not come through stdin.
AnswerNobody ==
  /\ alive
  /\ unsolicited < MaxUnsolicited
  /\ unsolicited' = unsolicited + 1
  /\ stdout' = Append(stdout, Nobody)
  /\ UNCHANGED <<call, reply, goroutines, closed, pipes, alive, stdin>>

TmuxDies ==
  /\ alive
  /\ alive' = FALSE
  /\ UNCHANGED <<call, reply, goroutines, closed, pipes, stdin, stdout, unsolicited>>

-----------------------------------------------------------------------------
Next ==
  \/ \E r \in Request : Run(r) \/ RunClosed(r) \/ RunReplied(r) \/ RunCancelled(r)
  \/ writerLoop \/ readerLoop
  \/ Close \/ ClosePipes
  \/ Answer \/ AnswerNobody \/ TmuxDies

Spec == Init /\ [][Next]_vars

\* The goroutines run, and a tmux that lives answers.  No context is obliged to
\* be cancelled, and nobody to call Close.
Fairness ==
  /\ WF_vars(writerLoop) /\ WF_vars(readerLoop)
  /\ \A r \in Request : WF_vars(RunClosed(r)) /\ WF_vars(RunReplied(r))
  /\ WF_vars(ClosePipes)
  /\ WF_vars(Answer)

FairSpec == Spec /\ Fairness

-----------------------------------------------------------------------------
TypeOK ==
  /\ call \in [Request -> {"idle", "offer", "await", "returned", "cancelled"}]
  /\ reply \in [Request -> Seq(Result)]
  /\ writer \in [pc : {"select", "push", "write", "ack", "exited"},
                 req : Request \cup {Nobody}]
  /\ pending \in Seq(Request)
  /\ acked \in SUBSET Request
  /\ reader \in {"scan", "ended", "exited"}
  /\ done \in BOOLEAN /\ closed \in BOOLEAN /\ alive \in BOOLEAN
  /\ pipes \in {"open", "closed"}
  /\ stdin \in Seq(Request)
  /\ stdout \in Seq(Request \cup {Nobody})
  /\ unsolicited \in 0 .. MaxUnsolicited

\* No send on a reply channel ever blocks (it would, in the reader, with the
\* mutex held or the whole client behind it): each call is answered at most
\* once, by whichever of the two goroutines comes first.
AnsweredOnce == \A r \in Request : Len(reply[r]) <= 1

\* What a call of Run returns is the block of its own command, or an error.
Correlated ==
  \A r \in Request : \A i \in DOMAIN reply[r] : reply[r][i] \in {r, "failed", "closed"}

\* Until tmux prints a block that nobody asked for, order is enough to match
\* blocks with calls: each call returns its own block or an error, also when
\* other calls give up, fail or are closed under it.  A real attach prints such a
\* block at once, so that this is what the client owes to its own bookkeeping, and
\* not yet what its users may rely on.
OwnReply == unsolicited = 0 => Correlated

\* Until then commands are not pipelined either: at most one is in tmux, not
\* executed or with its block unread, also when callers give up and others come.
\* The scope is that of OwnReply.
NoPipelining ==
  unsolicited = 0 => Len(stdin) + Len(stdout) <= 1

\* Every call of Run returns, whether tmux answers, dies or is closed.
RunReturns == \A r \in Request : call[r] = "offer" ~> call[r] \in {"returned", "cancelled"}

\* Close, which waits for both goroutines, returns.
CloseReturns == closed ~> (reader = "exited" /\ writer.pc = "exited")
=============================================================================
