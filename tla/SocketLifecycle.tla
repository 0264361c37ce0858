--------------------------- MODULE SocketLifecycle ---------------------------
(***************************************************************************)
(* Daemons that come and go at one socket path: `mure up` (cmd/mure/up.go), *)
(* Listen, Run and Shutdown of the server (internal/daemon/server.go).     *)
(* There is no lock: whether a daemon runs is found out by a ping, and a   *)
(* path whose owner does not answer in time is unlinked.                   *)
(*                                                                         *)
(* A step is a system call on the path or on the listening socket, or a    *)
(* ping.  A Go listener unlinks its path when it is closed, whatever the   *)
(* path names by then.                                                     *)
(***************************************************************************)
EXTENDS FiniteSets, Naturals

CONSTANTS Daemon,   \* processes that `mure up` starts, each once
          NoSocket  \* the path does not exist

ASSUME NoSocketAssumption == NoSocket \notin Daemon

VARIABLES path,    \* whose socket the path names
          pc,      \* what each process does next
          alone,   \* history: since this process started nobody else has moved
          orderly, \* history: no process began to start or stop while another did
          unheard  \* history: who went on because a daemon that serves did not
                   \* answer in time

socketVars == <<path, pc, alone, orderly, unheard>>

Starting == {"up", "bind", "ping", "unlink", "rebind", "listen", "chmod", "abort"}
Stopping == {"unlinked", "closed"}
Ended    == {"refused", "failed", "exited"}

Moving(d) == pc[d] \in Starting \cup Stopping
Serves(d) == pc[d] = "serving"

SocketInit ==
  /\ path = NoSocket
  /\ pc = [d \in Daemon |-> "off"]
  /\ alone = {}
  /\ orderly = TRUE
  /\ unheard = {}

\* d goes on to next, and nobody else can say any more that he moves alone.
Step(d, from, next) ==
  /\ pc[d] = from
  /\ pc' = [pc EXCEPT ![d] = next]
  /\ alone' = alone \cap {d}

Keeps(d, from, next) == Step(d, from, next) /\ UNCHANGED <<path, orderly, unheard>>

\* A process starts or stops: in good order only when no other one does.
Overlap == orderly' = (orderly /\ \A e \in Daemon : ~Moving(e))

-----------------------------------------------------------------------------
Up(d) ==
  /\ pc[d] = "off"
  /\ pc' = [pc EXCEPT ![d] = "up"]
  /\ alone' = IF \E e \in Daemon : Moving(e) THEN {} ELSE {d}
  /\ Overlap
  /\ UNCHANGED <<path, unheard>>

\* pingDaemon, pingSocket: somebody accepts and sends the roster.  The owner of
\* the path can do so once its accept loop runs; before that, and when it has
\* died, the dial is refused or the answer times out.
Answers == path # NoSocket /\ Serves(path)

\* cmdUp: already running, or fork the daemon.  A ping that could be answered may
\* fail all the same: the daemon is slower than the timeout, or its roster is too
\* long for a frame.
PingUp(d) ==
  \/ Answers /\ Keeps(d, "up", "refused")
  \/ Keeps(d, "up", "bind")

\* net.Listen is bind, which creates the path or finds it in use, and listen.
BindFree(d, from) ==
  /\ path = NoSocket
  /\ Step(d, from, "listen")
  /\ path' = d
  /\ UNCHANGED <<orderly, unheard>>

BindInUse(d, from, next) == path # NoSocket /\ Keeps(d, from, next)

Bind(d) == BindFree(d, "bind") \/ BindInUse(d, "bind", "ping")

\* Mutants: a path in use is taken for that of a daemon; it is unlinked without
\* a ping.
PingTrusts(d) == Keeps(d, "ping", "refused")
PingSkipped(d) == Keeps(d, "ping", "unlink")

\* The ping is answered, or it fails as that of PingUp may.
Ping(d) ==
  \/ Answers /\ Keeps(d, "ping", "refused")
  \/ /\ Step(d, "ping", "unlink")
     /\ unheard' = IF Answers THEN unheard \cup {d} ELSE unheard
     /\ UNCHANGED <<path, orderly>>

Unlink(d, from, next) ==
  /\ Step(d, from, next)
  /\ path' = NoSocket
  /\ UNCHANGED <<orderly, unheard>>

Rebind(d) == BindFree(d, "rebind") \/ BindInUse(d, "rebind", "failed")

ListenOn(d) == Keeps(d, "listen", "chmod")

\* chmod fails when the path has gone; the listener is closed then.
Chmod(d) == Keeps(d, "chmod", IF path = NoSocket THEN "abort" ELSE "serving")

Listen(d) ==
  \/ Bind(d)
  \/ Ping(d)
  \/ Unlink(d, "unlink", "rebind")
  \/ Rebind(d)
  \/ ListenOn(d)
  \/ Chmod(d)
  \/ Unlink(d, "abort", "failed")

\* Shutdown: closing the listener unlinks the path and then closes the socket.
Shutdown(d) ==
  /\ Step(d, "serving", "unlinked")
  /\ path' = NoSocket
  /\ Overlap
  /\ UNCHANGED unheard

CloseSocket(d) == Keeps(d, "unlinked", "closed")

\* The accept loop ends; Run's defer removes the path once more.
Cleanup(d) == Unlink(d, "closed", "exited")

\* The process is killed and leaves the path behind.
Crash(d) == \E from \in Starting \cup Stopping \cup {"serving"} : Keeps(d, from, "exited")

-----------------------------------------------------------------------------
SocketNext ==
  \E d \in Daemon :
    \/ Up(d) \/ PingUp(d) \/ Listen(d)
    \/ Shutdown(d) \/ CloseSocket(d) \/ Cleanup(d)
    \/ Crash(d)

SocketSpec == SocketInit /\ [][SocketNext]_socketVars

-----------------------------------------------------------------------------
TypeOK ==
  /\ path \in Daemon \cup {NoSocket}
  /\ pc \in [Daemon -> {"off", "serving"} \cup Starting \cup Stopping \cup Ended]
  /\ alone \in SUBSET Daemon
  /\ orderly \in BOOLEAN
  /\ unheard \in SUBSET Daemon

\* Whatever an earlier race or crash has left behind, a start that is left
\* alone heals it: when it has ended, the path names a daemon that serves.
\* (A start that crashes itself heals nothing.)
Heals ==
  \A d \in Daemon :
    d \in alone /\ pc[d] \in {"refused", "failed", "serving"} => Answers

\* Daemons that serve and cannot be reached.
Stranded == {d \in Daemon : Serves(d) /\ path # d}

\* As long as starts and stops of daemons do not overlap (crashes may fall
\* anywhere), there is at most one stranded daemon for each start that went on
\* because a daemon which served did not answer its ping: none, and hence a
\* single daemon that can be reached, while daemons answer in time.
OrderlyExclusive == orderly => Cardinality(Stranded) <= Cardinality(unheard)

\* What the PRD says of `mure down`: the daemon unlinks its socket; not that of
\* another daemon.
OwnCleanup == [][\A d \in Daemon : Cleanup(d) => path \in {d, NoSocket}]_socketVars
=============================================================================
