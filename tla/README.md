# A TLA+ verification of mure

mure runs coding agents in tmux panes. A daemon keeps a *roster* of the agents,
fed by frames that the agents send over a Unix socket; sidebars show the roster,
`mure wait` blocks until an agent has a result, and a bridge polls tmux to remove
agents whose pane is gone. This directory holds TLA+ models of that program, the
TLC configurations that check them, and TLAPS proofs of all they say but for liveness. Every
definition is translated from `src/`; `PROJECT.json` maps each one to its lines.

## 1. The system

| component | code | state | operations |
|---|---|---|---|
| roster | `internal/daemon/roster.go` | map of agents, launch dir, subscribers; request channel of 64, `quit`, `done` | `UpsertFromHello`, `UpdateIdentityIfPresent`, `ApplyStatus`, `ApplyResult`, `Remove`, `Snapshot`, `SetLaunchDir`, `Subscribe`/cancel, `Close` |
| agent connections | `internal/daemon/server.go` (`handle`, `handleAgent`), client `cmd/mure/emit.go` | one goroutine per connection | hello, status, result, bye, end of stream; owned and oneshot connections |
| tmux bridge | `internal/daemon/tmuxbridge.go` | last pane list | tick: `list-panes`, snapshot, remove |
| sidebar feed | `server.go` (`handleSidebar`), `internal/sidebar/client.go` | subscriber, socket, client channel | snapshot, subscribe, updates; dial, read, reconnect |
| sidebar model | `internal/sidebar/model.go` (`Update`) | list of rows, selection, spinner, theme picker | `applyFrame`, keys, tick |
| layout | `internal/sidebar/model.go` (`View`, `layoutDrop`), `brand.go` | size of the terminal, details unfolded | resize, draw |
| wait | `server.go` (`handleWait`), `cmd/mure/wait.go` | subscriber | subscribe, check the snapshot, wait for an update |
| socket lifecycle | `server.go` (`Listen`, `Run`, `Shutdown`), `cmd/mure/up.go` | the path and who listens behind it | ping, bind, unlink, bind again, close, cleanup |
| tmux control client | `internal/tmuxctl/client.go` | request channel, pending calls, two goroutines, two pipes | `Run`, writer, reader, `Close` |
| daemon assembly | `internal/daemon/daemon.go` | the parts above | start and stop, in order |
| wire framing | `internal/sock/frame.go` | none | `ReadFrame`, `WriteFrame`, 64 KiB limit |
| spawn | `cmd/mure/spawn.go`, `spawn_target.go` | tmux windows and panes | find or create the subagents window, split, tag |
| harness installation | `internal/harnesses/` | files and receipts | plan, apply, uninstall, markers |
| logger | `internal/daemon/log.go` | open file and its size | write, rotate |
| the rest | `ls`, `focus`, `down`, `doctor`, peer auth, paths, manifests, themes, the plugins' scripts | none or external | one request each, or pure functions |

### How the parts interact

```
 agents --frames--> handle (one goroutine per connection) --.
 tmux <--list-panes-- bridge ------------------------------+--> reqs --> run (roster)
   ^                                                       |               |
   |                              handleWait, handleSidebar-'        broadcast to
 tmuxctl client                          ^                        subscriber channels
 (writer, reader)                        |                               |
                              sidebar client <--socket-- handleSidebar <-'
                                         |
                                   sidebar model
```

The roster is one goroutine. Everything else talks to it with closures over a
buffered channel, some of which are waited for, and listens to it through
bounded subscriber channels that are *closed* when they overflow. All the rest
is one goroutine per connection.

### What is hard

* Three pieces of code close a subscriber's channel (overflow, cancel, the end of
  the goroutine), two send on it; a second close or a late send is a panic of the
  whole daemon.
* Nothing is persisted and nothing is retransmitted: a sidebar's picture of the
  roster is a snapshot plus all updates since. An update skipped, applied twice
  or applied before the snapshot leaves it wrong until the agent changes again.
* A handler works on the roster by several requests, between which other handlers
  and the bridge work on it too.
* Agents come over many connections, in a row and at the same time, and their
  ends are seen late. Emitters may send frames of an agent that has gone.
* There is no lock file: a second daemon is prevented by a ping only.
* tmux replies carry no name of the call they answer: order is all there is.
* `mure spawn` asks tmux five times; other spawns, the user and failures come in between.
* Installing writes several files that are partly the user's, without a transaction,
  and records what it did at the end. Uninstalling trusts that record.
* The layout chooses cards or lines, drops parts, clips rows and inserts details by
  four sums that have to agree.

`PROJECT.json` lists these hazards one by one, at their lines, with the
properties that cover them.

### What makes each part correct

| part | properties |
|---|---|
| roster | no panic; every feed gap free up to its close; the last update of an agent is its state; an unserved channel is closed; every call gets one reply; linearizable; calls and Close return |
| agent connections, bridge | only owners and the bridge remove; every entry has somebody who will remove it, unless an emit named no pane; dead agents leave for good; statuses in order; reconnecting agents stay |
| sidebar feed | what is shown once all is read is the roster; catches up after overflow and crash; the daemon forgets closed sidebars |
| sidebar model | one row per agent, in order, with its state; the selection on a row and not moved by a status; one chain of ticks while somebody works; leaving the picker restores the theme |
| layout | as high as the terminal; the selected agent and its details visible; more room never shows less |
| wait | no result lost; no stale answer; released by a result; released by the end of the agent |
| socket | if starts and stops do not overlap, no daemon is stranded but by a ping that a live one left unanswered; an undisturbed start repairs the path |
| tmux client | own reply or error; one command at a time; answered once; calls and Close return |
| spawn | agents gather in one window; no window of the user is split |
| harness installation | the user's lines stay; a successful installation repairs what failed ones left; no text without a receipt |

## 2. Modules

| module | models | notes |
|---|---|---|
| `RosterOps` | the body of each closure of `roster.go` as an operator on the map, and subscribers (`send`, `broadcast`, `close`) | no state; extended by all modules that use a roster |
| `Roster` | the goroutine, its channel, its callers, subscriptions, `Close` | one action per call, one per closure executed, quit |
| `LinearRoster` | what a caller may rely on: calls that take effect atomically between call and return | abstract |
| `RosterLinear` | `Roster` with the refinement mapping to `LinearRoster` | `After(requests, st)` is what executing the first n requests leaves, for each n |
| `AgentSessions` | `handle`/`handleAgent`, the bridge, agents, emitters and panes | roster calls atomic, as `LinearRoster` justifies |
| `SidebarFeed` | roster, `handleSidebar`, the socket, `Client.Run`/`session`, `applyFrame`, crash and restart | |
| `SidebarModel` | `Update` of the sidebar: rows, selection, ticks, prompt, theme picker | a frame is handled when it is sent; the queues before it are `SidebarFeed`'s |
| `WaitHandler` | `handleWait`, `cmdWait` and the agents' results | |
| `SocketLifecycle` | `mure up`, `Listen`, `Run`, `Shutdown` at one path | |
| `TmuxControl` | `Run`, writer, reader, `Close`, the tmux process and its pipes | |
| `SidebarLayout` | `View`: parts, drop order, clipping, details, picker, footer, as operators on one record | the record is what `View` reads of `Model`; a footer's lines are the hints that begin one |
| `SpawnTarget` | `cmdSpawn` from the choice of the target on, and the tmux session | a step per call of tmux |
| `HarnessInstall` | plan, apply, receipts, uninstall, marked blocks | a step per file |
| `RosterOpsProofs` | lemmas about the operations, subscribers and queues that the proofs share | TLAPS |
| `RosterProofs`, `SessionsProofs`, `FeedProofs`, `WaitProofs`, `TmuxProofs` | theorems, section 5 | TLAPS; each extends the module it is about |
| `SidebarProofs` | theorems about `SidebarModel` and `SidebarLayout` | TLAPS; extends both, of which no two definitions have one name |
| `CommandProofs` | theorems about `SpawnTarget`, `SocketLifecycle` and `HarnessInstall`, likewise | TLAPS |
| `MC...` | constants, inputs and symmetry for TLC | |

How state corresponds to code:

* **Roster.** `agents`, `launchDir`, `subs` are `rosterCore`; `reqs` is the channel,
  each closure a record that names its operation; `loop` is the goroutine;
  `waiting` the callers inside `submitWait`. A subscriber is its channel's content,
  whether the channel is closed, and whether the subscriber is in the map. A panic
  of Go is the value `panicked` of `loop`, so that an invariant can exclude it. `log`, `pos` and `end` are history: all broadcasts, and for each
  subscriber how far it has read and been sent.
* **An agent's record** keeps what the operations distinguish: the pane (or none),
  the status, whether there is a timestamp, the last result. Names, tasks, models
  and colours are written and read by the same assignments as the pane and are
  left out. The vocabulary of statuses is the source's.
* **AgentSessions.** A connection has the frames written and not read (`sent`),
  whether the client has closed it, and the handler's program counter; each roster
  call is a step. Agents are of two kinds, as the documents and the plugins have
  them: owners hold a connection for life, emitters use one connection per frame.
  Which kind runs an agent is chosen in the initial state from `Harness`; its
  `awaits` says whether an emitter waits for the daemon to close before it emits
  again (the TypeScript plugins do, `mure emit` in hook scripts does not), and its `env`
  which environment its commands have, on which `emitPaneID` depends: one that names
  the agent's pane, as that of an agent under `mure spawn` does, one that only has
  `TMUX`, whose active pane may be anybody's (`UserPane` are panes that mure did not
  open), or neither, so that no pane is named. Every agent has a pane in the model;
  one without tmux is an agent whose pane nobody names.
* **SidebarFeed.** One subscriber per session of the client; the socket is a queue
  of `WireCap` frames, the client's channel one of `FrameCap`. `missed` is history:
  the agents that changed between a session's snapshot and its subscription.
* **SidebarModel.** `rows` and `selected` are the list, `ticks` the tick commands that
  Bubble Tea has under way, `picker` the four variables of the theme picker.
  `chosen` (the theme confirmed last), `missed` and `overlap` (work began while a
  tick was under way) are history. Creation times are numbers, and ids are numbers
  as well, as the code orders by both. `InOrder(S)` is what sorting a set of rows gives:
  the n-th row is the one that n - 1 others come before.
* **WaitHandler.** `due` is history: the waiters that a result should release.
* **SocketLifecycle.** `path` is the daemon whose socket the path names. Go's
  `Close` of a Unix listener unlinks its path, whatever it names by then. A ping may
  fail although a daemon serves: it has 200 or 500 ms and reads no frame of more than
  64 KiB. `alone`, `orderly` and `unheard` are history: who started with nobody else
  moving, whether that was always so, and who went on although a daemon served.
* **SidebarLayout.** A line is a kind and a number; `Parts` are the regions that `View`
  collects, `Left(parts, k)` what remains after `k` steps of `layoutDrop`. Each step
  is taken while the rest does not fit, so that their number is the least that fits.
* **SpawnTarget.** A window's name is a sequence of words, because a line of
  `list-windows` is split at blanks; `Rows` are the lines that the code takes for a row,
  `NameOf` and `MarkerOf` what it takes for their fields. `names` and
  `lost` of a window and `raced` of a command are history.
* **HarnessInstall.** A file is a sequence of lines that have an owner, a hash is the
  content. `cmd` is the command under way with the operations left (`todo`) and
  the receipt so far (`done`). A failed write leaves a proper beginning of the new
  content. `Replaced` is `ReplaceAllString` with the block's expression, as a function that
  tells for each line what the file becomes from there on. `damaged`, `loose` and `touched`
  are history, see section 3.
* **TmuxControl.** `reply[r]` is everything ever sent on the reply channel of a call;
  a block is the request whose command it answers, or `Nobody`.


## 3. What the runs check

Run `tlc -workers 2 -config <run>.cfg <module>` in this directory. Every passing run
ends within three minutes; deadlock is not checked because in all of these systems
everything may come to rest: inputs are bounded, daemons stop, callers return.

| run | module | properties | bounds |
|---|---|---|---|
| `MCRoster` | `MCRoster` | `NoPanic`, `GapFree`, `FeedFaithful`, `SilentIsClosed`, `OneReply`, `Linearizable`, `CallReturns`, `CloseReturns` | 2 callers, 2 agents, 1 subscriber, channel of 2, buffer of 1, 2 broadcasts |
| `MCSessions` | `MCAgentSessions` | `EntryHasReaper`, `ShowsLastStatus`, `OnlyOwnersRemove`, `DeadLeave` | 1 agent under any of 4 harnesses, a pane of the user, 3 connections, 3 frames |
| `MCFeed` | `MCSidebarFeed` | `ViewFollows`, `Recovers`, `Forgotten` | 2 agents, 4 mutations, 1 crash, 4 sessions, all queues of 1 or 2 |
| `MCModel` | `MCSidebarModel` | `RowsShowRoster`, `SelectionOnRow`, `SpinnerRuns`, `EscRestores`, `SelectionStays`, `TicksEnd` | 2 agents, 3 themes, 2 creation times, 3 ticks under way |
| `MCWait` | `MCWaitHandler` | `NoLostResult`, `AnswerWasTrue`, `ResultReleases` | 1 command, 2 agents, 2 results, 5 mutations, buffer of 1 |
| `MCSocket` | `MCSocketLifecycle` | `Heals`, `OrderlyExclusive` | 4 daemons |
| `MCLayout` | `MCSidebarLayout` | `FitsHeight`, `SelectedVisible`, `MoreRoomShowsMore` | heights 0 to 30, widths 3, 9, 20 and 40, 3 agents |
| `MCSpawn` | `MCSpawnTarget` | `OneWindow`, `RightWindow` | 3 spawns, 5 names, 1 act of the user |
| `MCInstall` | `MCHarnessInstall` | `Accounted`, `UserLinesStay`, `Reconciles` | 2 harnesses in 2 versions, 3 files, 3 commands, 1 edit |
| `MCTmux` | `MCTmuxControl` | `AnsweredOnce`, `OwnReply`, `NoPipelining`, `RunReturns`, `CloseReturns` | 3 calls, 1 block that nobody asked for |

`TypeOK` is checked for the roster. It is proved of `Roster`, `AgentSessions`, `SidebarFeed`,
`SidebarModel`, `WaitHandler`, `SocketLifecycle` and `TmuxControl` (section 5).

Why these bounds are enough for what they are meant to show:

* *Roster.* A buffer of one overflows with the second broadcast; two callers are
  needed for requests of different callers to be in the channel in either order,
  and a channel of two for one to be behind the other. The safety properties are
  proved for every value of these (section 5), so the run is there for liveness.
* *Sessions.* Three connections are an old one, a new one and a oneshot beside
  them; three frames are a status, a result and a last one that comes after the
  agent was removed. The harnesses have each environment, with and without a connection
  of their own; the user's pane is the other one that tmux may name. Connections are numbered as they are opened, which loses
  nothing: they are interchangeable.
* *Feed.* Each link of the chain holds a frame while the next overflows; four
  sessions are what one crash and the overflows of four mutations can use up, so
  that a sidebar never stops because the model ran out of sessions.
* *Model.* Two rows have an order, which equal creation times leave to the ids, and
  a selection that one of them can lose; of three themes one is previewed, one
  confirmed and one restored. Two ticks are one chain more than there
  should be. A frame that would schedule a fourth one is refused; three allow for two that
  are under way with nobody working, so that `TicksEnd` is about more than one chain.
* *Wait.* Handlers of two commands share nothing but the roster, whose operations
  are atomic, so one is enough; five mutations overflow the feed, with a result
  before, in or after it.
* *Socket.* A race takes two daemons; the third and the fourth start after it, one
  to be disturbed and one to be left alone. Likewise two starts in good order strand two
  daemons by unanswered pings, while a third one begins.
* *Layout.* Everything fits in 28 lines, and nothing but the divider in one. The widths
  are one on each side of the limits of the logo (27), the details (10) and the
  cards (4); the footer takes between two and seven lines. Three agents are one above
  and one below the selected one.
* *Spawn.* Two commands race, and a third one comes after them, or after one that failed
  and one that was renamed. One act of the user suffices for each way in which a
  window is hidden or imitated; among the names are two of two words, of which one looks
  like a row with the marker and one like a row with the name.
* *Install.* Three commands are an installation that fails, an upgrade and an
  uninstallation, or two harnesses and a repetition. The manifests have each way of
  merging, a file that both harnesses own, a file that both append to, an upgrade
  that drops a file and one that moves the skill.
* *Tmux.* Three calls are one that has given up, one in tmux and one that waits.

What each property says, and of which code, is stated above its definition. The
ones that need a word more:

* `Linearizable` is the abstract specification `LinearRoster!Spec` under the mapping
  of `RosterLinear`: requests in the channel count as executed, so that the point
  at which a call takes effect is the send. This is what the other modules rely on
  when they take roster operations to be atomic. It does not see a mutation without an
  answer that is dropped before it reaches the channel, which the abstract roster does not
  tell from a step that changes nothing; that every closure which is executed does what it
  should is `FeedFaithful`.
* `ViewFollows` excludes the agents in `missed`, those that changed between the
  snapshot and the subscription of the session; `MCFeedPure` shows that without the
  exception it does not hold.
* `EntryHasReaper` is about entries that would stay for ever. An entry without a
  pane is never pruned, so somebody else must be about to remove it or to name its
  pane. It is the reason why `handleAgent` applies the identity of a oneshot
  connection a second time after each frame. An emit that names no pane does make an entry
  that stays (`Paneless`), see `MCSessionsPaneless`. Agents under `mure spawn` find
  their pane in the environment and never are such an exception.
* `DeadLeave` leaves out, beside these, agents for which an emit named somebody else's pane
  that is still there (`Misplaced`): the bridge takes the entry for that of an agent that lives.
* `ShowsLastStatus` is about harnesses that wait for the daemon between two emits. It
  is false of hook scripts, which exit when they have written: two statuses in a
  row, such as `working` from one hook and `idle` from the next
  (`harnesses/claude/plugin/scripts/stop.sh`), are handled by two goroutines, in
  either order.
* `OrderlyExclusive` is about histories in which no start or stop of a daemon overlaps
  another one. In others two daemons can serve at once: both find the same
  dead socket, and both unlink and bind. `Heals` says that the next start that is
  left alone repairs this, in so far as the path names a daemon that answers. Nor can an
  orderly start tell a daemon that does not answer in time from a dead one
  (`server.go:69`): it unlinks the path of the first, which then serves unreachably. This
  is all that happens: the stranded daemons are no more than the pings that were not
  heard (`unheard`), and none if there were no such pings.
* `RowsShowRoster` also speaks of the order of the rows, except after a change that
  was missed: `upsert` replaces a row where it is, so an agent that left and came
  back unseen keeps its old place.
* `SpinnerRuns` leaves out what `overlap` records, see below.
* `OwnReply` and `NoPipelining` hold until tmux prints a block that nobody asked for. A
  real `attach` prints one at once, so that they speak of the client's own bookkeeping
  (cancelled, failed and closed calls shift nothing) and not of a whole session with tmux;
  see `MCTmuxAttach` below. `AnsweredOnce` and the liveness properties have no such limit.
* `MoreRoomShowsMore` is about a sum that is wrong by one: `View` decides on cards
  without counting the directory's line (`model.go:402`). What that costs is the
  blank lines at the top, and this is what the property shows. It leaves out the theme
  picker, of which it is false: the picker shows from the height on at which cards would
  fit, and then costs the footer.
* `FitsHeight` and `SelectedVisible` name the sizes for which they are claimed. With
  details unfolded a terminal of less than seven lines gets a view that is too high,
  and one of less than ten does not show the selected agent. They also leave out the
  sizes in `Panics`, where there is no view at all. Each part has the number of lines that
  its code appends; a line break inside of a name, a task or a role, which would make
  two lines of one, is not modelled.
* `RightWindow` leaves out every name of two words that reads like a row of mure's own:
  `x 1`, whose second word is the marker, and `subagents old`, whose first is the name.
  The second kind was found by the proof: with names like `x 1` only, as the run had them
  then, TLC had no objection to the exception for `1` alone.
* `OneWindow` leaves out the race of two new-windows (`raced`), and a window of mure that
  the user renamed so that nothing tells it from others (`lost`).
* `Accounted` leaves out what `loose` lists: a command that failed, a torn or outdated
  receipt, a file that uninstall left because it was modified. A later installation
  that succeeds takes it off that list, so that failures do not add up.
* `UserLinesStay` leaves out what `create-if-missing` took over (`TakesOver`): a file of the user
  that the receipt has the content of goes when it is uninstalled, see `MCInstallKept`.
  An operation reads a file and writes it in one step, so that an edit of the user between
  `ReadFile` and `WriteFile`, which would be lost, is not covered.
* `UserLinesStay` and `Reconciles` leave out `damaged` files, in which a write was torn or a
  marker removed by hand: a begin line without its end line reaches to the next
  block, and what is between them is replaced with it.

### Where the code and its documents part

Two runs expect a violation. Each checks one sentence of a document, quoted in
`PROJECT.json` under `findings`.

| run | property | what TLC shows |
|---|---|---|
| `MCFeedPure` | `PureView` | an update between snapshot and subscription never reaches the sidebar |
| `MCInstallKept` | `KeptSurvives` | uninstall removes a file of the user that `create-if-missing` had left alone |

Five more configurations are kept beside them, to be run by hand with the module named:
TLC finds the property of each violated.

| configuration, module | property | what TLC shows |
|---|---|---|
| `MCSessionsReconnect`, `MCAgentSessions` | `ReconnectedStays` | the end of an old connection removes an agent whose new hello has been handled (`server.go:187`) |
| `MCSessionsPaneless`, `MCAgentSessions` | `AllHaveReaper` | the entry of an emit that named no pane has nobody who removes it (`emit.go:127`; `test/emit_e2e.sh:34` makes one) |
| `MCWaitGone`, `MCWaitHandler` | `GoneReleases` | a command that waits for an agent that has left waits for ever (`server.go:323`; `wait.go:13` promises an end "or terminal state") |
| `MCSocketDown`, `MCSocketLifecycle` | `OwnCleanup` | a stopping daemon removes the socket of its successor (`server.go:109`) |
| `MCTmuxAttach`, `MCTmuxControl` | `Correlated` | the block that answers `attach` is taken for the reply to the first call (`client.go:258`) |

The entry of an emit without a pane is listed until the daemon stops: `emitPaneID` returns
nothing without `MURE_PANE_ID`, `TMUX_PANE` and `TMUX`, or when tmux fails, the TypeScript
plugins send an empty pane too, the bridge prunes by pane only, and the end of a oneshot
connection removes nothing.

Others were met while modelling and have no configuration:

* `reconcile` compares a snapshot of the roster with a pane list taken before it, so
  an agent that says hello in between is removed although its pane is there.
  `OnlyOwnersRemove` has this among the reasons for which an entry may disappear.
* The comment on `UpdateIdentityIfPresent` (`roster.go:139`) says that an emitter with
  a stale agent id cannot create an entry. Its hello does not, but `ApplyStatus` and
  `ApplyResult` of the frame that follows do (`server.go:202`). In `AgentSessions`
  this happens to agents that were removed.
* Section 5.4 of `specs/002-sidebar-pizzazz/PRD.md` has the spinner at a 120 ms
  cadence. When the last working agent stops and one begins again before the tick
  under way has come, `Update` schedules a second chain and the first one goes on:
  the spinner runs at twice its speed until work stops. `overlap` records it.
* `findSubagentsWindow` takes the second word of an unmarked window's name for the marker
  and the first for its name: windows called `x 1` or `subagents old` are split for
  agents, and a marked window renamed to two words is not seen, so that a second one is
  opened (`spawn_target.go:92`). Section 5.4 of `specs/004-subagents-window/PRD.md` has
  the row "whose third column is `1`". `RightWindow` and `OneWindow` name these cases.
* `ReplaceOrAppendBlock` hands the block to `ReplaceAllString` as a template
  (`markers.go:32`), so that `$1` in a body disappears when the block is replaced,
  though not when it is first appended. The model has such a body; `Reconciles`
  leaves it out. No shipped manifest appends.
* `pi` and `opencode` install different texts to `~/.agents/skills/mure/SKILL.md` with
  `replace`. The second one overwrites the first one's, and its uninstallation takes
  the file away from the first. `MCManifest` has such a pair.
* An upgrade to a manifest without some file writes a receipt without it; the file
  stays, and no uninstallation removes it. It is in `loose`.
* When the agents' cards do not fit, `View` puts lines in place of whatever the rows
  were (`model.go:403`), also of the theme picker: it is then not drawn while it takes
  the keys, although the comment at `model.go:826` has it "shown in place of the
  agent list". The picker is clipped around the selected agent, not the chosen theme.
* `runeTrunc` with a negative length panics: a sidebar of less than 10 columns when
  details are unfolded, of less than 4 with any agent. `Panics` names the sizes.
* "Selected agent is always kept visible" (`specs/002-sidebar-pizzazz/PRD.md`, 7.2) does
  not hold with details unfolded in less than ten lines, as details are not dropped.

## 4. Fairness

Safety runs need none. The liveness properties use weak fairness only, and only of
goroutines: a goroutine that can take a step continuously will take one, which is
what Go's scheduler gives.

| module | fair | not fair |
|---|---|---|
| `Roster` | the goroutine | callers, subscribers, `Close` |
| `AgentSessions` | each connection's handler; the bridge | agents, kills, everything that sends |
| `SidebarFeed` | handlers, the client goroutine, the model's update | mutations, crash, restart, closing the sidebar |
| `SidebarModel` | ticks that are under way | frames, keys, the roster |
| `SidebarLayout`, `SpawnTarget`, `HarnessInstall` | no liveness is claimed: their commands end by themselves or are killed | |
| `WaitHandler` | each handler | agents, the commands |
| `TmuxControl` | writer, reader, callers that have an answer, the end of `Close`, tmux answering while it lives | cancelling, `Close`, the death of tmux |

The bridge's fairness takes the poll timer to tick and `list-panes` to be answered
at some time; tmux's in `TmuxControl` takes a live tmux to answer what it has read.
`Recovers` takes a daemon that stays down as an excuse, since nothing restarts it.

## 5. What is proved

TLAPS proves the following for every number of agents, callers, connections, sessions,
processes and calls, for every capacity of a channel, and for every value of the bounds
that keep TLC's runs finite.

| module | theorem | statement |
|---|---|---|
| `RosterProofs` | `PanicFree`, `NoGaps`, `ClosedWhenSilent`, `FeedTellsAll`, `ExactlyOneReply` | `Spec => []` of `NoPanic`, `GapFree`, `SilentIsClosed`, `FeedFaithful`, `OneReply` |
| | `Refines` | `Spec => Linear!Safety`: the roster behind its channel implements `LinearRoster` |
| `SessionsProofs` | `NothingStays` | if `OwnersSpeakPlainly`, `Spec => []EntryHasReaper` |
| | `EmittersNeverRemove` | if `EmittersNeverBye`, `Spec => OnlyOwnersRemove` |
| | `LastStatusShown` | `Spec => []ShowsLastStatus` |
| `FeedProofs` | `SidebarFollows` | `Spec => []ViewFollows` |
| `SidebarProofs` | `RowsShow`, `SelectionListed`, `SpinnerPaced`, `EscLeavesNoTrace` | `Spec => []` of `RowsShowRoster`, `SelectionOnRow`, `SpinnerRuns`, `EscRestores` |
| | `SelectionKept` | `Spec => SelectionStays` |
| | `ViewFits`, `SelectionShown`, `TallerShowsMore` | `LayoutSpec => []` of `FitsHeight`, `SelectedVisible`, `MoreRoomShowsMore` |
| `WaitProofs` | `NothingLost`, `AnswersAreTrue` | `Spec => []` of `NoLostResult`, `AnswerWasTrue` |
| `CommandProofs` | `AgentsGather`, `RightWindows` | `Spec => []` of `OneWindow`, `RightWindow` |
| | `StartHeals`, `OneDaemon` | `SocketSpec => []` of `Heals`, `OrderlyExclusive` |
| | `NothingForgotten` | if `SteadyMerges`, `InstallSpec => []Accounted` |
| | `LinesStay` | if `SteadyMerges`, `InstallSpec => UserLinesStay` |
| | `InstallReconciles` | if `SteadyMerges` and `PathsOnce`, `InstallSpec => Reconciles` |
| `TmuxProofs` | `AtMostOneAnswer`, `OwnAnswer`, `OneCommandAtATime` | `Spec => []` of `AnsweredOnce`, `OwnReply`, `NoPipelining` |
| all but `RosterOpsProofs` | `Typing` | `Spec => []TypeOK` |

Every invariant and every action property of the passing runs is stated by one of them.

### Assumptions

The modules declare them, and TLC evaluates them on every run: capacities are positive and
bounds natural numbers; what stands for "none" (`NoAgent`, `NoPane`, `NoSocket`, `Nobody`,
`NoAnswer`, `NoSnapshot`) is none of the values it stands beside; inputs are mutations; there
is an agent to wait for (`AgentAssumption`); sessions are numbered; ids of rows and
indices of themes, heights and widths are numbers. A manifest is a list of at most one
skill and a list of files, and no line of what it installs is a marker (`ManifestAssumption`).

Some theorems have a hypothesis on the harnesses, which the harnesses of the repository
meet and TLC's satisfy as well:

* `OwnersSpeakPlainly`: what a harness sends over a connection that it owns decodes. It was
  found by the proof. Without it the pane of an owner may be killed and its entry
  pruned; its next status creates an entry anew, without a pane (`ApplyStatus`), and
  a frame that does not decode then ends the handler by the return at
  `server.go:194`, before the `Remove` of the loop's other ends. That entry stays. TLC's
  harnesses have malformed frames over oneshot connections only.
* `EmittersNeverBye`: no oneshot connection carries a bye. `mure emit` knows the events
  `status` and `result` only (`cmd/mure/emit.go:29`); the daemon would take the agent
  out on a bye of anybody.
* `SteadyMerges`: a harness that appends to a path does nothing else with it in any version of
  mure. It was found by the proof too. With `create-if-missing` in one version and `append` in
  the next, the file of the first is text of the harness without markers, to which the
  second adds a block: uninstalling strips the block only, the text stays and the receipt
  goes, against `Accounted`; or a later version replaces a file in which an older one
  had a block, against `Reconciles`. Of the shipped manifests claude has files only, and pi
  and opencode a skill that they replace, so that none can get there today.
* `PathsOnce`: no plan names a path twice. If one did, the second file would overwrite the
  first one. Only `Reconciles` needs it.

### The arguments

*Roster, safety.* `NoPanic` and `GapFree` are not inductive. A panic is a registered
subscriber whose flag says open while its channel is closed, so the invariant has
to tie the flag, the channel and the registration together (`SubscriberInv`). That
in turn breaks if a subscription could be executed twice or a cancel before its
subscription, so it needs what is in the channel (`RequestInv`): at most one
subscribe request per subscriber, and cancel requests only for subscribers in the
hands of a caller. `GapFree` needs that nobody was sent more than the log holds
(`EndInv`). Together, with `TypeOK`, they are `IInv`, which is preserved by each
action: a lemma for the mutations (which broadcast), subscribe, the closes
(cancel, quit), the calls and the receive. `FeedFaithful` is inductive relative to
`TypeOK` alone; `OneReply` follows from `ReplyInv`, which says in addition that a
closure in the channel belongs to a caller that is blocked.

*Roster, refinement.* The abstract store is the roster after all the requests in the
channel. Two lemmas on `After` carry the proof: a request put at the end of the channel
is the last to be executed (`AfterAppend`), and executing the first request changes
the state that the others start from but not where they end (`AfterTail`). So a call is a
step of the abstract roster (`PutStep`), and the goroutine's is a stutter (`TakeStep`). The
answer of a Snapshot that is still in the channel is what `After` has in front of it;
`ReplyInv` makes that request unique. `After` is a recursive function; that it exists, and
each induction over it, rests on the least number of a set (`LeastOf`), since the
induction theorems of the library cannot be instantiated.

*Sessions.* The invariant says that what is unread on a connection is something its harness
sends (`SentInv`). `EntryHasReaper` is inductive relative to it; an agent of which an emit
named no pane stays an exception (`PanelessKept`). `ShowsLastStatus` needs `AwaitInv`: an
awaiting emitter has one connection under way at most, with one frame in it, and if the
roster does not show its last status then this frame is that status.

*Feed.* `Pipeline(k, a)` is what the row of `a` will hold when the model has read all that
is in its channel, on the connection and in the subscriber's channel of session k. While
this feed is not cut it is the roster's agent (`FollowInv`): a mutation extends the
pipeline at its far end by what it does to the roster, moving a frame from one queue to
the next changes nothing, and an overflow cuts the feed. `HandlerInv` ties the
subscriber's channel to the place of its handler, as in `Roster`.

*Sidebar model.* The invariant is that rows are distinct, ordered unless a change was
missed, and show the roster from the roster frame on (`ShowInv`), not only once
subscribed. It also has that agents are finitely many, without which sorting has no
result. That `InOrder` sorts is a counting argument (`Places`): the number of rows before a
row is an injection into the numbers below n, and hence takes each of them. A row is
replaced in place without a loss of order because, with nothing missed, a row that is
there belongs to an agent that was listed, which keeps its creation time. The selection,
the spinner and the picker are inductive relative to the types.

*Wait.* For each handler: before it subscribes nothing is due; from then on a result that is
due is in the feed, unless the feed is closed (`DueInv`); and what feed and roster say
of the agent is what was true since the command asked (`TrueInv`).

*Socket.* `AloneInv` follows one start that nobody interferes with from place to place: what
it has found out about the path is still so. `OrderInv` says that in good order one process
moves at a time, and what it has done to the path is still so. `CountInv` is
`OrderlyExclusive` with one more: a start that is about to unlink the path of a daemon that
serves has been counted in `unheard` before that daemon is stranded. `FiniteInv` is what
counting needs, as the set of processes may be infinite.

*Layout.* An invariant that is the range of the variables is enough; the work is in the operators.
`FitsHeight` adds up what `layoutDrop` leaves (`LeftSizes`), the clipped rows (`ClipOf`), the details
and the filler (`FitsView`). The clipped rows are whole groups of lines around the selected
one, of which there is one at least (`SelectedView`, `RoomForOne`). For `MoreRoomShowsMore`, a
step takes lines away only, and the least number of steps that fits falls as the
height grows (`LeftItems`); the window of a larger height contains that of a smaller one
(`Widen`). The hard case is the one height at which cards take the place of lines,
decided without the line of the directory: `CardsFit` shows that dropping the two blank
lines at the top pays for it.

*Spawn.* Ids are unique and below `nextId` (`WindowInv`), so that a window that has been closed is never
taken for a new one. A window that a command has found or is in had a name that spawn takes
for its own (`Taken`, `Ours`, in `Knows`). `GatherInv`: until two new-windows have raced
there is one window at most that a later spawn will find (`Ready`), and none while a
command that found none is about to open one (`Opening`). It rests on `FoundWindow`: a
search that finds nothing means that no window is `Ready`.

*Installation.* A file that is not damaged has, of each harness that appends to it, one block or
no line at all (`FilesInv`). In such a file `ReplaceBlocks` takes out the lines between the
markers and puts in the new ones, and leaves each other line where it was relative
to the others (`Splice`, `Swap`): so a write changes what is the harness's own, and
neither the blocks of other harnesses nor the user's lines, which are counted by a bijection
(`SpliceUsers`). That the recursive function exists is shown by the least number of
lines for which it would not (`ReplacedExists`). `ReceiptInv` and `PlanInv` say that receipts
list files with the way of merging their manifest had; `UninstallInv` that an uninstallation
has before it every file that it has not dealt with; `AccountInv` is `Accounted` with
what the command under way has done and has to do. For `Reconciles`, `DoneInv` says
that what the installation has done so far is as planned.

*Tmux client.* A call is in one place: not taken (`UntakenInv`), with the writer
(`TakenInv`), or pending once (`PendingInv`), with no answer yet. `OrderInv` says that, as
long as tmux prints no block of its own, what is in the two pipes is the one
command that the writer waits for, and that it is alone on the queue. This is what makes order
as good as a name.

### Only model-checked

* Liveness: `CallReturns`, `CloseReturns` of both modules, `DeadLeave`, `Recovers`, `Forgotten`,
  `ResultReleases`, `RunReturns`, `TicksEnd`, and the liveness of `Linearizable`. TLAPS
  proves nothing with fairness.

## 6. What is not modelled, and why

* Names, tasks, models, colours and durations: nothing depends on them.
* Enter and x in the sidebar, which start a tmux command and change no state of it.
* Sizes of frames. `WriteFrame` writes what `ReadFrame` refuses, a roster beyond
  64 KiB; this is listed as a hazard. In `SocketLifecycle` it is one of the reasons for which
  a ping fails; that sidebars cannot connect to such a daemon is left out.
* A waiting command that gives up: the handler does not read the connection, so
  nothing in the daemon changes until it writes.
* Bytes: framing, the parsing of tmux's output, colours, and how a task is quoted for
  the shell. They are loops or pure functions without state that another part could
  disturb.
* The logger, whose rotation only the text of the log depends on, and the order of
  start and stop in `daemon.go`, which has no branches.
* Directories that installations create and prune, file modes, and the expansion of
  `~` and variables in paths. Two `mure integration` commands at the same time.
* Peer authentication, path construction, decoding of manifests, `ls`, `focus`, `doctor`:
  pure functions or single requests.
* The harnesses' plugins and tmux are the environment; of tmux, what the code uses
  it for.
* A closed roster under live handlers: the roster is closed when the process is
  about to end. `CallReturns` states the exception.

## 7. Plan

Done: roster, agent connections and bridge, feed, wait, socket, tmux client, the sidebar's
model and its layout, spawn, installation; proofs of the safety of all of them, and the
refinement of `LinearRoster`.

What could come next, in this order:

1. `HarnessInstall` with two commands at a time, whose reads and writes of a shared
   file interleave.
2. `ReadFrame` over chunks of bytes against a reference definition.
