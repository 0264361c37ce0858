----------------------------- MODULE SidebarModel -----------------------------
(***************************************************************************)
(* The sidebar's Bubble Tea model (internal/sidebar/model.go): the rows    *)
(* with their order and the selection, the spinner's ticks, the theme      *)
(* picker and the prompt.  Bubble Tea calls Update with one message at a   *)
(* time; a command that Update returns runs by itself and ends with a      *)
(* message, so that a tick, once scheduled, comes whatever happens before. *)
(*                                                                         *)
(* The environment: a roster that changes, and the feed of its frames,     *)
(* which SidebarFeed.tla has in full.  Here a frame is handled as soon as  *)
(* it is sent.  Keys whose only effect is a tmux command (enter and x) and *)
(* messages that only bear on layout (size, focus, details) are left out.  *)
(***************************************************************************)
EXTENDS Naturals, SequencesExt

CONSTANTS AgentId,   \* agent ids, ordered as the strings are
          NoAgent,   \* "no such agent in the roster"
          Theme,     \* the indices of Themes
          MaxClock,  \* bound: the time at which an agent is created
          MaxTicks   \* bound: ticks under way at the same time

ASSUME AgentIdAssumption == AgentId \subseteq Nat
ASSUME NoAgentAssumption == NoAgent \notin [created : Nat, working : BOOLEAN]
ASSUME ThemeAssumption   == 0 \in Theme /\ Theme \subseteq Nat
ASSUME BoundAssumption   == MaxClock \in Nat /\ MaxTicks \in Nat

VARIABLES roster,    \* the daemon's agents
          clock,     \* the time, as CreatedAt has it
          feed,      \* what the daemon sends next to this sidebar
          missed,    \* history: agents that changed between snapshot and subscription
          rows,      \* Model.agents
          selected,  \* Model.selected, counted from 0
          ticks,     \* tick commands under way
          overlap,   \* history: work began while a tick was under way
          picker,    \* Model.themePicker, themeIdx, themePrevIdx and palette
          chosen,    \* history: the theme that was confirmed last
          input,     \* Model.inputMode, and whether inputBuf holds text
          quit       \* tea.Quit was returned

world == <<roster, clock, feed, missed>>
list  == <<rows, selected>>
spin  == <<ticks, overlap>>
modes == <<picker, chosen, input>>
vars  == <<roster, clock, feed, missed, rows, selected, ticks, overlap,
           picker, chosen, input, quit>>

Agent == [created : 0 .. MaxClock, working : BOOLEAN]
Row   == [id : AgentId, created : 0 .. MaxClock, working : BOOLEAN]

RowOf(a, x) == [id |-> a, created |-> x.created, working |-> x.working]

anyWorking(rs) == \E i \in DOMAIN rs : rs[i].working

\* NewModel and Init, with no agents yet.
Init ==
  /\ roster = [a \in AgentId |-> NoAgent]
  /\ clock = 0
  /\ feed = "down"
  /\ missed = {}
  /\ rows = <<>>
  /\ selected = 0
  /\ ticks = 0
  /\ overlap = FALSE
  /\ picker = [open |-> FALSE, idx |-> 0, prev |-> 0, palette |-> 0]
  /\ chosen = 0
  /\ input = [on |-> FALSE, text |-> FALSE]
  /\ quit = FALSE

-----------------------------------------------------------------------------
(* The rows.                                                               *)

\* sortAgents: by creation, then by id.
Before(x, y) == x.created < y.created \/ (x.created = y.created /\ x.id < y.id)

\* The rows of a set in that order: the n-th is the one with n - 1 before it.
InOrder(S) ==
  [n \in 1 .. Cardinality(S) |->
     CHOOSE x \in S : Cardinality({y \in S : Before(y, x)}) = n - 1]

\* No two rows have the same id, so that a sequence of rows is their set.
sortAgents(rs) == InOrder(Range(rs))

Has(rs, a) == \E i \in DOMAIN rs : rs[i].id = a

\* Mutant: a new agent is appended and stays last.
upsertUnsorted(rs, r) ==
  IF Has(rs, r.id) THEN [i \in DOMAIN rs |-> IF rs[i].id = r.id THEN r ELSE rs[i]]
                   ELSE Append(rs, r)

\* A row that is there is replaced where it is, also by one created later.
upsert(rs, r) ==
  IF Has(rs, r.id) THEN [i \in DOMAIN rs |-> IF rs[i].id = r.id THEN r ELSE rs[i]]
                   ELSE sortAgents(Append(rs, r))

remove(rs, a) == LET IsA(r) == r.id = a IN RemoveFirstMatch(rs, IsA)

\* Mutants: a selection beyond the end is left alone; or goes to the first row.
clampNot(sel, n)   == sel
clampFirst(sel, n) == 0

clampSelection(sel, n) == IF n = 0 THEN 0 ELSE IF sel >= n THEN n - 1 ELSE sel

\* Mutant: whether somebody worked before is not looked up.
spinnerAlways(old, new) ==
  /\ ticks' = IF anyWorking(new) THEN ticks + 1 ELSE ticks
  /\ overlap' = (overlap \/ (~anyWorking(old) /\ anyWorking(new) /\ ticks > 0))

\* A tick is scheduled when somebody begins to work and nobody did before.
spinner(old, new) ==
  IF ~anyWorking(old) /\ anyWorking(new)
    THEN /\ ticks' = ticks + 1
         /\ overlap' = (overlap \/ ticks > 0)
    ELSE UNCHANGED spin

\* The case of Update for a frame that carries agents; rs are the new rows.  The
\* bound refuses only a frame that would schedule one tick too many.
applyFrame(rs) ==
  /\ ~quit
  /\ rows' = rs
  /\ selected' = clampSelection(selected, Len(rs))
  /\ spinner(rows, rs)
  /\ ticks' <= MaxTicks
  /\ UNCHANGED <<modes, quit>>

-----------------------------------------------------------------------------
(* The daemon and the feed.                                                *)

Listed(a) == roster[a] # NoAgent

\* An agent comes, changes or goes, and the sidebar is not subscribed.  Between
\* the snapshot and the subscription it misses the change.
Unheard(a) ==
  /\ ~quit
  /\ feed # "updates"
  /\ missed' = IF feed = "roster" THEN missed \cup {a} ELSE missed
  /\ UNCHANGED <<feed, list, spin, modes, quit>>

Comes(a, t) ==
  /\ ~Listed(a)
  /\ t \in clock .. MaxClock
  /\ clock' = t
  /\ \E w \in BOOLEAN : roster' = [roster EXCEPT ![a] = [created |-> t, working |-> w]]

Changes(a) ==
  /\ Listed(a)
  /\ roster' = [roster EXCEPT ![a].working = ~@]
  /\ UNCHANGED clock

Goes(a) ==
  /\ Listed(a)
  /\ roster' = [roster EXCEPT ![a] = NoAgent]
  /\ UNCHANGED clock

Silently(a) ==
  /\ (\E t \in 0 .. MaxClock : Comes(a, t)) \/ Changes(a) \/ Goes(a)
  /\ Unheard(a)

Update(a) ==
  /\ feed = "updates"
  /\ (\E t \in 0 .. MaxClock : Comes(a, t)) \/ Changes(a)
  /\ applyFrame(upsert(rows, RowOf(a, roster'[a])))
  /\ UNCHANGED <<feed, missed>>

Deleted(a) ==
  /\ feed = "updates"
  /\ Goes(a)
  /\ applyFrame(remove(rows, a))
  /\ UNCHANGED <<feed, missed>>

\* A roster frame lists the agents in any order, as a Go map is ranged over:
\* they are sorted, and Before is a total order.
Roster ==
  /\ feed = "connected"
  /\ applyFrame(InOrder({RowOf(a, roster[a]) : a \in {b \in AgentId : Listed(b)}}))
  /\ feed' = "roster"
  /\ missed' = {}
  /\ UNCHANGED <<roster, clock>>

\* The connection is made, the subscription taken, the connection lost.  The
\* frames that tell change nothing but the line that says "disconnected".
Feed ==
  /\ ~quit
  /\ \/ feed = "down" /\ feed' = "connected"
     \/ feed = "roster" /\ feed' = "updates"
     \/ feed # "down" /\ feed' = "down"
  /\ UNCHANGED <<roster, clock, missed, list, spin, modes, quit>>

-----------------------------------------------------------------------------
(* Ticks.                                                                  *)

\* Mutant: a tick schedules the next one, whoever works.
TickForever ==
  /\ ~quit
  /\ ticks > 0
  /\ UNCHANGED <<world, list, spin, modes, quit>>

Tick ==
  /\ ~quit
  /\ ticks > 0
  /\ ticks' = IF anyWorking(rows) THEN ticks ELSE ticks - 1
  /\ overlap' = (overlap /\ ticks' > 1)
  /\ UNCHANGED <<world, list, modes, quit>>

-----------------------------------------------------------------------------
(* Keys.  The picker is asked first, then the prompt.                      *)

InPicker == ~quit /\ picker.open
InInput  == ~quit /\ ~picker.open /\ input.on
InList   == ~quit /\ ~picker.open /\ ~input.on

\* j and k: the selection stops at either end.
Select ==
  /\ InList
  /\ \/ selected + 1 < Len(rows) /\ selected' = selected + 1
     \/ selected > 0 /\ selected' = selected - 1
  /\ UNCHANGED <<world, rows, spin, modes, quit>>

\* c opens the prompt, t the picker, q quits.
OpenInput ==
  /\ InList
  /\ input' = [on |-> TRUE, text |-> FALSE]
  /\ UNCHANGED <<world, list, spin, picker, chosen, quit>>

OpenPicker ==
  /\ InList
  /\ picker' = [picker EXCEPT !.open = TRUE, !.prev = picker.idx]
  /\ UNCHANGED <<world, list, spin, chosen, input, quit>>

\* The frames end when the client stops: the program quits in any mode.
FramesEnd ==
  /\ ~quit
  /\ quit' = TRUE
  /\ UNCHANGED <<world, list, spin, modes>>

Quit ==
  /\ InList
  /\ quit' = TRUE
  /\ UNCHANGED <<world, list, spin, modes>>

\* The prompt: runes and backspace, enter (mure spawn) and esc.
handleInputKey ==
  /\ InInput
  /\ \/ input' = [input EXCEPT !.text = TRUE]
     \/ input.text /\ input' = [input EXCEPT !.text = FALSE]
     \/ input' = [on |-> FALSE, text |-> FALSE]
  /\ UNCHANGED <<world, list, spin, picker, chosen, quit>>

\* The picker: j and k preview, enter confirms, esc and q go back.
Preview ==
  /\ InPicker
  /\ \E i \in Theme :
       /\ i = picker.idx + 1 \/ i + 1 = picker.idx
       /\ picker' = [picker EXCEPT !.idx = i, !.palette = i]
  /\ UNCHANGED <<world, list, spin, chosen, input, quit>>

Confirm ==
  /\ InPicker
  /\ picker' = [picker EXCEPT !.open = FALSE]
  /\ chosen' = picker.idx
  /\ UNCHANGED <<world, list, spin, input, quit>>

\* Mutant: the palette goes back, the index does not.
EscapeHalf ==
  /\ InPicker
  /\ picker' = [picker EXCEPT !.open = FALSE, !.palette = picker.prev]
  /\ UNCHANGED <<world, list, spin, chosen, input, quit>>

Escape ==
  /\ InPicker
  /\ picker' = [picker EXCEPT !.open = FALSE, !.idx = picker.prev,
                              !.palette = picker.prev]
  /\ UNCHANGED <<world, list, spin, chosen, input, quit>>

handleThemeKey == Preview \/ Confirm \/ Escape
handleKey      == Select \/ OpenInput \/ OpenPicker \/ Quit

-----------------------------------------------------------------------------
Frames ==
  \/ \E a \in AgentId : Silently(a) \/ Update(a) \/ Deleted(a)
  \/ Roster
  \/ Feed

Next == Frames \/ FramesEnd \/ Tick \/ handleKey \/ handleInputKey \/ handleThemeKey

Spec == Init /\ [][Next]_vars

\* A tick that was scheduled comes.  Frames and keys come or not.
FairSpec == Spec /\ WF_vars(Tick)

-----------------------------------------------------------------------------
TypeOK ==
  /\ roster \in [AgentId -> Agent \cup {NoAgent}]
  /\ clock \in 0 .. MaxClock
  /\ feed \in {"down", "connected", "roster", "updates"}
  /\ missed \in SUBSET AgentId
  /\ rows \in Seq(Row)
  /\ selected \in Nat
  /\ ticks \in 0 .. MaxTicks
  /\ overlap \in BOOLEAN
  /\ picker \in [open : BOOLEAN, idx : Theme, prev : Theme, palette : Theme]
  /\ chosen \in Theme
  /\ input \in [on : BOOLEAN, text : BOOLEAN]
  /\ quit \in BOOLEAN

\* Each agent of the roster has one row, with what the roster says of it, and
\* the rows are in the order of creation: while the sidebar is subscribed,
\* and as far as it did not miss a change.
RowsShowRoster ==
  /\ \A i, j \in DOMAIN rows : rows[i].id = rows[j].id => i = j
  /\ missed = {} => \A i, j \in DOMAIN rows : i < j => Before(rows[i], rows[j])
  /\ feed = "updates" /\ ~quit =>
       \A a \in AgentId \ missed :
         IF Listed(a) THEN \E i \in DOMAIN rows : rows[i] = RowOf(a, roster[a])
                      ELSE ~Has(rows, a)

\* The selection is on a row as long as there is one, whatever was removed and
\* however far it was moved: enter and x, which look at nothing else, act on
\* an agent that is listed.
SelectionOnRow == rows # <<>> => selected < Len(rows)

\* No frame moves the selection to another agent unless rows come or go or
\* are in another order: a status, or a new connection, does not.
SelectionStays ==
  [][/\ Len(rows') = Len(rows) /\ rows # <<>>
     /\ \A i \in DOMAIN rows : rows'[i].id = rows[i].id
     /\ rows' # rows
     => rows'[selected' + 1].id = rows[selected + 1].id]_vars

\* The spinner keeps its pace.  While an agent works a tick is under way, so that
\* it never freezes; and there is one chain of ticks, unless work stopped and
\* began again before a tick that was under way had come.
SpinnerRuns ==
  /\ anyWorking(rows) /\ ~quit => ticks > 0
  /\ ~overlap => ticks <= 1

\* When nobody works any more the ticks end, however many there are: a tick
\* schedules the next one only while somebody works.
TicksEnd == ~anyWorking(rows) ~> (ticks = 0 \/ anyWorking(rows) \/ quit)

\* Outside the picker the theme is the one that was confirmed last, and index and
\* palette agree: previews leave no trace when the picker is left with esc,
\* whatever was previewed and confirmed before.
EscRestores ==
  /\ picker.palette = picker.idx
  /\ (IF picker.open THEN picker.prev ELSE picker.idx) = chosen
=============================================================================
