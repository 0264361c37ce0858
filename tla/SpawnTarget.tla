----------------------------- MODULE SpawnTarget -----------------------------
(***************************************************************************)
(* mure spawn: where in tmux an agent's pane goes (cmd/mure/spawn.go and   *)
(* spawn_target.go).  Commands run at the same time, and each asks tmux    *)
(* several times; every call may fail, and a command may be killed between *)
(* two.  tmux executes one call at a time.  One session; meanwhile its     *)
(* user opens, renames and closes windows and kills panes.                 *)
(*                                                                         *)
(* A window's name is a sequence of words, as strings.Fields takes a line  *)
(* of list-windows apart at its blanks.                                    *)
(***************************************************************************)
EXTENDS Naturals, SequencesExt

CONSTANTS Proc,     \* spawn commands
          Name,     \* names the user gives
          NoWindow,
          MaxUser   \* bound: what the user does

subagents == <<"subagents">>

ASSUME NameAssumption == Name \subseteq Seq(STRING) /\ <<>> \notin Name
ASSUME NoWindowAssumption == NoWindow \notin Nat

VARIABLES windows,  \* the session's windows, in the order of list-windows
          pane,     \* the window that the pane of a command is in
          proc,     \* the commands
          nextId,   \* tmux does not use a window id twice
          user      \* what the user has done so far

vars == <<windows, pane, proc, nextId, user>>

(* A window: id, name and option @mure-subagents-window; who opened it.    *)
(* History: the names it has had, and whether it was named so that no      *)
(* spawn could know it again.                                              *)
Window(id, by, name) == [id |-> id, by |-> by, name |-> name, marked |-> FALSE,
                         names |-> {name}, lost |-> FALSE]

(* A command: where it is, the window it found, and the window it opened.  *)
(* History: another command opened a window since this one found none.     *)
Start == [pc |-> "target", target |-> "subagents-window", found |-> NoWindow,
          wid |-> NoWindow, raced |-> FALSE]

Init ==
  /\ windows = <<Window(0, "user", <<"sh">>)>>
  /\ pane = [p \in Proc |-> NoWindow]
  /\ proc = [p \in Proc |-> Start]
  /\ nextId = 1
  /\ user = 0

Exists(w) == \E i \in DOMAIN windows : windows[i].id = w

Change(w, F(_)) == [i \in DOMAIN windows |-> IF windows[i].id = w THEN F(windows[i])
                                                                  ELSE windows[i]]

At(p, pc) == proc[p].pc = pc
Goto(p, pc) == proc' = [proc EXCEPT ![p].pc = pc]

\* A command that has ended keeps what the properties ask for.
End(p, pc) ==
  proc' = [proc EXCEPT ![p] = [Start EXCEPT !.pc = pc, !.target = proc[p].target,
                                            !.raced = proc[p].raced /\ ~At(p, "create")]]

-----------------------------------------------------------------------------
(* Choosing a window.                                                      *)

\* The option is "subagents-window" (or empty), or a template of a command.
pickSpawnTarget(p) ==
  /\ At(p, "target")
  /\ \E t \in {"subagents-window", "template"} :
       proc' = [proc EXCEPT ![p].target = t,
                            ![p].pc = IF t = "template" THEN "template" ELSE "list"]
  /\ UNCHANGED <<windows, pane, nextId, user>>

\* A line of list-windows in its fields; an option that is not set is empty.
Fields(w) == w.name \o (IF w.marked THEN <<"1">> ELSE <<>>)

\* Two fields are an id and a name, three an id, a name and a marker; any other
\* line is passed over.  The id is not in Fields.
Rows == {i \in DOMAIN windows : Len(Fields(windows[i])) \in {1, 2}}

NameOf(i)   == Fields(windows[i])[1]
MarkerOf(i) == IF Len(Fields(windows[i])) = 2 THEN Fields(windows[i])[2] ELSE ""

First(rows) == IF rows = {} THEN NoWindow ELSE windows[Min(rows)].id

ByMarker == First({i \in Rows : MarkerOf(i) = "1"})
ByName   == First({i \in Rows : NameOf(i) = "subagents"})

\* Mutants: a window is known by its marker only; any third field is a marker.
findMarked == ByMarker
findAnyMarker ==
  LET m == First({i \in Rows : MarkerOf(i) # ""}) IN IF m # NoWindow THEN m ELSE ByName

findSubagentsWindow == IF ByMarker # NoWindow THEN ByMarker ELSE ByName

planSubagentsWindow(p) ==
  /\ At(p, "list")
  /\ proc' = [proc EXCEPT ![p].found = findSubagentsWindow, ![p].pc = "create"]
  /\ UNCHANGED <<windows, pane, nextId, user>>

-----------------------------------------------------------------------------
(* Creating and tagging the pane.                                          *)

Opens(p, by, name) ==
  /\ \E i \in 1 .. Len(windows) + 1 :
       windows' = InsertAt(windows, i, Window(nextId, by, name))
  /\ nextId' = nextId + 1
  /\ pane' = [pane EXCEPT ![p] = nextId]

\* split-window -t; select-layout comes after.
Split(p) ==
  /\ At(p, "create")
  /\ Exists(proc[p].found)
  /\ pane' = [pane EXCEPT ![p] = proc[p].found]
  /\ Goto(p, "layout")
  /\ UNCHANGED <<windows, nextId, user>>

\* new-window -d -n subagents.
NewWindow(p) ==
  /\ At(p, "create")
  /\ proc[p].found = NoWindow
  /\ Opens(p, "mure", subagents)
  /\ proc' = [q \in Proc |->
       IF q = p THEN [proc[p] EXCEPT !.pc = "window"]
       ELSE IF At(q, "create") /\ proc[q].found = NoWindow
         THEN [proc[q] EXCEPT !.raced = TRUE] ELSE proc[q]]
  /\ UNCHANGED user

\* The command of the template opens a window, which tmux names after the
\* command that runs in it, or splits any.
Template(p) ==
  /\ At(p, "template")
  /\ \/ Opens(p, "template", <<"claude">>)
     \/ /\ \E i \in DOMAIN windows : pane' = [pane EXCEPT ![p] = windows[i].id]
        /\ UNCHANGED <<windows, nextId>>
  /\ Goto(p, "role")
  /\ UNCHANGED user

\* PostCreate of a new window: ask for its id, then set the option.
AskWindow(p) ==
  /\ At(p, "window")
  /\ pane[p] # NoWindow
  /\ proc' = [proc EXCEPT ![p].wid = pane[p], ![p].pc = "mark"]
  /\ UNCHANGED <<windows, pane, nextId, user>>

Mark(p) ==
  /\ At(p, "mark")
  /\ Exists(proc[p].wid)
  /\ windows' = Change(proc[p].wid, LAMBDA w : [w EXCEPT !.marked = TRUE])
  /\ Goto(p, "role")
  /\ UNCHANGED <<pane, nextId, user>>

\* PostCreate of a split window.
Layout(p) ==
  /\ At(p, "layout")
  /\ Exists(proc[p].found)
  /\ Goto(p, "role")
  /\ UNCHANGED <<windows, pane, nextId, user>>

\* The options @mure-role and @mure-spawned-at, which differ in nothing that is
\* modelled; then the ids are printed.
TagPane(p) ==
  /\ At(p, "role")
  /\ pane[p] # NoWindow
  /\ End(p, "done")
  /\ UNCHANGED <<windows, pane, nextId, user>>

\* An error of any call ends the command, and nothing is undone; so does a kill.
Fail(p) ==
  /\ proc[p].pc \notin {"done", "failed"}
  /\ End(p, "failed")
  /\ UNCHANGED <<windows, pane, nextId, user>>

-----------------------------------------------------------------------------
(* The user.  A window that a command opened goes with the last agent in it *)
(* (every such window has one).                                            *)

Leave(i) ==
  windows' = IF windows[i].by = "user" \/ \E p \in Proc : pane'[p] = windows[i].id
               THEN windows ELSE RemoveAt(windows, i)

KillPane(p) ==
  /\ pane' = [pane EXCEPT ![p] = NoWindow]
  /\ \E i \in DOMAIN windows : pane[p] = windows[i].id /\ Leave(i)
  /\ UNCHANGED nextId

CloseWindow(i) ==
  /\ Len(windows) > 1
  /\ windows' = RemoveAt(windows, i)
  /\ pane' = [p \in Proc |-> IF pane[p] = windows[i].id THEN NoWindow ELSE pane[p]]
  /\ UNCHANGED nextId

OpenWindow(n) ==
  /\ \E i \in 1 .. Len(windows) + 1 :
       windows' = InsertAt(windows, i, Window(nextId, "user", n))
  /\ nextId' = nextId + 1
  /\ UNCHANGED pane

\* A window without a marker is known by its name only; and a name of several
\* words hides the marker.
Rename(w, n) ==
  /\ windows' = Change(w, LAMBDA x :
       [x EXCEPT !.name = n, !.names = @ \cup {n},
                 !.lost = @ \/ ~x.marked \/ Len(n) > 1])
  /\ UNCHANGED <<pane, nextId>>

User ==
  /\ user < MaxUser
  /\ user' = user + 1
  /\ \/ \E p \in Proc : KillPane(p)
     \/ \E i \in DOMAIN windows : CloseWindow(i)
     \/ \E n \in Name : OpenWindow(n)
     \/ \E i \in DOMAIN windows, n \in Name : Rename(windows[i].id, n)
  /\ UNCHANGED proc

Next ==
  \/ \E p \in Proc :
       \/ pickSpawnTarget(p) \/ planSubagentsWindow(p)
       \/ Split(p) \/ NewWindow(p) \/ Template(p)
       \/ AskWindow(p) \/ Mark(p) \/ Layout(p) \/ TagPane(p) \/ Fail(p)
  \/ User

Spec == Init /\ [][Next]_vars

-----------------------------------------------------------------------------
Known(w) == w.marked \/ w.name = subagents

\* Agents gather in one window.  Two windows that spawn opened, and that a later
\* spawn would take, exist only if a command opened the second one between
\* another's listing and its new-window, or if the user gave one a name by which
\* it is not recognised: not because a command failed, or was killed, before it
\* set the option.
OneWindow ==
  \/ \E p \in Proc : proc[p].raced /\ ~At(p, "create")
  \/ \E i \in DOMAIN windows : windows[i].by = "mure" /\ windows[i].lost
  \/ \A i, j \in DOMAIN windows :
       /\ windows[i].by = "mure" /\ windows[j].by = "mure"
       /\ Known(windows[i]) /\ Known(windows[j])
       => i = j

\* A window once had a name that spawn looks for, or one of two words that reads
\* like a row with that name, or like a row with the marker.
Called(w) ==
  \E n \in w.names :
    n = subagents \/ (Len(n) = 2 /\ (n[1] = "subagents" \/ n[2] = "1"))

\* No window of the user is split for an agent unless it was called subagents,
\* or its name has two words of which the first is subagents or the second is
\* the marker's "1".
RightWindow ==
  \A p \in Proc, i \in DOMAIN windows :
    /\ pane[p] = windows[i].id
    /\ proc[p].target = "subagents-window"
    => Called(windows[i])

=============================================================================
