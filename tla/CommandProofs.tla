----------------------------- MODULE CommandProofs -----------------------------
(***************************************************************************)
(* Proofs about the commands: mure spawn (SpawnTarget), for any set of     *)
(* commands, any names and however much the user does; mure up with the    *)
(* daemons it starts (SocketLifecycle), for any set of processes; and mure *)
(* integration install and uninstall (HarnessInstall), for any manifests   *)
(* that meet the hypotheses stated, whatever fails and the user edits.     *)
(***************************************************************************)
EXTENDS SpawnTarget, SocketLifecycle, HarnessInstall, TLAPS, FiniteSetTheorems,
        NaturalsInduction, WellFoundedInduction

-----------------------------------------------------------------------------
(* Spawn: the inductive invariant.                                         *)

Id == Nat \cup {NoWindow}

\* Words of names.  (That a literal is a STRING is beyond the provers.)
Word == STRING \cup {"sh", "claude", "subagents"}

Opener == {"user", "mure", "template"}

WindowType == [id : Nat, by : Opener, name : Seq(Word), marked : BOOLEAN,
               names : SUBSET Seq(Word), lost : BOOLEAN]

Place  == {"target", "template", "list", "create", "layout", "window", "mark", "role",
           "done", "failed"}
Target == {"subagents-window", "template"}

Command == [pc : Place, target : Target, found : Id, wid : Id, raced : BOOLEAN]

SpawnTypeOK ==
  /\ windows \in Seq(WindowType)
  /\ pane \in [Proc -> Id]
  /\ proc \in [Proc -> Command]
  /\ nextId \in Nat

\* What holds of every window.  One that spawn opened, and to which the user has
\* not given a name by which it is not recognised, is known by its name, or by
\* its marker, which a name of one word does not hide.
Sound(w) ==
  /\ w.name # <<>> /\ w.name \in w.names
  /\ w.marked => subagents \in w.names
  /\ w.by = "mure" /\ ~w.lost =>
       IF w.marked THEN Len(w.name) = 1 ELSE w.name = subagents

\* tmux has not yet used the ids from nextId on, and no id twice.
WindowInv ==
  /\ \A i \in DOMAIN windows : Sound(windows[i]) /\ windows[i].id < nextId
  /\ \A i, j \in DOMAIN windows : windows[i].id = windows[j].id => i = j

Old(w) == w = NoWindow \/ w < nextId

\* The window with this id, if there is one, was named as spawn names its own.
Ours(id) == \A i \in DOMAIN windows : windows[i].id = id => subagents \in windows[i].names

\* It had a name that spawn may take for one of its own.
Taken(id) == \A i \in DOMAIN windows : windows[i].id = id => Called(windows[i])

\* What a command knows, at each place, of the windows that it refers to.
Knows(p) ==
  /\ Old(pane[p]) /\ Old(proc[p].found) /\ Old(proc[p].wid)
  /\ Taken(proc[p].found)
  /\ At(p, "target") => proc[p].target = "subagents-window"
  /\ At(p, "template") => proc[p].target = "template"
  /\ proc[p].target = "subagents-window" => Taken(pane[p])
  /\ At(p, "window") => Ours(pane[p])
  /\ At(p, "mark") => Ours(proc[p].wid)

CommandInv == \A p \in Proc : Knows(p)

\* A window that spawn opened and that a later spawn takes.
Ready(w) == w.by = "mure" /\ ~w.lost

\* A command has opened a window although it no longer had to.
Raced == \E p \in Proc : proc[p].raced /\ ~At(p, "create")

\* A command that found none, and that no other one has overtaken, is about to
\* open one.
Opening(p) == At(p, "create") /\ proc[p].found = NoWindow /\ ~proc[p].raced

Early(p) == At(p, "target") \/ At(p, "list") \/ At(p, "template")

\* Until then there is one such window at most, and none while a command is about
\* to open one.
GatherInv ==
  /\ \A p \in Proc : Early(p) => ~proc[p].raced
  /\ \/ Raced
     \/ /\ \A i, j \in DOMAIN windows : Ready(windows[i]) /\ Ready(windows[j]) => i = j
        /\ \A p \in Proc, i \in DOMAIN windows : Opening(p) => ~Ready(windows[i])

SpawnInv == SpawnTypeOK /\ WindowInv /\ CommandInv /\ GatherInv

-----------------------------------------------------------------------------
(* What the operators on the list of windows do.                           *)

LEMMA Least ==
  ASSUME NEW T \in SUBSET Nat, T # {}
  PROVE  Min(T) \in T /\ \A m \in T : Min(T) <= m
<1>1. PICK n \in T : \A m \in T : <<m, n>> \notin OpToRel(<, Nat)
  BY NatLessThanWellFounded, WFMin
<1>2. \A m \in T : n <= m
  <2> SUFFICES ASSUME NEW m \in T PROVE n <= m
    OBVIOUS
  <2>1. ~(m < n)
    BY <1>1 DEF OpToRel
  <2> QED BY <2>1
<1> QED BY <1>2 DEF Min

\* First is the id of a row, if there is one.
LEMMA FirstOf ==
  ASSUME SpawnTypeOK, NEW rows \in SUBSET DOMAIN windows
  PROVE  /\ rows = {} => First(rows) = NoWindow
         /\ rows # {} => \E i \in rows : First(rows) = windows[i].id
<1>1. ASSUME rows # {} PROVE Min(rows) \in rows
  <2>1. DOMAIN windows \subseteq Nat
    BY DEF SpawnTypeOK
  <2> QED BY <1>1, <2>1, Least
<1> QED BY <1>1 DEF First

LEMMA InsertShape ==
  ASSUME NEW T, NEW s \in Seq(T), NEW e \in T, NEW k \in 1 .. Len(s) + 1
  PROVE  /\ InsertAt(s, k, e) \in Seq(T)
         /\ \A j \in DOMAIN InsertAt(s, k, e) :
              \/ InsertAt(s, k, e)[j] = e /\ j = k
              \/ \E i \in DOMAIN s : /\ InsertAt(s, k, e)[j] = s[i]
                                     /\ j = IF i < k THEN i ELSE i + 1
<1> DEFINE a == SubSeq(s, 1, k - 1)
           b == SubSeq(s, k, Len(s))
<1>1. a \in Seq(T) /\ Len(a) = k - 1 /\ \A i \in 1 .. k - 1 : a[i] = s[i]
  OBVIOUS
<1>2. b \in Seq(T) /\ Len(b) = Len(s) - k + 1 /\ \A i \in 1 .. Len(b) : b[i] = s[k + i - 1]
  OBVIOUS
<1>3. InsertAt(s, k, e) = (a \o <<e>>) \o b
  BY DEF InsertAt
<1> HIDE DEF a, b
<1>4. /\ a \o <<e>> \in Seq(T) /\ Len(a \o <<e>>) = k
      /\ \A i \in 1 .. k - 1 : (a \o <<e>>)[i] = s[i]
      /\ (a \o <<e>>)[k] = e
  BY <1>1
<1> DEFINE c == a \o <<e>>
<1> HIDE DEF c
<1>5. c \o b \in Seq(T)
  BY <1>2, <1>4 DEF c
<1>6. ASSUME NEW j \in DOMAIN (c \o b)
      PROVE  \/ (c \o b)[j] = e /\ j = k
             \/ \E i \in DOMAIN s : (c \o b)[j] = s[i] /\ j = IF i < k THEN i ELSE i + 1
  <2>1. j \in 1 .. Len(s) + 1 /\ (c \o b)[j] = IF j <= k THEN c[j] ELSE b[j - k]
    BY <1>2, <1>4 DEF c
  <2>2. CASE j < k
    <3>1. j \in DOMAIN s /\ (c \o b)[j] = s[j]
      BY <2>1, <2>2, <1>4 DEF c
    <3> QED BY <3>1, <2>2
  <2>3. CASE j = k
    BY <2>1, <2>3, <1>4 DEF c
  <2>4. CASE j > k
    <3>1. j - 1 \in DOMAIN s /\ (c \o b)[j] = b[j - k]
      BY <2>1, <2>4
    <3>2. j - k \in 1 .. Len(b)
      <4>1. j \in Int /\ j <= Len(s) + 1 /\ k \in Int /\ Len(b) = Len(s) - k + 1 /\ Len(s) \in Nat
        BY <2>1, <1>2
      <4> QED BY <4>1, <2>4
    <3>3. b[j - k] = s[j - 1]
      <4>1. b[j - k] = s[k + (j - k) - 1]
        BY <3>2, <1>2
      <4>2. k + (j - k) - 1 = j - 1
        BY <2>1
      <4> QED BY <4>1, <4>2
    <3> QED BY <3>1, <3>3, <2>4
  <2> QED BY <2>1, <2>2, <2>3, <2>4
<1> QED BY <1>3, <1>5, <1>6 DEF c

LEMMA RemoveShape ==
  ASSUME NEW T, NEW s \in Seq(T), NEW k \in 1 .. Len(s)
  PROVE  /\ RemoveAt(s, k) \in Seq(T)
         /\ \A j \in DOMAIN RemoveAt(s, k) :
              \E i \in DOMAIN s : /\ RemoveAt(s, k)[j] = s[i]
                                  /\ i = IF j < k THEN j ELSE j + 1
<1> DEFINE a == SubSeq(s, 1, k - 1)
           b == SubSeq(s, k + 1, Len(s))
<1>1. a \in Seq(T) /\ Len(a) = k - 1 /\ \A i \in 1 .. k - 1 : a[i] = s[i]
  OBVIOUS
<1>2. b \in Seq(T) /\ Len(b) = Len(s) - k /\ \A i \in 1 .. Len(b) : b[i] = s[k + i]
  OBVIOUS
<1>3. RemoveAt(s, k) = a \o b
  BY DEF RemoveAt
<1> HIDE DEF a, b
<1>4. a \o b \in Seq(T) /\ DOMAIN (a \o b) = 1 .. Len(s) - 1
  BY <1>1, <1>2
<1>5. ASSUME NEW j \in DOMAIN (a \o b)
      PROVE  \E i \in DOMAIN s : (a \o b)[j] = s[i] /\ i = IF j < k THEN j ELSE j + 1
  <2>1. (a \o b)[j] = IF j < k THEN a[j] ELSE b[j - (k - 1)]
    BY <1>1, <1>2, <1>4
  <2>2. CASE j < k
    <3>1. j \in DOMAIN s /\ (a \o b)[j] = s[j]
      BY <2>1, <2>2, <1>1, <1>4
    <3> QED BY <3>1, <2>2
  <2>3. CASE ~(j < k)
    <3>1. j - (k - 1) \in 1 .. Len(b) /\ k + (j - (k - 1)) = j + 1 /\ j + 1 \in DOMAIN s
      BY <2>3, <1>2, <1>4
    <3>2. (a \o b)[j] = s[j + 1]
      BY <3>1, <2>1, <2>3, <1>2
    <3> QED BY <3>1, <3>2, <2>3
  <2> QED BY <2>2, <2>3
<1> QED BY <1>3, <1>4, <1>5
-----------------------------------------------------------------------------
(* What the steps do to the list of windows.                               *)

\* A window after a step is this one before it: it keeps its id, forgets no name,
\* and becomes no window that spawn takes for its own.
Same(new, w) ==
  /\ new.id = w.id
  /\ w.names \subseteq new.names
  /\ Ready(new) => Ready(w)

LEMMA WindowOf ==
  ASSUME NEW id \in Nat, NEW by \in Opener, NEW n \in Seq(Word), n # <<>>,
         by = "mure" => n = subagents
  PROVE  Window(id, by, n) \in WindowType /\ Sound(Window(id, by, n))
BY DEF Window, WindowType, Sound

LEMMA OpenedList ==
  ASSUME SpawnTypeOK, WindowInv, NEW by \in Opener, NEW n \in Seq(Word), n # <<>>,
         by = "mure" => n = subagents,
         NEW k \in 1 .. Len(windows) + 1,
         windows' = InsertAt(windows, k, Window(nextId, by, n)), nextId' = nextId + 1
  PROVE  /\ windows' \in Seq(WindowType) /\ WindowInv'
         /\ \A j \in DOMAIN windows' :
              \/ windows'[j] = Window(nextId, by, n)
              \/ \E i \in DOMAIN windows : Same(windows'[j], windows[i])
<1> DEFINE w == Window(nextId, by, n)
<1>1. w \in WindowType /\ Sound(w) /\ w.id = nextId
  BY WindowOf DEF SpawnTypeOK, Window
<1>2. windows \in Seq(WindowType) /\ nextId \in Nat
  BY DEF SpawnTypeOK
<1> HIDE DEF w
<1>3. /\ windows' \in Seq(WindowType)
      /\ \A j \in DOMAIN windows' :
           \/ windows'[j] = w /\ j = k
           \/ \E i \in DOMAIN windows : /\ windows'[j] = windows[i]
                                        /\ j = IF i < k THEN i ELSE i + 1
  <2>1. windows' = InsertAt(windows, k, w)
    BY DEF w
  <2> QED BY <2>1, <1>1, <1>2, InsertShape
<1>4. \A i \in DOMAIN windows : windows[i].id \in Nat /\ windows[i].id < nextId
  <2>1. \A i \in DOMAIN windows : windows[i] \in WindowType
    BY <1>2
  <2> QED BY <2>1 DEF WindowInv, WindowType
<1>5. \A j \in DOMAIN windows' : Sound(windows'[j]) /\ windows'[j].id < nextId'
  BY <1>1, <1>2, <1>3, <1>4 DEF WindowInv
<1>6. ASSUME NEW i \in DOMAIN windows', NEW j \in DOMAIN windows',
             windows'[i].id = windows'[j].id
      PROVE  i = j
  <2>1. CASE i = k /\ windows'[i] = w
    BY <2>1, <1>1, <1>3, <1>4, <1>6
  <2>2. CASE j = k /\ windows'[j] = w
    BY <2>2, <1>1, <1>3, <1>4, <1>6
  <2>3. CASE ~(i = k /\ windows'[i] = w) /\ ~(j = k /\ windows'[j] = w)
    <3>1. PICK i0 \in DOMAIN windows : windows'[i] = windows[i0] /\ i = IF i0 < k THEN i0 ELSE i0 + 1
      BY <2>3, <1>3
    <3>2. PICK j0 \in DOMAIN windows : windows'[j] = windows[j0] /\ j = IF j0 < k THEN j0 ELSE j0 + 1
      BY <2>3, <1>3
    <3>3. i0 = j0
      BY <3>1, <3>2, <1>6 DEF WindowInv
    <3> QED BY <3>1, <3>2, <3>3
  <2> QED BY <2>1, <2>2, <2>3
<1>7. WindowInv'
  BY <1>5, <1>6 DEF WindowInv
<1>8. \A j \in DOMAIN windows' : windows'[j] = w \/ \E i \in DOMAIN windows : Same(windows'[j], windows[i])
  BY <1>3 DEF Same
<1> QED BY <1>3, <1>7, <1>8 DEF w

LEMMA ClosedList ==
  ASSUME SpawnTypeOK, WindowInv, NEW k \in DOMAIN windows,
         windows' = RemoveAt(windows, k), UNCHANGED nextId
  PROVE  /\ windows' \in Seq(WindowType) /\ WindowInv'
         /\ \A j \in DOMAIN windows' : \E i \in DOMAIN windows : Same(windows'[j], windows[i])
<1>1. windows \in Seq(WindowType) /\ k \in 1 .. Len(windows)
  BY DEF SpawnTypeOK
<1>2. /\ windows' \in Seq(WindowType)
      /\ \A j \in DOMAIN windows' :
           \E i \in DOMAIN windows : /\ windows'[j] = windows[i]
                                     /\ i = IF j < k THEN j ELSE j + 1
  BY <1>1, RemoveShape
<1>3. \A j \in DOMAIN windows' : Sound(windows'[j]) /\ windows'[j].id < nextId'
  BY <1>2 DEF WindowInv
<1>4. ASSUME NEW i \in DOMAIN windows', NEW j \in DOMAIN windows',
             windows'[i].id = windows'[j].id
      PROVE  i = j
  <2>1. PICK i0 \in DOMAIN windows : windows'[i] = windows[i0] /\ i0 = IF i < k THEN i ELSE i + 1
    BY <1>2
  <2>2. PICK j0 \in DOMAIN windows : windows'[j] = windows[j0] /\ j0 = IF j < k THEN j ELSE j + 1
    BY <1>2
  <2>3. i0 = j0
    BY <2>1, <2>2, <1>4 DEF WindowInv
  <2>4. i \in Nat /\ j \in Nat /\ k \in Nat
    BY <1>1, <1>2
  <2> QED BY <2>1, <2>2, <2>3, <2>4
<1>5. WindowInv'
  BY <1>3, <1>4 DEF WindowInv
<1> QED BY <1>2, <1>5 DEF Same

LEMMA ChangedList ==
  ASSUME WindowInv, DOMAIN windows' = DOMAIN windows, UNCHANGED nextId,
         \A i \in DOMAIN windows : Sound(windows'[i]) /\ Same(windows'[i], windows[i])
  PROVE  WindowInv'
BY DEF WindowInv, Same

\* What is known of a window by its id stays true of it.
LEMMA KnownKept ==
  ASSUME SpawnTypeOK, NEW x \in Id, Old(x),
         \A j \in DOMAIN windows' :
           \/ windows'[j].id = nextId
           \/ \E i \in DOMAIN windows : Same(windows'[j], windows[i])
  PROVE  /\ Ours(x) => \A j \in DOMAIN windows' : windows'[j].id = x => subagents \in windows'[j].names
         /\ Taken(x) => \A j \in DOMAIN windows' : windows'[j].id = x => Called(windows'[j])
<1>1. x # nextId
  BY NoWindowAssumption DEF Old, SpawnTypeOK
<1> SUFFICES ASSUME NEW j \in DOMAIN windows', windows'[j].id = x
             PROVE  /\ Ours(x) => subagents \in windows'[j].names
                    /\ Taken(x) => Called(windows'[j])
  OBVIOUS
<1>2. PICK i \in DOMAIN windows : Same(windows'[j], windows[i])
  BY <1>1
<1>3. Ours(x) => subagents \in windows'[j].names
  BY <1>2 DEF Ours, Same
<1>4. ASSUME Taken(x) PROVE Called(windows'[j])
  <2>1. Called(windows[i])
    BY <1>2, <1>4 DEF Taken, Same
  <2> QED BY <1>2, <2>1 DEF Called, Same
<1> QED BY <1>3, <1>4
-----------------------------------------------------------------------------
(* What a step keeps.                                                      *)

\* A command that the step does not move, and whose pane stays or goes.
LEMMA OthersKnow ==
  ASSUME SpawnTypeOK, CommandInv, windows' \in Seq(WindowType), nextId' >= nextId,
         nextId' \in Nat,
         \A j \in DOMAIN windows' :
           \/ windows'[j].id = nextId
           \/ \E i \in DOMAIN windows : Same(windows'[j], windows[i]),
         NEW q \in Proc,
         pane'[q] = pane[q] \/ pane'[q] = NoWindow,
         proc'[q].pc = proc[q].pc, proc'[q].target = proc[q].target,
         proc'[q].found = proc[q].found, proc'[q].wid = proc[q].wid
  PROVE  Knows(q)'
<1>1. Knows(q)
  BY DEF CommandInv
<1>2. proc[q].found \in Id /\ proc[q].wid \in Id /\ pane[q] \in Id
  BY DEF SpawnTypeOK, Command
<1>3. \A x \in Id : Old(x) => x = NoWindow \/ x < nextId'
  BY DEF Old, Id, SpawnTypeOK
<1>4. Old(pane[q]) /\ Old(proc[q].found) /\ Old(proc[q].wid)
  BY <1>1 DEF Knows
<1>5. \A j \in DOMAIN windows' : windows'[j].id # NoWindow
  <2>1. \A j \in DOMAIN windows' : windows'[j] \in WindowType
    OBVIOUS
  <2> QED BY <2>1, NoWindowAssumption DEF WindowType
<1>6. Old(pane[q])' /\ Old(proc[q].found)' /\ Old(proc[q].wid)'
  BY <1>2, <1>3, <1>4 DEF Old
<1>7. Taken(proc[q].found)'
  <2>1. Taken(proc[q].found)
    BY <1>1 DEF Knows
  <2>2. \A j \in DOMAIN windows' : windows'[j].id = proc[q].found => Called(windows'[j])
    BY <2>1, <1>2, <1>4, KnownKept
  <2> QED BY <2>2 DEF Taken, Called
<1>8. (At(q, "target") => proc[q].target = "subagents-window")'
  BY <1>1 DEF Knows, At
<1>9. (At(q, "template") => proc[q].target = "template")'
  BY <1>1 DEF Knows, At
<1>10. (proc[q].target = "subagents-window" => Taken(pane[q]))'
  <2> SUFFICES ASSUME proc[q].target = "subagents-window" PROVE Taken(pane[q])'
    OBVIOUS
  <2>1. Taken(pane[q])
    BY <1>1 DEF Knows
  <2>2. \A j \in DOMAIN windows' : windows'[j].id = pane[q] => Called(windows'[j])
    BY <2>1, <1>2, <1>4, KnownKept
  <2> QED BY <2>2, <1>5 DEF Taken, Called
<1>11. (At(q, "window") => Ours(pane[q]))'
  <2> SUFFICES ASSUME At(q, "window") PROVE Ours(pane[q])'
    BY DEF At
  <2>1. Ours(pane[q])
    BY <1>1 DEF Knows
  <2>2. \A j \in DOMAIN windows' : windows'[j].id = pane[q] => subagents \in windows'[j].names
    BY <2>1, <1>2, <1>4, KnownKept
  <2> QED BY <2>2, <1>5 DEF Ours
<1>12. (At(q, "mark") => Ours(proc[q].wid))'
  <2> SUFFICES ASSUME At(q, "mark") PROVE Ours(proc[q].wid)'
    BY DEF At
  <2>1. Ours(proc[q].wid)
    BY <1>1 DEF Knows
  <2>2. \A j \in DOMAIN windows' : windows'[j].id = proc[q].wid => subagents \in windows'[j].names
    BY <2>1, <1>2, <1>4, KnownKept
  <2> QED BY <2>2 DEF Ours
<1> QED BY <1>6, <1>7, <1>8, <1>9, <1>10, <1>11, <1>12 DEF Knows

\* No window becomes one that spawn takes, and no command gets ready to open one
\* while there is one.
LEMMA GatherKept ==
  ASSUME WindowInv, GatherInv, WindowInv',
         \A j \in DOMAIN windows' :
           Ready(windows'[j]) => \E i \in DOMAIN windows : Same(windows'[j], windows[i]),
         \A q \in Proc : (Early(q) => ~proc[q].raced)',
         Raced => Raced',
         \A q \in Proc :
           Opening(q)' => Opening(q) \/ \A i \in DOMAIN windows : ~Ready(windows[i])
  PROVE  GatherInv'
<1>1. CASE Raced
  BY <1>1 DEF GatherInv
<1>2. CASE ~Raced
  <2>1. \A i, j \in DOMAIN windows : Ready(windows[i]) /\ Ready(windows[j]) => i = j
    BY <1>2 DEF GatherInv
  <2>2. \A p \in Proc, i \in DOMAIN windows : Opening(p) => ~Ready(windows[i])
    BY <1>2 DEF GatherInv
  <2>3. ASSUME NEW i \in DOMAIN windows', NEW j \in DOMAIN windows',
               Ready(windows'[i]), Ready(windows'[j])
        PROVE  i = j
    <3>1. PICK i0 \in DOMAIN windows : Same(windows'[i], windows[i0])
      BY <2>3
    <3>2. PICK j0 \in DOMAIN windows : Same(windows'[j], windows[j0])
      BY <2>3
    <3>3. i0 = j0
      BY <3>1, <3>2, <2>1, <2>3 DEF Same
    <3>4. windows'[i].id = windows'[j].id
      BY <3>1, <3>2, <3>3 DEF Same
    <3> QED BY <3>4 DEF WindowInv
  <2>4. ASSUME NEW q \in Proc, NEW j \in DOMAIN windows', Opening(q)', Ready(windows'[j])
        PROVE  FALSE
    <3>1. PICK i \in DOMAIN windows : Same(windows'[j], windows[i])
      BY <2>4
    <3> QED BY <3>1, <2>2, <2>4 DEF Same
  <2>5. (\A i, j \in DOMAIN windows : Ready(windows[i]) /\ Ready(windows[j]) => i = j)'
    BY <2>3 DEF Ready
  <2>6. (\A p \in Proc, i \in DOMAIN windows : Opening(p) => ~Ready(windows[i]))'
    BY <2>4 DEF Ready
  <2> QED BY <2>5, <2>6 DEF GatherInv
<1> QED BY <1>1, <1>2
\* The windows as they were, some of them changed or gone, and perhaps a new one
\* that spawn would not take.
ListGrows ==
  /\ windows' \in Seq(WindowType) /\ WindowInv'
  /\ nextId' \in Nat /\ nextId' >= nextId
  /\ \A j \in DOMAIN windows' :
       \/ windows'[j].id = nextId /\ ~Ready(windows'[j])
       \/ \E i \in DOMAIN windows : Same(windows'[j], windows[i])

LEMMA StillList ==
  ASSUME SpawnTypeOK, WindowInv, UNCHANGED <<windows, nextId>>
  PROVE  ListGrows
BY DEF SpawnTypeOK, WindowInv, ListGrows, Same

\* One command moves from a place where it was to another one.
LEMMA OneMoves ==
  ASSUME SpawnInv, ListGrows, NEW p \in Proc, NEW c \in Command,
         proc' = [proc EXCEPT ![p] = c], pane' \in [Proc -> Id],
         \A q \in Proc : q # p => pane'[q] = pane[q],
         Knows(p)',
         Early(p)' => ~c.raced,
         proc[p].raced /\ ~At(p, "create") => c.raced /\ c.pc # "create",
         Opening(p)' => Opening(p) \/ \A i \in DOMAIN windows : ~Ready(windows[i])
  PROVE  SpawnInv'
<1>1. SpawnTypeOK /\ WindowInv /\ CommandInv /\ GatherInv
  BY DEF SpawnInv
<1>2. proc \in [Proc -> Command]
  BY <1>1 DEF SpawnTypeOK
<1>3. SpawnTypeOK'
  BY <1>2 DEF SpawnTypeOK, ListGrows
<1>4. proc'[p] = c /\ \A q \in Proc : q # p => proc'[q] = proc[q]
  BY <1>2
<1>5. CommandInv'
  <2>1. ASSUME NEW q \in Proc, q # p PROVE Knows(q)'
    BY <1>1, <1>4, <2>1, OthersKnow DEF ListGrows
  <2> QED BY <2>1 DEF CommandInv
<1>6. \A q \in Proc : (Early(q) => ~proc[q].raced)'
  BY <1>1, <1>4 DEF GatherInv, Early, At
<1>7. Raced => Raced'
  <2> SUFFICES ASSUME NEW q \in Proc, proc[q].raced, ~At(q, "create") PROVE Raced'
    BY DEF Raced
  <2> QED BY <1>4 DEF Raced, At
<1>8. \A q \in Proc : Opening(q)' => Opening(q) \/ \A i \in DOMAIN windows : ~Ready(windows[i])
  BY <1>4 DEF Opening, At
<1>9. GatherInv'
  <2>1. \A j \in DOMAIN windows' :
          Ready(windows'[j]) => \E i \in DOMAIN windows : Same(windows'[j], windows[i])
    BY DEF ListGrows
  <2> QED BY <1>1, <1>6, <1>7, <1>8, <2>1, GatherKept DEF ListGrows
<1> QED BY <1>3, <1>5, <1>9 DEF SpawnInv, ListGrows

\* No command moves, but panes go.
LEMMA NoneMoves ==
  ASSUME SpawnInv, ListGrows, UNCHANGED proc, pane' \in [Proc -> Id],
         \A q \in Proc : pane'[q] = pane[q] \/ pane'[q] = NoWindow
  PROVE  SpawnInv'
<1>1. SpawnTypeOK /\ WindowInv /\ CommandInv /\ GatherInv
  BY DEF SpawnInv
<1>2. SpawnTypeOK'
  BY <1>1 DEF SpawnTypeOK, ListGrows
<1>3. CommandInv'
  <2>1. ASSUME NEW q \in Proc PROVE Knows(q)'
    BY <1>1, OthersKnow DEF ListGrows
  <2> QED BY <2>1 DEF CommandInv
<1>4. \A q \in Proc : (Early(q) => ~proc[q].raced)'
  BY <1>1 DEF GatherInv, Early, At
<1>5. Raced => Raced'
  BY DEF Raced, At
<1>6. \A q \in Proc : Opening(q)' => Opening(q)
  BY DEF Opening, At
<1>7. GatherInv'
  <2>1. \A j \in DOMAIN windows' :
          Ready(windows'[j]) => \E i \in DOMAIN windows : Same(windows'[j], windows[i])
    BY DEF ListGrows
  <2> QED BY <1>1, <1>4, <1>5, <1>6, <2>1, GatherKept DEF ListGrows
<1> QED BY <1>2, <1>3, <1>7 DEF SpawnInv, ListGrows
-----------------------------------------------------------------------------
(* What findSubagentsWindow finds.                                         *)

LEMMA FieldsOf ==
  ASSUME NEW w \in WindowType, Sound(w)
  PROVE  /\ w.marked => /\ Len(Fields(w)) = Len(w.name) + 1
                        /\ Fields(w)[1] = w.name[1]
                        /\ Fields(w)[Len(w.name) + 1] = "1"
         /\ ~w.marked => Fields(w) = w.name
         /\ Len(w.name) \in Nat \ {0}
<1>1. w.name \in Seq(Word) /\ w.name # <<>>
  BY DEF Sound, WindowType
<1>2. CASE w.marked
  <2>1. Fields(w) = w.name \o <<"1">>
    BY <1>2 DEF Fields
  <2> QED BY <2>1, <1>1, <1>2
<1>3. CASE ~w.marked
  <2>1. Fields(w) = w.name \o <<>>
    BY <1>3 DEF Fields
  <2> QED BY <2>1, <1>1, <1>3
<1> QED BY <1>2, <1>3

\* A row with the marker, or with the name, is a window that was named so, or of
\* which two words read like that.
LEMMA RowsCalled ==
  ASSUME SpawnTypeOK, WindowInv, NEW i \in Rows,
         MarkerOf(i) = "1" \/ NameOf(i) = "subagents"
  PROVE  Called(windows[i])
<1> DEFINE w == windows[i]
<1>1. i \in DOMAIN windows /\ Len(Fields(w)) \in {1, 2}
  BY DEF Rows
<1>2. w \in WindowType /\ Sound(w)
  BY <1>1 DEF SpawnTypeOK, WindowInv
<1>3. /\ w.name \in Seq(Word) /\ w.name \in w.names
      /\ w.marked \in BOOLEAN
      /\ w.marked => subagents \in w.names
  BY <1>2 DEF WindowType, Sound
<1>4. CASE w.marked
  BY <1>3, <1>4 DEF Called
<1>5. CASE ~w.marked
  <2>1. Fields(w) = w.name
    BY <1>2, <1>5, FieldsOf
  <2>2. CASE MarkerOf(i) = "1"
    <3>1. Len(w.name) = 2 /\ w.name[2] = "1"
      BY <2>1, <2>2 DEF MarkerOf
    <3> QED BY <3>1, <1>3 DEF Called
  <2>3. CASE NameOf(i) = "subagents" /\ Len(w.name) = 1
    <3>1. w.name = subagents
      BY <2>1, <2>3, <1>3 DEF NameOf, subagents
    <3> QED BY <3>1, <1>3 DEF Called
  <2>4. CASE NameOf(i) = "subagents" /\ Len(w.name) = 2
    BY <2>1, <2>4, <1>3 DEF NameOf, Called
  <2> QED BY <1>1, <2>1, <2>2, <2>3, <2>4
<1> QED BY <1>3, <1>4, <1>5

\* A window that spawn takes is in a row with the marker or with the name.
LEMMA ReadyRows ==
  ASSUME SpawnTypeOK, WindowInv, NEW i \in DOMAIN windows, Ready(windows[i])
  PROVE  i \in Rows /\ (MarkerOf(i) = "1" \/ NameOf(i) = "subagents")
<1>1. windows[i] \in WindowType /\ Sound(windows[i])
  BY DEF SpawnTypeOK, WindowInv
<1>2. CASE windows[i].marked
  <2>1. Len(windows[i].name) = 1
    BY <1>1, <1>2 DEF Sound, Ready
  <2>2. Len(Fields(windows[i])) = 2 /\ Fields(windows[i])[2] = "1"
    <3>1. /\ Len(Fields(windows[i])) = Len(windows[i].name) + 1
          /\ Fields(windows[i])[Len(windows[i].name) + 1] = "1"
      BY <1>1, <1>2, FieldsOf
    <3>2. Len(windows[i].name) + 1 = 2
      BY <2>1
    <3> QED BY <3>1, <3>2
  <2> QED BY <2>2 DEF Rows, MarkerOf
<1>3. CASE ~windows[i].marked
  <2>1. Fields(windows[i]) = subagents
    BY <1>1, <1>3, FieldsOf DEF Sound, Ready
  <2>2. Len(subagents) = 1 /\ subagents[1] = "subagents"
    BY DEF subagents
  <2> QED BY <2>1, <2>2 DEF Rows, NameOf
<1>4. windows[i].marked \in BOOLEAN
  BY <1>1 DEF WindowType
<1> QED BY <1>2, <1>3, <1>4

LEMMA FoundWindow ==
  ASSUME SpawnTypeOK, WindowInv
  PROVE  /\ findSubagentsWindow \in Id /\ Old(findSubagentsWindow)
         /\ Taken(findSubagentsWindow)
         /\ findSubagentsWindow = NoWindow => \A i \in DOMAIN windows : ~Ready(windows[i])
<1> DEFINE marks == {i \in Rows : MarkerOf(i) = "1"}
           named == {i \in Rows : NameOf(i) = "subagents"}
<1>1. \A i \in DOMAIN windows : windows[i].id \in Nat /\ windows[i].id < nextId
  <2>1. \A i \in DOMAIN windows : windows[i] \in WindowType
    BY DEF SpawnTypeOK
  <2> QED BY <2>1 DEF WindowInv, WindowType
<1>2. marks \in SUBSET DOMAIN windows /\ named \in SUBSET DOMAIN windows
  BY DEF Rows
<1>3. ByMarker = First(marks) /\ ByName = First(named)
  BY DEF ByMarker, ByName
<1> HIDE DEF marks, named
<1>4. \/ \E i \in marks \cup named : findSubagentsWindow = windows[i].id
      \/ findSubagentsWindow = NoWindow /\ marks = {} /\ named = {}
  <2>1. CASE marks # {}
    <3>1. PICK i \in marks : ByMarker = windows[i].id
      BY <2>1, <1>2, <1>3, FirstOf
    <3>2. ByMarker # NoWindow
      BY <3>1, <1>1, <1>2, NoWindowAssumption
    <3> QED BY <3>1, <3>2 DEF findSubagentsWindow
  <2>2. CASE marks = {}
    <3>1. ByMarker = NoWindow
      BY <2>2, <1>2, <1>3, FirstOf
    <3>2. findSubagentsWindow = ByName
      BY <3>1 DEF findSubagentsWindow
    <3>3. named = {} => ByName = NoWindow
      BY <1>2, <1>3, FirstOf
    <3>4. named # {} => \E i \in named : ByName = windows[i].id
      BY <1>2, <1>3, FirstOf
    <3> QED BY <2>2, <3>2, <3>3, <3>4
  <2> QED BY <2>1, <2>2
<1>5. CASE \E i \in marks \cup named : findSubagentsWindow = windows[i].id
  <2>1. PICK i \in marks \cup named : findSubagentsWindow = windows[i].id
    BY <1>5
  <2>2. i \in DOMAIN windows
    BY <1>2
  <2>3. Called(windows[i])
    <3>1. i \in Rows /\ (MarkerOf(i) = "1" \/ NameOf(i) = "subagents")
      BY DEF marks, named
    <3> QED BY <3>1, RowsCalled
  <2>4. \A j \in DOMAIN windows : windows[j].id = windows[i].id => j = i
    BY <2>2 DEF WindowInv
  <2>5. Taken(findSubagentsWindow)
    BY <2>1, <2>3, <2>4 DEF Taken
  <2>6. findSubagentsWindow \in Nat /\ findSubagentsWindow < nextId
    BY <2>1, <2>2, <1>1
  <2> QED BY <2>5, <2>6, NoWindowAssumption DEF Id, Old
<1>6. CASE findSubagentsWindow = NoWindow /\ marks = {} /\ named = {}
  <2>1. Taken(NoWindow)
    BY <1>1, NoWindowAssumption DEF Taken
  <2>2. \A i \in DOMAIN windows : ~Ready(windows[i])
    BY <1>6, ReadyRows DEF marks, named
  <2> QED BY <1>6, <2>1, <2>2 DEF Id, Old
<1> QED BY <1>4, <1>5, <1>6
-----------------------------------------------------------------------------
(* Every action of a spawn preserves the invariant.                        *)

LEMMA PickStep ==
  ASSUME SpawnInv, NEW p \in Proc, pickSpawnTarget(p)
  PROVE  SpawnInv'
<1>1. SpawnTypeOK /\ WindowInv /\ Knows(p)
  BY DEF SpawnInv, CommandInv
<1> proc[p] \in Command
  BY DEF SpawnInv, SpawnTypeOK
<1>2. PICK t \in Target :
        proc' = [proc EXCEPT ![p].target = t,
                             ![p].pc = IF t = "template" THEN "template" ELSE "list"]
  BY DEF pickSpawnTarget, Target
<1> DEFINE c == [proc[p] EXCEPT !.target = t,
                                !.pc = IF t = "template" THEN "template" ELSE "list"]
<1>3. proc' = [proc EXCEPT ![p] = c] /\ proc'[p] = c
  BY <1>2 DEF SpawnInv, SpawnTypeOK
<1>4. c \in Command /\ c.raced = proc[p].raced
  BY DEF Command, Place
<1>5. /\ c.target = t /\ c.found = proc[p].found /\ c.wid = proc[p].wid
      /\ c.pc = IF t = "template" THEN "template" ELSE "list"
  BY DEF Command
<1> HIDE DEF c
<1>6. At(p, "target") /\ proc[p].target = "subagents-window" /\ Taken(pane[p])
  BY <1>1 DEF pickSpawnTarget, Knows
<1>7. UNCHANGED <<windows, pane, nextId>>
  BY DEF pickSpawnTarget
<1>8. Knows(p)'
  BY <1>1, <1>3, <1>5, <1>6, <1>7 DEF Knows, At, Old, Taken, Ours, Target
<1>9. ~c.raced /\ ~proc[p].raced
  BY <1>4, <1>6 DEF SpawnInv, GatherInv, Early
<1>10. ListGrows
  BY <1>1, <1>7, StillList
<1>11. pane' \in [Proc -> Id] /\ \A q \in Proc : pane'[q] = pane[q]
  BY <1>1, <1>7 DEF SpawnTypeOK
<1>12. ~Opening(p)'
  BY <1>3, <1>5 DEF Opening, At
<1> QED BY <1>3, <1>4, <1>8, <1>9, <1>10, <1>11, <1>12, OneMoves

LEMMA PlanStep ==
  ASSUME SpawnInv, NEW p \in Proc, planSubagentsWindow(p)
  PROVE  SpawnInv'
<1>1. SpawnTypeOK /\ WindowInv /\ Knows(p)
  BY DEF SpawnInv, CommandInv
<1> proc[p] \in Command
  BY DEF SpawnInv, SpawnTypeOK
<1> DEFINE f == findSubagentsWindow
           c == [proc[p] EXCEPT !.found = f, !.pc = "create"]
<1>2. proc' = [proc EXCEPT ![p] = c] /\ proc'[p] = c
  BY DEF planSubagentsWindow, SpawnInv, SpawnTypeOK
<1>3. /\ f \in Id /\ Old(f) /\ Taken(f)
      /\ f = NoWindow => \A i \in DOMAIN windows : ~Ready(windows[i])
  BY <1>1, FoundWindow
<1> f \in Id
  BY <1>3
<1> HIDE DEF f
<1>4. c \in Command /\ c.raced = proc[p].raced
  BY DEF Command, Place
<1>5. c.pc = "create" /\ c.target = proc[p].target /\ c.found = f /\ c.wid = proc[p].wid
  BY DEF Command
<1> HIDE DEF c
<1>6. UNCHANGED <<windows, pane, nextId>> /\ At(p, "list")
  BY DEF planSubagentsWindow
<1>7. Knows(p)'
  BY <1>1, <1>2, <1>3, <1>5, <1>6 DEF Knows, At, Old, Taken
<1>8. ListGrows
  BY <1>1, <1>6, StillList
<1>9. pane' \in [Proc -> Id] /\ \A q \in Proc : pane'[q] = pane[q]
  BY <1>1, <1>6 DEF SpawnTypeOK
<1>10. Opening(p)' => \A i \in DOMAIN windows : ~Ready(windows[i])
  BY <1>2, <1>3, <1>5 DEF Opening
<1>11. ~proc[p].raced
  BY <1>6 DEF SpawnInv, GatherInv, Early
<1>12. ~Early(p)'
  BY <1>2, <1>5 DEF Early, At
<1> QED BY <1>2, <1>4, <1>7, <1>8, <1>9, <1>10, <1>11, <1>12, OneMoves

\* PostCreate of a new window asks for its id.
LEMMA AskStep ==
  ASSUME SpawnInv, NEW p \in Proc, AskWindow(p)
  PROVE  SpawnInv'
<1>1. SpawnTypeOK /\ WindowInv /\ Knows(p)
  BY DEF SpawnInv, CommandInv
<1> proc[p] \in Command /\ pane[p] \in Id
  BY DEF SpawnInv, SpawnTypeOK
<1> DEFINE c == [proc[p] EXCEPT !.wid = pane[p], !.pc = "mark"]
<1>2. proc' = [proc EXCEPT ![p] = c] /\ proc'[p] = c
  BY DEF AskWindow, SpawnInv, SpawnTypeOK
<1>3. c \in Command /\ c.raced = proc[p].raced
  BY DEF Command, Place
<1>4. c.pc = "mark" /\ c.target = proc[p].target /\ c.found = proc[p].found /\ c.wid = pane[p]
  BY DEF Command
<1> HIDE DEF c
<1>5. UNCHANGED <<windows, pane, nextId>> /\ At(p, "window")
  BY DEF AskWindow
<1>6. Knows(p)'
  BY <1>1, <1>2, <1>4, <1>5 DEF Knows, At, Old, Taken, Ours
<1>7. ListGrows
  BY <1>1, <1>5, StillList
<1>8. pane' \in [Proc -> Id] /\ \A q \in Proc : pane'[q] = pane[q]
  BY <1>1, <1>5 DEF SpawnTypeOK
<1>9. ~Opening(p)' /\ ~Early(p)'
  BY <1>2, <1>4 DEF Opening, Early, At
<1> QED BY <1>2, <1>3, <1>4, <1>6, <1>7, <1>8, <1>9, OneMoves

\* Layout of a split window, and the end of a command in any way.
LEMMA LayoutStep ==
  ASSUME SpawnInv, NEW p \in Proc, Layout(p)
  PROVE  SpawnInv'
<1>1. SpawnTypeOK /\ WindowInv /\ Knows(p)
  BY DEF SpawnInv, CommandInv
<1> proc[p] \in Command
  BY DEF SpawnInv, SpawnTypeOK
<1> DEFINE c == [proc[p] EXCEPT !.pc = "role"]
<1>2. proc' = [proc EXCEPT ![p] = c] /\ proc'[p] = c
  BY DEF Layout, Goto, SpawnInv, SpawnTypeOK
<1>3. c \in Command /\ c.raced = proc[p].raced
  BY DEF Command, Place
<1>4. /\ c.pc = "role" /\ c.target = proc[p].target
      /\ c.found = proc[p].found /\ c.wid = proc[p].wid
  BY DEF Command
<1> HIDE DEF c
<1>5. UNCHANGED <<windows, pane, nextId>> /\ At(p, "layout")
  BY DEF Layout
<1>6. Knows(p)'
  BY <1>1, <1>2, <1>4, <1>5 DEF Knows, At, Old, Taken, Ours
<1>7. ListGrows
  BY <1>1, <1>5, StillList
<1>8. pane' \in [Proc -> Id] /\ \A q \in Proc : pane'[q] = pane[q]
  BY <1>1, <1>5 DEF SpawnTypeOK
<1>9. ~Opening(p)' /\ ~Early(p)'
  BY <1>2, <1>4 DEF Opening, Early, At
<1> QED BY <1>2, <1>3, <1>4, <1>6, <1>7, <1>8, <1>9, OneMoves

LEMMA EndStep ==
  ASSUME SpawnInv, NEW p \in Proc, TagPane(p) \/ Fail(p)
  PROVE  SpawnInv'
<1>1. SpawnTypeOK /\ WindowInv /\ Knows(p)
  BY DEF SpawnInv, CommandInv
<1> proc[p] \in Command
  BY DEF SpawnInv, SpawnTypeOK
<1>2. PICK end \in {"done", "failed"} : End(p, end)
  BY DEF TagPane, Fail
<1> DEFINE c == [Start EXCEPT !.pc = end, !.target = proc[p].target,
                              !.raced = proc[p].raced /\ ~At(p, "create")]
<1>3. proc' = [proc EXCEPT ![p] = c] /\ proc'[p] = c
  BY <1>2 DEF End, SpawnInv, SpawnTypeOK
<1>4. c.pc = end /\ c.target = proc[p].target /\ c.found = NoWindow /\ c.wid = NoWindow
  BY DEF Start
<1>5. c.raced <=> proc[p].raced /\ ~At(p, "create")
  BY DEF Start
<1>6. c \in Command
  <2> DEFINE r == proc[p].raced /\ ~At(p, "create")
  <2>1. r \in BOOLEAN
    OBVIOUS
  <2>2. proc[p].target \in Target /\ NoWindow \in Id /\ end \in Place
    BY DEF Command, Id, Place
  <2> HIDE DEF r
  <2>3. [Start EXCEPT !.pc = end, !.target = proc[p].target, !.raced = r] \in Command
    BY <2>1, <2>2 DEF Start, Command
  <2> QED BY <2>3 DEF r
<1> HIDE DEF c
<1>7. UNCHANGED <<windows, pane, nextId>>
  BY DEF TagPane, Fail
<1>8. \A i \in DOMAIN windows : windows[i].id # NoWindow
  <2>1. \A i \in DOMAIN windows : windows[i] \in WindowType
    BY <1>1 DEF SpawnTypeOK
  <2> QED BY <2>1, NoWindowAssumption DEF WindowType
<1>9. Knows(p)'
  BY <1>1, <1>3, <1>4, <1>7, <1>8 DEF Knows, At, Old, Taken, Ours
<1>10. ListGrows
  BY <1>1, <1>7, StillList
<1>11. pane' \in [Proc -> Id] /\ \A q \in Proc : pane'[q] = pane[q]
  BY <1>1, <1>7 DEF SpawnTypeOK
<1>12. ~Opening(p)' /\ ~Early(p)' /\ c.pc # "create"
  BY <1>3, <1>4 DEF Opening, Early, At
<1> QED BY <1>3, <1>5, <1>6, <1>9, <1>10, <1>11, <1>12, OneMoves

LEMMA SplitStep ==
  ASSUME SpawnInv, NEW p \in Proc, Split(p)
  PROVE  SpawnInv'
<1>1. SpawnTypeOK /\ WindowInv /\ Knows(p)
  BY DEF SpawnInv, CommandInv
<1> proc[p] \in Command
  BY DEF SpawnInv, SpawnTypeOK
<1> DEFINE c == [proc[p] EXCEPT !.pc = "layout"]
<1>2. proc' = [proc EXCEPT ![p] = c] /\ proc'[p] = c
  BY DEF Split, Goto, SpawnInv, SpawnTypeOK
<1>3. c \in Command /\ c.raced = proc[p].raced
  BY DEF Command, Place
<1>4. /\ c.pc = "layout" /\ c.target = proc[p].target
      /\ c.found = proc[p].found /\ c.wid = proc[p].wid
  BY DEF Command
<1>5. proc[p].found \in Id
  BY DEF Command
<1> HIDE DEF c
<1>6. UNCHANGED <<windows, nextId>> /\ At(p, "create")
  BY DEF Split
<1>7. /\ pane' \in [Proc -> Id] /\ pane'[p] = proc[p].found
      /\ \A q \in Proc : q # p => pane'[q] = pane[q]
  BY <1>1, <1>5 DEF SpawnTypeOK, Split
<1>8. Knows(p)'
  BY <1>1, <1>2, <1>4, <1>6, <1>7 DEF Knows, At, Old, Taken, Ours
<1>9. ListGrows
  BY <1>1, <1>6, StillList
<1>10. ~Opening(p)' /\ ~Early(p)'
  BY <1>2, <1>4 DEF Opening, Early, At
<1> QED BY <1>2, <1>3, <1>4, <1>6, <1>7, <1>8, <1>9, <1>10, OneMoves

\* The template's command opens a window that spawn would not take, or splits one.
LEMMA TemplateStep ==
  ASSUME SpawnInv, NEW p \in Proc, Template(p)
  PROVE  SpawnInv'
<1>1. SpawnTypeOK /\ WindowInv /\ Knows(p) /\ GatherInv
  BY DEF SpawnInv, CommandInv
<1> proc[p] \in Command
  BY DEF SpawnInv, SpawnTypeOK
<1> DEFINE c == [proc[p] EXCEPT !.pc = "role"]
<1>2. proc' = [proc EXCEPT ![p] = c] /\ proc'[p] = c
  BY DEF Template, Goto, SpawnInv, SpawnTypeOK
<1>3. c \in Command /\ c.raced = proc[p].raced
  BY DEF Command, Place
<1>4. /\ c.pc = "role" /\ c.target = proc[p].target
      /\ c.found = proc[p].found /\ c.wid = proc[p].wid
  BY DEF Command
<1>5. proc[p].found \in Id /\ proc[p].wid \in Id
  BY DEF Command
<1> HIDE DEF c
<1>6. At(p, "template") /\ proc[p].target = "template"
  BY <1>1 DEF Template, Knows
<1>7. ~Opening(p)' /\ ~Early(p)'
  BY <1>2, <1>4 DEF Opening, Early, At
<1>8. ~proc[p].raced
  BY <1>1, <1>6 DEF GatherInv, Early
<1>9. \A i \in DOMAIN windows : windows[i].id \in Nat /\ windows[i].id < nextId
  <2>1. \A i \in DOMAIN windows : windows[i] \in WindowType
    BY <1>1 DEF SpawnTypeOK
  <2> QED BY <1>1, <2>1 DEF WindowInv, WindowType
<1>10. CASE Opens(p, "template", <<"claude">>)
  <2> DEFINE n == <<"claude">>
  <2>1. n \in Seq(Word) /\ n # <<>> /\ "template" \in Opener
    BY DEF Word, Opener
  <2>2. PICK k \in 1 .. Len(windows) + 1 :
          windows' = InsertAt(windows, k, Window(nextId, "template", n))
    BY <1>10 DEF Opens
  <2>3. nextId' = nextId + 1 /\ pane' = [pane EXCEPT ![p] = nextId] /\ nextId \in Nat
    BY <1>1, <1>10 DEF Opens, SpawnTypeOK
  <2> HIDE DEF n
  <2>4. /\ windows' \in Seq(WindowType) /\ WindowInv'
        /\ \A j \in DOMAIN windows' :
             \/ windows'[j] = Window(nextId, "template", n)
             \/ \E i \in DOMAIN windows : Same(windows'[j], windows[i])
    BY <1>1, <2>1, <2>2, <2>3, OpenedList
  <2>5. /\ Window(nextId, "template", n).id = nextId
        /\ ~Ready(Window(nextId, "template", n))
    BY DEF Window, Ready
  <2>6. ListGrows
    BY <2>3, <2>4, <2>5 DEF ListGrows
  <2>7. /\ pane' \in [Proc -> Id] /\ pane'[p] = nextId
        /\ \A q \in Proc : q # p => pane'[q] = pane[q]
    BY <1>1, <2>3 DEF SpawnTypeOK, Id
  <2>8. Old(pane[p])' /\ Old(proc[p].found)' /\ Old(proc[p].wid)'
    BY <1>1, <1>2, <1>4, <1>5, <2>3, <2>7 DEF Knows, Old, Id
  <2>9. Taken(proc[p].found)'
    <3>1. Old(proc[p].found) /\ Taken(proc[p].found)
      BY <1>1 DEF Knows
    <3>2. \A j \in DOMAIN windows' : windows'[j].id = proc[p].found => Called(windows'[j])
      BY <3>1, <1>1, <1>5, <2>6, KnownKept DEF ListGrows
    <3> QED BY <1>2, <1>4, <3>2 DEF Taken
  <2>10. Knows(p)'
    BY <1>2, <1>4, <1>6, <2>8, <2>9 DEF Knows, At
  <2> QED BY <1>2, <1>3, <1>7, <1>8, <2>6, <2>7, <2>10, OneMoves
<1>11. CASE /\ \E i \in DOMAIN windows : pane' = [pane EXCEPT ![p] = windows[i].id]
            /\ UNCHANGED <<windows, nextId>>
  <2>1. PICK i \in DOMAIN windows : pane' = [pane EXCEPT ![p] = windows[i].id]
    BY <1>11
  <2>2. /\ pane' \in [Proc -> Id] /\ pane'[p] = windows[i].id
        /\ \A q \in Proc : q # p => pane'[q] = pane[q]
    BY <1>1, <1>9, <2>1 DEF SpawnTypeOK, Id
  <2>3. Knows(p)'
    BY <1>1, <1>2, <1>4, <1>6, <1>9, <1>11, <2>2 DEF Knows, At, Old, Taken
  <2>4. ListGrows
    BY <1>1, <1>11, StillList
  <2> QED BY <1>2, <1>3, <1>7, <1>8, <2>2, <2>3, <2>4, OneMoves
<1> QED BY <1>10, <1>11 DEF Template

\* A window that is marked keeps being known.
LEMMA MarkStep ==
  ASSUME SpawnInv, NEW p \in Proc, Mark(p)
  PROVE  SpawnInv'
<1>1. SpawnTypeOK /\ WindowInv /\ Knows(p)
  BY DEF SpawnInv, CommandInv
<1> proc[p] \in Command
  BY DEF SpawnInv, SpawnTypeOK
<1> DEFINE c == [proc[p] EXCEPT !.pc = "role"]
<1>2. proc' = [proc EXCEPT ![p] = c] /\ proc'[p] = c
  BY DEF Mark, Goto, SpawnInv, SpawnTypeOK
<1>3. c \in Command /\ c.raced = proc[p].raced
  BY DEF Command, Place
<1>4. /\ c.pc = "role" /\ c.target = proc[p].target
      /\ c.found = proc[p].found /\ c.wid = proc[p].wid
  BY DEF Command
<1> HIDE DEF c
<1>5. At(p, "mark") /\ Ours(proc[p].wid)
  BY <1>1 DEF Mark, Knows
<1>6. UNCHANGED <<pane, nextId>>
  BY DEF Mark
<1>7. windows \in Seq(WindowType) /\ nextId \in Nat
  BY <1>1 DEF SpawnTypeOK
<1>8. windows' = [i \in DOMAIN windows |->
                    IF windows[i].id = proc[p].wid THEN [windows[i] EXCEPT !.marked = TRUE]
                    ELSE windows[i]]
  BY DEF Mark, Change
<1>9. ASSUME NEW i \in DOMAIN windows
      PROVE  windows'[i] \in WindowType /\ Sound(windows'[i]) /\ Same(windows'[i], windows[i])
  <2> DEFINE w == windows[i]
             m == [w EXCEPT !.marked = TRUE]
  <2>1. w \in WindowType
    BY <1>7
  <2>2. Sound(w)
    BY <1>1 DEF WindowInv
  <2>3. CASE w.id = proc[p].wid
    <3>1. windows'[i] = m
      BY <1>8, <2>3
    <3>2. m \in WindowType
      BY <2>1 DEF WindowType
    <3>3. m.marked = TRUE /\ m.lost = w.lost
      BY <2>1 DEF WindowType
    <3>4. m.id = w.id /\ m.by = w.by /\ m.name = w.name /\ m.names = w.names
      BY <2>1 DEF WindowType
    <3>5. subagents \in w.names
      BY <1>5, <2>3 DEF Ours
    <3>6. w.by = "mure" /\ ~w.lost => Len(w.name) = 1
      <4>1. Len(subagents) = 1
        BY DEF subagents
      <4> QED BY <2>2, <4>1 DEF Sound
    <3> HIDE DEF m
    <3>7. Sound(m)
      BY <2>2, <3>3, <3>4, <3>5, <3>6 DEF Sound
    <3>8. Same(m, w)
      BY <3>3, <3>4 DEF Same, Ready
    <3> QED BY <3>1, <3>2, <3>7, <3>8
  <2>4. CASE w.id # proc[p].wid
    <3>1. windows'[i] = w
      BY <1>8, <2>4
    <3> QED BY <2>1, <2>2, <3>1 DEF Same
  <2> QED BY <2>3, <2>4
<1>10. DOMAIN windows' = DOMAIN windows /\ windows' \in Seq(WindowType)
  <2>1. DOMAIN windows' = 1 .. Len(windows) /\ DOMAIN windows = 1 .. Len(windows)
    BY <1>7, <1>8
  <2>2. windows' = [i \in 1 .. Len(windows) |-> windows'[i]]
    BY <1>8, <2>1
  <2> QED BY <1>7, <1>9, <2>1, <2>2
<1>11. WindowInv'
  BY <1>1, <1>6, <1>9, <1>10, ChangedList
<1>12. ListGrows
  BY <1>6, <1>7, <1>9, <1>10, <1>11 DEF ListGrows
<1>13. Knows(p)'
  <2>1. \A j \in DOMAIN windows' : \E i \in DOMAIN windows : Same(windows'[j], windows[i])
    BY <1>9, <1>10
  <2>2. proc[p].found \in Id /\ pane[p] \in Id
    BY <1>1 DEF SpawnTypeOK, Command
  <2>3. Old(proc[p].found) /\ Taken(proc[p].found) /\ Old(pane[p])
    BY <1>1 DEF Knows
  <2>4. \A j \in DOMAIN windows' : windows'[j].id = proc[p].found => Called(windows'[j])
    BY <1>1, <2>1, <2>2, <2>3, KnownKept
  <2>5. Taken(pane[p]) => \A j \in DOMAIN windows' : windows'[j].id = pane[p] => Called(windows'[j])
    BY <1>1, <2>1, <2>2, <2>3, KnownKept
  <2> QED BY <1>1, <1>2, <1>4, <1>6, <2>4, <2>5 DEF Knows, At, Old, Taken
<1>14. pane' \in [Proc -> Id] /\ \A q \in Proc : pane'[q] = pane[q]
  BY <1>1, <1>6 DEF SpawnTypeOK
<1>15. ~Opening(p)' /\ ~Early(p)'
  BY <1>2, <1>4 DEF Opening, Early, At
<1> QED BY <1>2, <1>3, <1>4, <1>12, <1>13, <1>14, <1>15, OneMoves
\* A command that is not overtaken opens the only window of its kind, and
\* overtakes those that are about to open one.
LEMMA NewWindowStep ==
  ASSUME SpawnInv, NEW p \in Proc, NewWindow(p)
  PROVE  SpawnInv'
<1>1. SpawnTypeOK /\ WindowInv /\ CommandInv /\ GatherInv
  BY DEF SpawnInv
<1>2. At(p, "create") /\ proc[p].found = NoWindow /\ Opens(p, "mure", subagents)
  BY DEF NewWindow
<1> DEFINE w == Window(nextId, "mure", subagents)
<1>3. nextId' = nextId + 1 /\ pane' = [pane EXCEPT ![p] = nextId] /\ nextId \in Nat
  BY <1>1, <1>2 DEF Opens, SpawnTypeOK
<1>4. /\ windows' \in Seq(WindowType) /\ WindowInv'
      /\ \A j \in DOMAIN windows' :
           windows'[j] = w \/ \E i \in DOMAIN windows : Same(windows'[j], windows[i])
  <2>1. subagents \in Seq(Word) /\ subagents # <<>> /\ "mure" \in Opener
    BY DEF subagents, Word, Opener
  <2>2. PICK k \in 1 .. Len(windows) + 1 : windows' = InsertAt(windows, k, w)
    BY <1>2 DEF Opens
  <2> QED BY <1>1, <1>3, <2>1, <2>2, OpenedList
<1>5. w.id = nextId /\ w.names = {subagents}
  BY DEF Window
<1>6. \A i \in DOMAIN windows : windows[i].id < nextId /\ windows[i].id \in Nat
  <2>1. \A i \in DOMAIN windows : windows[i] \in WindowType
    BY <1>1 DEF SpawnTypeOK
  <2> QED BY <1>1, <2>1 DEF WindowInv, WindowType
<1> HIDE DEF w
<1>7. \A q \in Proc : proc[q] \in Command
  BY <1>1 DEF SpawnTypeOK
<1>8. proc' = [q \in Proc |->
        IF q = p THEN [proc[p] EXCEPT !.pc = "window"]
        ELSE IF At(q, "create") /\ proc[q].found = NoWindow
          THEN [proc[q] EXCEPT !.raced = TRUE] ELSE proc[q]]
  BY DEF NewWindow
<1>9. \A q \in Proc : proc'[q] \in Command
  <2> SUFFICES ASSUME NEW q \in Proc PROVE proc'[q] \in Command
    OBVIOUS
  <2> proc[q] \in Command /\ proc[p] \in Command
    BY <1>7
  <2>1. [proc[p] EXCEPT !.pc = "window"] \in Command
    BY DEF Command, Place
  <2>2. [proc[q] EXCEPT !.raced = TRUE] \in Command
    BY DEF Command
  <2> QED BY <1>8, <2>1, <2>2
<1>10. \A q \in Proc : /\ proc'[q].target = proc[q].target
                       /\ proc'[q].found = proc[q].found /\ proc'[q].wid = proc[q].wid
                       /\ proc'[q].pc = IF q = p THEN "window" ELSE proc[q].pc
  <2> SUFFICES ASSUME NEW q \in Proc
               PROVE  /\ proc'[q].target = proc[q].target
                      /\ proc'[q].found = proc[q].found /\ proc'[q].wid = proc[q].wid
                      /\ proc'[q].pc = IF q = p THEN "window" ELSE proc[q].pc
    OBVIOUS
  <2> proc[q] \in Command
    BY <1>7
  <2> QED BY <1>8 DEF Command
<1>11. \A q \in Proc : q # p =>
         proc'[q].raced = IF At(q, "create") /\ proc[q].found = NoWindow THEN TRUE
                          ELSE proc[q].raced
  <2> SUFFICES ASSUME NEW q \in Proc, q # p
               PROVE  proc'[q].raced =
                        IF At(q, "create") /\ proc[q].found = NoWindow THEN TRUE
                        ELSE proc[q].raced
    OBVIOUS
  <2> proc[q] \in Command
    BY <1>7
  <2>1. CASE At(q, "create") /\ proc[q].found = NoWindow
    <3>1. proc'[q] = [proc[q] EXCEPT !.raced = TRUE]
      BY <1>8, <2>1
    <3> QED BY <3>1, <2>1 DEF Command
  <2>2. CASE ~(At(q, "create") /\ proc[q].found = NoWindow)
    BY <1>8, <2>2
  <2> QED BY <2>1, <2>2
<1>12. proc'[p].raced = proc[p].raced
  <2> proc[p] \in Command
    BY <1>7
  <2>1. proc'[p] = [proc[p] EXCEPT !.pc = "window"]
    BY <1>8
  <2> QED BY <2>1 DEF Command
<1>13. SpawnTypeOK'
  <2>1. proc' \in [Proc -> Command]
    BY <1>8, <1>9
  <2>2. pane' \in [Proc -> Id]
    BY <1>1, <1>3 DEF SpawnTypeOK, Id
  <2> QED BY <1>3, <1>4, <2>1, <2>2 DEF SpawnTypeOK
<1>14. pane'[p] = nextId /\ \A q \in Proc : q # p => pane'[q] = pane[q]
  BY <1>1, <1>3 DEF SpawnTypeOK
<1>15. \A j \in DOMAIN windows' :
         \/ windows'[j].id = nextId
         \/ \E i \in DOMAIN windows : Same(windows'[j], windows[i])
  BY <1>4, <1>5
<1>16. ASSUME NEW j \in DOMAIN windows', windows'[j].id = nextId PROVE windows'[j] = w
  BY <1>4, <1>6, <1>16 DEF Same
<1>17. CommandInv'
  <2>1. ASSUME NEW q \in Proc, q # p PROVE Knows(q)'
    BY <1>1, <1>3, <1>4, <1>10, <1>14, <1>15, <2>1, OthersKnow
  <2>2. Knows(p)'
    <3>1. Knows(p) /\ proc[p].wid \in Id
      BY <1>1, <1>7 DEF CommandInv, Command
    <3>2. Old(pane[p])' /\ Old(proc[p].found)' /\ Old(proc[p].wid)'
      BY <1>2, <1>3, <1>10, <1>14, <3>1 DEF Knows, Old, Id
    <3>3. \A j \in DOMAIN windows' : windows'[j].id # NoWindow
      <4>1. \A j \in DOMAIN windows' : windows'[j] \in WindowType
        BY <1>4
      <4> QED BY <4>1, NoWindowAssumption DEF WindowType
    <3>4. Taken(proc[p].found)'
      BY <1>2, <1>10, <3>3 DEF Taken
    <3>5. \A j \in DOMAIN windows' :
            windows'[j].id = nextId => subagents \in windows'[j].names /\ Called(windows'[j])
      BY <1>5, <1>16 DEF Called
    <3>6. Taken(pane[p])' /\ Ours(pane[p])'
      BY <1>14, <3>5 DEF Taken, Ours
    <3> QED BY <1>10, <3>2, <3>4, <3>6 DEF Knows, At
  <2> QED BY <2>1, <2>2 DEF CommandInv
<1>18. \A q \in Proc : (Early(q) => ~proc[q].raced)'
  BY <1>1, <1>10, <1>11 DEF GatherInv, Early, At
<1>19. ASSUME NEW q \in Proc, proc[q].raced, ~At(q, "create")
       PROVE  proc'[q].raced /\ ~At(q, "create")'
  BY <1>2, <1>10, <1>11, <1>19 DEF At
<1>20. GatherInv'
  <2>1. CASE Raced
    <3>1. Raced'
      BY <1>19, <2>1 DEF Raced
    <3> QED BY <1>18, <3>1 DEF GatherInv
  <2>2. CASE proc[p].raced
    <3>1. proc'[p].raced /\ ~At(p, "create")'
      BY <1>10, <1>12, <2>2 DEF At
    <3>2. Raced'
      BY <3>1 DEF Raced
    <3> QED BY <1>18, <3>2 DEF GatherInv
  <2>3. CASE ~Raced /\ ~proc[p].raced
    <3>1. \A i \in DOMAIN windows : ~Ready(windows[i])
      BY <1>1, <1>2, <2>3 DEF GatherInv, Opening
    <3>2. \A j \in DOMAIN windows' : Ready(windows'[j]) => windows'[j].id = nextId
      BY <1>4, <1>5, <3>1 DEF Same
    <3>3. (\A i, j \in DOMAIN windows : Ready(windows[i]) /\ Ready(windows[j]) => i = j)'
      BY <1>4, <3>2 DEF WindowInv, Ready
    <3>4. \A q \in Proc : ~Opening(q)'
      BY <1>10, <1>11 DEF Opening, At
    <3>5. (\A q \in Proc, i \in DOMAIN windows : Opening(q) => ~Ready(windows[i]))'
      BY <3>4
    <3> QED BY <1>18, <3>3, <3>5 DEF GatherInv
  <2> QED BY <2>1, <2>2, <2>3
<1> QED BY <1>4, <1>13, <1>17, <1>20 DEF SpawnInv
-----------------------------------------------------------------------------
(* So does whatever the user does.                                         *)

\* A pane goes, and perhaps its window.
LEMMA KillStep ==
  ASSUME SpawnInv, NEW p \in Proc, KillPane(p), UNCHANGED proc
  PROVE  SpawnInv'
<1>1. SpawnTypeOK /\ WindowInv
  BY DEF SpawnInv
<1>2. PICK i \in DOMAIN windows : Leave(i)
  BY DEF KillPane
<1>3. UNCHANGED nextId /\ pane' = [pane EXCEPT ![p] = NoWindow]
  BY DEF KillPane
<1>4. ListGrows
  <2>1. CASE UNCHANGED windows
    BY <1>1, <1>3, <2>1, StillList
  <2>2. CASE windows' = RemoveAt(windows, i)
    BY <1>1, <1>3, <2>2, ClosedList DEF ListGrows, SpawnTypeOK
  <2> QED BY <1>2, <2>1, <2>2 DEF Leave
<1>5. /\ pane' \in [Proc -> Id]
      /\ \A q \in Proc : pane'[q] = pane[q] \/ pane'[q] = NoWindow
  BY <1>1, <1>3 DEF SpawnTypeOK, Id
<1> QED BY <1>4, <1>5, NoneMoves

LEMMA CloseStep ==
  ASSUME SpawnInv, NEW k \in DOMAIN windows, CloseWindow(k), UNCHANGED proc
  PROVE  SpawnInv'
<1>1. SpawnTypeOK /\ WindowInv
  BY DEF SpawnInv
<1>2. ListGrows
  BY <1>1, ClosedList DEF CloseWindow, ListGrows, SpawnTypeOK
<1>3. /\ pane' \in [Proc -> Id]
      /\ \A q \in Proc : pane'[q] = pane[q] \/ pane'[q] = NoWindow
  BY <1>1 DEF CloseWindow, SpawnTypeOK, Id
<1> QED BY <1>2, <1>3, NoneMoves

LEMMA NamesTyped ==
  ASSUME NEW n \in Name
  PROVE  n \in Seq(Word) /\ n # <<>>
<1>1. n \in Seq(STRING) /\ n # <<>>
  BY NameAssumption
<1>2. n \in Seq(Word)
  BY <1>1 DEF Word
<1> QED BY <1>1, <1>2

LEMMA OpenStep ==
  ASSUME SpawnInv, NEW n \in Name, OpenWindow(n), UNCHANGED proc
  PROVE  SpawnInv'
<1>1. SpawnTypeOK /\ WindowInv /\ nextId \in Nat
  BY DEF SpawnInv, SpawnTypeOK
<1>2. PICK k \in 1 .. Len(windows) + 1 : windows' = InsertAt(windows, k, Window(nextId, "user", n))
  BY DEF OpenWindow
<1>3. nextId' = nextId + 1 /\ UNCHANGED pane
  BY DEF OpenWindow
<1>4. n \in Seq(Word) /\ n # <<>> /\ "user" \in Opener
  BY NamesTyped DEF Opener
<1>5. /\ windows' \in Seq(WindowType) /\ WindowInv'
      /\ \A j \in DOMAIN windows' :
           \/ windows'[j] = Window(nextId, "user", n)
           \/ \E i \in DOMAIN windows : Same(windows'[j], windows[i])
  BY <1>1, <1>2, <1>3, <1>4, OpenedList
<1>6. Window(nextId, "user", n).id = nextId /\ ~Ready(Window(nextId, "user", n))
  BY DEF Window, Ready
<1>7. ListGrows
  BY <1>1, <1>3, <1>5, <1>6 DEF ListGrows
<1>8. pane' \in [Proc -> Id] /\ \A q \in Proc : pane'[q] = pane[q]
  BY <1>1, <1>3 DEF SpawnTypeOK
<1> QED BY <1>7, <1>8, NoneMoves

\* A window that is given a name by which spawn does not know it is lost.
LEMMA RenameStep ==
  ASSUME SpawnInv, NEW x, NEW n \in Name, Rename(x, n), UNCHANGED proc
  PROVE  SpawnInv'
<1>1. SpawnTypeOK /\ WindowInv
  BY DEF SpawnInv
<1>2. UNCHANGED <<pane, nextId>>
  BY DEF Rename
<1>3. windows \in Seq(WindowType) /\ nextId \in Nat
  BY <1>1 DEF SpawnTypeOK
<1>4. n \in Seq(Word) /\ n # <<>>
  BY NamesTyped
<1>5. windows' = [i \in DOMAIN windows |->
                    IF windows[i].id = x
                      THEN [windows[i] EXCEPT !.name = n, !.names = windows[i].names \cup {n},
                              !.lost = windows[i].lost \/ ~windows[i].marked \/ Len(n) > 1]
                      ELSE windows[i]]
  BY DEF Rename, Change
<1>6. ASSUME NEW i \in DOMAIN windows
      PROVE  windows'[i] \in WindowType /\ Sound(windows'[i]) /\ Same(windows'[i], windows[i])
  <2> DEFINE w == windows[i]
             l == w.lost \/ ~w.marked \/ Len(n) > 1
             m == [w EXCEPT !.name = n, !.names = w.names \cup {n}, !.lost = l]
  <2>1. w \in WindowType
    BY <1>3
  <2>2. Sound(w)
    BY <1>1 DEF WindowInv
  <2>3. CASE w.id = x
    <3>1. windows'[i] = m
      BY <1>5, <2>3
    <3>2. l \in BOOLEAN
      OBVIOUS
    <3>3. l <=> w.lost \/ ~w.marked \/ Len(n) > 1
      OBVIOUS
    <3> HIDE DEF l
    <3>4. m \in WindowType
      BY <1>4, <2>1, <3>2 DEF WindowType
    <3>5. m.lost = l /\ m.marked = w.marked
      BY <2>1 DEF WindowType
    <3>6. m.id = w.id /\ m.by = w.by /\ m.name = n /\ m.names = w.names \cup {n}
      BY <2>1 DEF WindowType
    <3> HIDE DEF m
    <3>7. m.name # <<>> /\ m.name \in m.names
      BY <1>4, <3>6
    <3>8. m.marked => subagents \in m.names
      BY <2>2, <3>5, <3>6 DEF Sound
    <3>9. Len(n) \in Nat /\ Len(n) # 0
      BY <1>4
    <3>10. ~m.lost => ~w.lost /\ w.marked /\ Len(n) = 1
      <4>1. Len(n) > 1 \/ Len(n) = 1
        <5>1. \A k \in Nat : k # 0 => k > 1 \/ k = 1
          OBVIOUS
        <5> QED BY <3>9, <5>1
      <4> QED BY <3>3, <3>5, <4>1
    <3>11. Sound(m)
      BY <3>5, <3>6, <3>7, <3>8, <3>10 DEF Sound
    <3>12. Same(m, w)
      BY <3>6, <3>10 DEF Same, Ready
    <3> QED BY <3>1, <3>4, <3>11, <3>12
  <2>4. CASE w.id # x
    <3>1. windows'[i] = w
      BY <1>5, <2>4
    <3> QED BY <2>1, <2>2, <3>1 DEF Same
  <2> QED BY <2>3, <2>4
<1>7. DOMAIN windows' = DOMAIN windows /\ windows' \in Seq(WindowType)
  <2>1. DOMAIN windows' = 1 .. Len(windows) /\ DOMAIN windows = 1 .. Len(windows)
    <3>1. DOMAIN windows = 1 .. Len(windows)
      BY <1>3
    <3>2. DOMAIN windows' = DOMAIN windows
      BY <1>5, Zenon
    <3> QED BY <3>1, <3>2
  <2>2. windows' = [i \in 1 .. Len(windows) |-> windows'[i]]
    BY <1>5, <2>1
  <2> QED BY <1>3, <1>6, <2>1, <2>2
<1>8. WindowInv'
  BY <1>1, <1>2, <1>6, <1>7, ChangedList
<1>9. ListGrows
  BY <1>2, <1>3, <1>6, <1>7, <1>8 DEF ListGrows
<1>10. pane' \in [Proc -> Id] /\ \A q \in Proc : pane'[q] = pane[q]
  BY <1>1, <1>2 DEF SpawnTypeOK
<1> QED BY <1>9, <1>10, NoneMoves

LEMMA UserStep ==
  ASSUME SpawnInv, User
  PROVE  SpawnInv'
<1>1. UNCHANGED proc
  BY DEF User
<1>2. CASE \E p \in Proc : KillPane(p)
  BY <1>1, <1>2, KillStep
<1>3. CASE \E i \in DOMAIN windows : CloseWindow(i)
  BY <1>1, <1>3, CloseStep
<1>4. CASE \E n \in Name : OpenWindow(n)
  BY <1>1, <1>4, OpenStep
<1>5. CASE \E i \in DOMAIN windows, n \in Name : Rename(windows[i].id, n)
  BY <1>1, <1>5, RenameStep
<1> QED BY <1>2, <1>3, <1>4, <1>5 DEF User

-----------------------------------------------------------------------------
(* The invariant holds at first and always.                                *)

LEMMA SpawnInit == Init => SpawnInv
<1> SUFFICES ASSUME Init PROVE SpawnInv
  OBVIOUS
<1> DEFINE w == Window(0, "user", <<"sh">>)
<1>1. w \in WindowType /\ Sound(w)
  <2>1. <<"sh">> \in Seq(Word) /\ <<"sh">> # <<>> /\ "user" \in Opener
    BY DEF Word, Opener
  <2> QED BY <2>1, WindowOf
<1>2. w.id = 0 /\ ~Ready(w)
  BY DEF Window, Ready
<1>3. Start \in Command
  BY DEF Start, Command, Place, Target, Id
<1>4. windows = <<w>> /\ nextId = 1
  BY DEF Init
<1> HIDE DEF w
<1>5. pane = [p \in Proc |-> NoWindow] /\ proc = [p \in Proc |-> Start]
  BY DEF Init
<1>6. SpawnTypeOK
  BY <1>1, <1>3, <1>4, <1>5 DEF SpawnTypeOK, Id
<1>7. WindowInv
  BY <1>1, <1>2, <1>4 DEF WindowInv
<1>8. \A p \in Proc : /\ pane[p] = NoWindow
                      /\ proc[p].found = NoWindow /\ proc[p].wid = NoWindow
                      /\ proc[p].pc = "target" /\ proc[p].target = "subagents-window"
  BY <1>5 DEF Start
<1>9. \A p \in Proc : ~proc[p].raced
  BY <1>5 DEF Start
<1>10. windows[1].id # NoWindow
  BY <1>2, <1>4, NoWindowAssumption
<1>11. CommandInv
  BY <1>4, <1>8, <1>10 DEF CommandInv, Knows, At, Old, Taken
<1>12. GatherInv
  BY <1>2, <1>4, <1>9 DEF GatherInv
<1> QED BY <1>6, <1>7, <1>11, <1>12 DEF SpawnInv

LEMMA SpawnStutter ==
  ASSUME SpawnInv, UNCHANGED vars
  PROVE  SpawnInv'
<1>1. SpawnTypeOK /\ WindowInv /\ UNCHANGED <<windows, pane, proc, nextId>>
  BY DEF SpawnInv, vars
<1>2. ListGrows
  BY <1>1, StillList
<1>3. pane' \in [Proc -> Id] /\ \A q \in Proc : pane'[q] = pane[q]
  BY <1>1 DEF SpawnTypeOK
<1> QED BY <1>1, <1>2, <1>3, NoneMoves

LEMMA SpawnInvariant == Spec => []SpawnInv
<1>1. ASSUME SpawnInv, Next PROVE SpawnInv'
  <2>1. ASSUME NEW p \in Proc,
               \/ pickSpawnTarget(p) \/ planSubagentsWindow(p)
               \/ Split(p) \/ NewWindow(p) \/ Template(p)
               \/ AskWindow(p) \/ Mark(p) \/ Layout(p) \/ TagPane(p) \/ Fail(p)
        PROVE  SpawnInv'
    BY <1>1, <2>1, PickStep, PlanStep, SplitStep, NewWindowStep, TemplateStep, AskStep,
       MarkStep, LayoutStep, EndStep
  <2> QED BY <1>1, <2>1, UserStep DEF Next
<1> QED BY <1>1, SpawnInit, SpawnStutter, PTL DEF Spec

\* Agents gather in one window, however many commands run beside each other,
\* fail, or are killed, and whatever the user does: unless one command overtook
\* another between its listing and its new-window, or the user renamed a window
\* so that it is not recognised.
THEOREM AgentsGather == Spec => []OneWindow
<1>1. SpawnInv => OneWindow
  <2> SUFFICES ASSUME SpawnInv PROVE OneWindow
    OBVIOUS
  <2> QED BY DEF SpawnInv, GatherInv, OneWindow, Raced, Ready
<1> QED BY <1>1, SpawnInvariant, PTL

\* No window that never had a name of spawn's, or one that reads like it, is split
\* for an agent: whatever names the user gives, and whenever.
THEOREM RightWindows == Spec => []RightWindow
<1>1. SpawnInv => RightWindow
  BY DEF SpawnInv, CommandInv, Knows, Taken, RightWindow
<1> QED BY <1>1, SpawnInvariant, PTL

-----------------------------------------------------------------------------
(* Socket lifecycle: the inductive invariant.                              *)

\* What a process that moves alone knows at each place: whether the path exists
\* and whose it is.  Nobody else is on the move, so that what it knows stays true.
AloneInv ==
  \A d \in alone :
    /\ \A e \in Daemon : Moving(e) => e = d
    /\ pc[d] = "ping" => path # NoSocket
    /\ pc[d] = "rebind" => path = NoSocket
    /\ pc[d] \in {"listen", "chmod", "serving"} => path = d
    /\ pc[d] = "refused" => Answers
    /\ pc[d] \notin {"abort", "failed"}

\* In good order one process moves at a time, and what it has done to the path is
\* still so.
OrderInv ==
  orderly =>
    /\ \A d, e \in Daemon : Moving(d) /\ Moving(e) => d = e
    /\ \A d \in Daemon :
         /\ pc[d] \in {"rebind", "unlinked", "closed"} => path = NoSocket
         /\ pc[d] \in {"listen", "chmod"} => path = d
         /\ pc[d] # "abort"

\* Stranded daemons can be counted, and a start is unheard once at most.
FiniteInv ==
  /\ IsFiniteSet(Stranded) /\ IsFiniteSet(unheard)
  /\ \A d \in unheard : pc[d] \notin {"off", "up", "bind", "ping"}

\* The start that is about to unlink the path of a daemon which serves has been
\* counted, and the daemon that it is about to strand has not.
CountInv ==
  orderly =>
    /\ Cardinality(Stranded) <= Cardinality(unheard)
    /\ Answers /\ (\E d \in Daemon : pc[d] = "unlink") =>
         Cardinality(Stranded) < Cardinality(unheard)

SocketInv == TypeOK /\ AloneInv /\ OrderInv /\ FiniteInv /\ CountInv

-----------------------------------------------------------------------------
(* The invariant holds at first, and every action preserves each part of it. *)

LEMMA SocketBegins == SocketInit => SocketInv
<1> SUFFICES ASSUME SocketInit PROVE SocketInv
  OBVIOUS
<1>1. Stranded = {} /\ unheard = {}
  BY DEF SocketInit, Stranded, Serves
<1>2. FiniteInv
  BY <1>1, FS_EmptySet DEF FiniteInv
<1>3. CountInv
  BY <1>1, FS_EmptySet DEF SocketInit, CountInv, Answers
<1>4. TypeOK /\ AloneInv /\ OrderInv
  BY DEF SocketInit, TypeOK, AloneInv, OrderInv, Moving, Starting, Stopping
<1> QED BY <1>2, <1>3, <1>4 DEF SocketInv

LEMMA SocketTypeStep ==
  ASSUME TypeOK, [SocketNext]_socketVars
  PROVE  TypeOK'
<1> USE DEF TypeOK, Starting, Stopping, Ended
<1>1. ASSUME NEW d \in Daemon, Up(d) PROVE TypeOK'
  BY <1>1 DEF Up, Overlap
<1>2. ASSUME NEW d \in Daemon, PingUp(d) PROVE TypeOK'
  BY <1>2 DEF PingUp, Keeps, Step
<1>3. ASSUME NEW d \in Daemon, Listen(d) PROVE TypeOK'
  BY <1>3 DEF Listen, Bind, BindFree, BindInUse, Ping,
              Unlink, Rebind, ListenOn,
              Chmod, Keeps, Step
<1>4. ASSUME NEW d \in Daemon, Shutdown(d) \/ CloseSocket(d) \/ Cleanup(d) PROVE TypeOK'
  BY <1>4 DEF Shutdown, CloseSocket, Cleanup, Unlink,
              Keeps, Step, Overlap
<1>5. ASSUME NEW d \in Daemon, Crash(d) PROVE TypeOK'
  BY <1>5 DEF Crash, Keeps, Step
<1>6. CASE UNCHANGED socketVars
  BY <1>6 DEF socketVars
<1> QED BY <1>1, <1>2, <1>3, <1>4, <1>5, <1>6 DEF SocketNext

LEMMA AloneStep ==
  ASSUME SocketInv, [SocketNext]_socketVars
  PROVE  AloneInv'
<1> USE NoSocketAssumption DEF SocketInv, TypeOK, AloneInv, Moving, Serves,
            Answers, Starting, Stopping
<1>1. ASSUME NEW d \in Daemon, Up(d) PROVE AloneInv'
  BY <1>1 DEF Up
<1>2. ASSUME NEW d \in Daemon, PingUp(d) PROVE AloneInv'
  BY <1>2 DEF PingUp, Keeps, Step
<1>3. ASSUME NEW d \in Daemon, Listen(d) PROVE AloneInv'
  <2>1. CASE Bind(d)
    BY <2>1 DEF Bind, BindFree, BindInUse, Keeps, Step
  <2>2. CASE Ping(d)
    BY <2>2 DEF Ping, Keeps, Step
  <2>3. CASE Unlink(d, "unlink", "rebind") \/ Unlink(d, "abort", "failed")
    BY <2>3 DEF Unlink, Step
  <2>4. CASE Rebind(d)
    BY <2>4 DEF Rebind, BindFree, BindInUse, Keeps, Step
  <2>5. CASE ListenOn(d) \/ Chmod(d)
    BY <2>5 DEF ListenOn, Chmod, Keeps, Step
  <2> QED BY <1>3, <2>1, <2>2, <2>3, <2>4, <2>5 DEF Listen
<1>4. ASSUME NEW d \in Daemon, Shutdown(d) \/ CloseSocket(d) \/ Cleanup(d)
      PROVE  AloneInv'
  BY <1>4 DEF Shutdown, CloseSocket, Cleanup, Unlink,
              Keeps, Step
<1>5. ASSUME NEW d \in Daemon, Crash(d) PROVE AloneInv'
  BY <1>5 DEF Crash, Keeps, Step
<1>6. CASE UNCHANGED socketVars
  BY <1>6 DEF socketVars
<1> QED BY <1>1, <1>2, <1>3, <1>4, <1>5, <1>6 DEF SocketNext

LEMMA OrderStep ==
  ASSUME SocketInv, [SocketNext]_socketVars
  PROVE  OrderInv'
<1> USE NoSocketAssumption DEF SocketInv, TypeOK, OrderInv, Moving, Starting, Stopping
<1>1. ASSUME NEW d \in Daemon, Up(d) PROVE OrderInv'
  BY <1>1, ZenonT(60) DEF Up, Overlap
<1>2. ASSUME NEW d \in Daemon, PingUp(d) PROVE OrderInv'
  BY <1>2 DEF PingUp, Keeps, Step
<1>3. ASSUME NEW d \in Daemon, Listen(d) PROVE OrderInv'
  <2>1. CASE Bind(d)
    BY <2>1, ZenonT(60) DEF Bind, BindFree, BindInUse, Keeps, Step
  <2>2. CASE Ping(d)
    BY <2>2 DEF Ping, Keeps, Step
  <2>3. CASE Unlink(d, "unlink", "rebind") \/ Unlink(d, "abort", "failed")
    BY <2>3, ZenonT(60) DEF Unlink, Step
  <2>4. CASE Rebind(d)
    BY <2>4, ZenonT(60) DEF Rebind, BindFree, BindInUse, Keeps, Step
  <2>5. CASE ListenOn(d) \/ Chmod(d)
    BY <2>5, ZenonT(60) DEF ListenOn, Chmod, Keeps, Step
  <2> QED BY <1>3, <2>1, <2>2, <2>3, <2>4, <2>5 DEF Listen
<1>4. ASSUME NEW d \in Daemon, Shutdown(d) PROVE OrderInv'
  BY <1>4 DEF Shutdown, Step, Overlap
<1>5. ASSUME NEW d \in Daemon, CloseSocket(d) \/ Cleanup(d) PROVE OrderInv'
  BY <1>5, ZenonT(60) DEF CloseSocket, Cleanup, Unlink, Keeps, Step
<1>6. ASSUME NEW d \in Daemon, Crash(d) PROVE OrderInv'
  BY <1>6 DEF Crash, Keeps, Step
<1>7. CASE UNCHANGED socketVars
  BY <1>7 DEF socketVars
<1> QED BY <1>1, <1>2, <1>3, <1>4, <1>5, <1>6, <1>7 DEF SocketNext

\* A step strands at most the process that takes it and the one it takes the path
\* from.
LEMMA FiniteStep ==
  ASSUME SocketInv, [SocketNext]_socketVars
  PROVE  FiniteInv'
<1> USE DEF SocketInv, TypeOK, FiniteInv
<1>1. ASSUME NEW d \in Daemon, Stranded' \subseteq Stranded \cup {path, d},
             unheard' \subseteq unheard \cup {d}
      PROVE  IsFiniteSet(Stranded') /\ IsFiniteSet(unheard')
  <2>1. IsFiniteSet(Stranded \cup {path}) /\ IsFiniteSet(unheard \cup {d})
    BY FS_AddElement
  <2>2. IsFiniteSet((Stranded \cup {path}) \cup {d})
    BY <2>1, FS_AddElement
  <2>3. Stranded' \subseteq (Stranded \cup {path}) \cup {d}
    BY <1>1
  <2> QED BY <1>1, <2>1, <2>2, <2>3, FS_Subset
<1>2. ASSUME NEW d \in Daemon, NEW from, NEW next, Step(d, from, next),
             path' = path \/ path' = NoSocket \/ path' = d
      PROVE  Stranded' \subseteq Stranded \cup {path, d}
  BY <1>2 DEF Step, Stranded, Serves
<1>3. ASSUME NEW d \in Daemon, NEW from, NEW next, Step(d, from, next), UNCHANGED unheard,
             next \notin {"off", "up", "bind", "ping"} \/ from \in {"off", "up", "bind", "ping"},
             path' = path \/ path' = NoSocket \/ path' = d
      PROVE  FiniteInv'
  <2>1. \A e \in unheard' : pc'[e] \notin {"off", "up", "bind", "ping"}
    BY <1>3 DEF Step
  <2> QED BY <1>1, <1>2, <1>3, <2>1
<1>4. ASSUME NEW d \in Daemon, Up(d) PROVE FiniteInv'
  <2>1. UNCHANGED <<path, unheard>> /\ Stranded' = Stranded
    BY <1>4 DEF Up, Stranded, Serves
  <2>2. \A e \in unheard' : pc'[e] \notin {"off", "up", "bind", "ping"}
    BY <1>4, <2>1 DEF Up
  <2> QED BY <2>1, <2>2
<1>5. ASSUME NEW d \in Daemon, PingUp(d) PROVE FiniteInv'
  BY <1>3, <1>5 DEF PingUp, Keeps
<1>6. ASSUME NEW d \in Daemon, Listen(d) PROVE FiniteInv'
  <2>1. CASE Bind(d)
    BY <1>3, <2>1 DEF Bind, BindFree, BindInUse, Keeps
  <2>2. CASE Ping(d)
    <3>1. CASE Keeps(d, "ping", "refused")
      BY <1>3, <3>1 DEF Keeps
    <3>2. CASE Step(d, "ping", "unlink") /\ unheard' \subseteq unheard \cup {d} /\ UNCHANGED path
      <4>1. \A e \in unheard' : pc'[e] \notin {"off", "up", "bind", "ping"}
        BY <3>2 DEF Step
      <4> QED BY <1>1, <1>2, <3>2, <4>1
    <3> QED BY <2>2, <3>1, <3>2 DEF Ping
  <2>3. CASE Unlink(d, "unlink", "rebind") \/ Unlink(d, "abort", "failed")
    BY <1>3, <2>3 DEF Unlink
  <2>4. CASE Rebind(d)
    BY <1>3, <2>4 DEF Rebind, BindFree, BindInUse, Keeps
  <2>5. CASE ListenOn(d) \/ Chmod(d)
    BY <1>3, <2>5 DEF ListenOn, Chmod, Keeps
  <2> QED BY <1>6, <2>1, <2>2, <2>3, <2>4, <2>5 DEF Listen
<1>7. ASSUME NEW d \in Daemon, Shutdown(d) \/ CloseSocket(d) \/ Cleanup(d) PROVE FiniteInv'
  BY <1>3, <1>7 DEF Shutdown, CloseSocket, Cleanup, Unlink, Keeps
<1>8. ASSUME NEW d \in Daemon, Crash(d) PROVE FiniteInv'
  BY <1>3, <1>8 DEF Crash, Keeps
<1>9. CASE UNCHANGED socketVars
  BY <1>9 DEF socketVars, Stranded, Serves
<1> QED BY <1>4, <1>5, <1>6, <1>7, <1>8, <1>9 DEF SocketNext

\* What strands nobody keeps the count, unless it brings a start to the unlink.
LEMMA CountKept ==
  ASSUME SocketInv, orderly' => orderly, UNCHANGED unheard, Stranded' \subseteq Stranded,
         Answers' /\ (\E d \in Daemon : pc'[d] = "unlink") =>
           Answers /\ \E d \in Daemon : pc[d] = "unlink"
  PROVE  CountInv'
<1>1. IsFiniteSet(Stranded) /\ IsFiniteSet(unheard)
  BY DEF SocketInv, FiniteInv
<1>2. Cardinality(Stranded') <= Cardinality(Stranded) /\ IsFiniteSet(Stranded')
  BY <1>1, FS_Subset
<1>3. /\ Cardinality(Stranded') \in Nat /\ Cardinality(Stranded) \in Nat
      /\ Cardinality(unheard) \in Nat
  BY <1>1, <1>2, FS_CardinalityType
<1> QED BY <1>2, <1>3 DEF SocketInv, CountInv

\* The ping fails: if it could have been answered, d is counted.
LEMMA CountPing ==
  ASSUME SocketInv, NEW d \in Daemon, Ping(d)
  PROVE  CountInv'
<1>1. Stranded' = Stranded /\ UNCHANGED <<path, orderly>>
  BY DEF SocketInv, TypeOK, Ping, Keeps, Step, Stranded, Serves
<1>2. CASE Keeps(d, "ping", "refused")
  BY <1>1, <1>2, CountKept DEF SocketInv, TypeOK, Keeps, Step, Answers, Serves
<1>3. CASE Step(d, "ping", "unlink") /\ ~Answers /\ UNCHANGED unheard
  BY <1>1, <1>3, CountKept DEF SocketInv, TypeOK, Step, Answers, Serves
<1>4. CASE Step(d, "ping", "unlink") /\ unheard' = unheard \cup {d}
  <2>1. d \notin unheard /\ IsFiniteSet(unheard) /\ IsFiniteSet(Stranded)
    BY <1>4 DEF SocketInv, FiniteInv, Step
  <2>2. Cardinality(unheard') = Cardinality(unheard) + 1
    BY <1>4, <2>1, FS_AddElement
  <2>3. Cardinality(unheard) \in Nat /\ Cardinality(Stranded) \in Nat
    BY <2>1, FS_CardinalityType
  <2> QED BY <1>1, <2>2, <2>3 DEF SocketInv, CountInv
<1> QED BY <1>2, <1>3, <1>4 DEF Ping

\* The path is unlinked: who served behind it is stranded.
LEMMA CountUnlink ==
  ASSUME SocketInv, NEW d \in Daemon, Unlink(d, "unlink", "rebind")
  PROVE  CountInv'
<1>1. path' = NoSocket /\ ~Answers' /\ UNCHANGED <<orderly, unheard>>
  BY DEF Unlink, Answers
<1>2. CASE Answers
  <2>1. Stranded' \subseteq Stranded \cup {path}
    BY DEF SocketInv, TypeOK, Unlink, Step, Stranded, Serves
  <2>2. path \notin Stranded /\ IsFiniteSet(Stranded) /\ IsFiniteSet(unheard)
    BY DEF SocketInv, FiniteInv, Stranded
  <2>3. /\ IsFiniteSet(Stranded \cup {path})
        /\ Cardinality(Stranded \cup {path}) = Cardinality(Stranded) + 1
    BY <2>2, FS_AddElement
  <2>4. IsFiniteSet(Stranded') /\ Cardinality(Stranded') <= Cardinality(Stranded) + 1
    BY <2>1, <2>3, FS_Subset
  <2>5. /\ Cardinality(Stranded') \in Nat /\ Cardinality(Stranded) \in Nat
        /\ Cardinality(unheard) \in Nat
    BY <2>2, <2>4, FS_CardinalityType
  <2>6. orderly => Cardinality(Stranded) < Cardinality(unheard)
    BY <1>2 DEF SocketInv, CountInv, Unlink, Step
  <2> QED BY <1>1, <2>4, <2>5, <2>6 DEF CountInv
<1>3. CASE ~Answers
  <2>1. Stranded' \subseteq Stranded
    BY <1>3 DEF SocketInv, TypeOK, Unlink, Step, Stranded, Serves, Answers
  <2> QED BY <1>1, <2>1, CountKept
<1> QED BY <1>2, <1>3

\* A daemon stops.  If it was stranded itself, the one that it takes the path from
\* takes its place.
LEMMA CountShutdown ==
  ASSUME SocketInv, NEW d \in Daemon, Shutdown(d)
  PROVE  CountInv'
<1>1. path' = NoSocket /\ ~Answers' /\ UNCHANGED unheard /\ (orderly' => orderly)
  BY DEF Shutdown, Overlap, Answers, SocketInv, TypeOK
<1>2. CASE d \notin Stranded
  <2>1. Stranded' \subseteq Stranded
    BY <1>2 DEF SocketInv, TypeOK, Shutdown, Step, Stranded, Serves
  <2> QED BY <1>1, <2>1, CountKept
<1>3. CASE d \in Stranded
  <2>1. Stranded' \subseteq (Stranded \ {d}) \cup {path}
    BY DEF SocketInv, TypeOK, Shutdown, Step, Stranded, Serves
  <2>2. path \notin Stranded \ {d} /\ IsFiniteSet(Stranded) /\ IsFiniteSet(unheard)
    BY DEF SocketInv, FiniteInv, Stranded
  <2>3. /\ IsFiniteSet(Stranded \ {d})
        /\ Cardinality(Stranded \ {d}) = Cardinality(Stranded) - 1
    BY <1>3, <2>2, FS_RemoveElement
  <2>4. /\ IsFiniteSet((Stranded \ {d}) \cup {path})
        /\ Cardinality((Stranded \ {d}) \cup {path}) = Cardinality(Stranded \ {d}) + 1
    BY <2>2, <2>3, FS_AddElement
  <2>5. IsFiniteSet(Stranded') /\ Cardinality(Stranded') <= Cardinality((Stranded \ {d}) \cup {path})
    BY <2>1, <2>4, FS_Subset
  <2>6. /\ Cardinality(Stranded') \in Nat /\ Cardinality(Stranded) \in Nat
        /\ Cardinality(unheard) \in Nat
    BY <2>2, <2>5, FS_CardinalityType
  <2>7. Cardinality(Stranded') <= Cardinality(Stranded)
    BY <2>3, <2>4, <2>5, <2>6
  <2> QED BY <1>1, <2>6, <2>7 DEF SocketInv, CountInv
<1> QED BY <1>2, <1>3

LEMMA CountStep ==
  ASSUME SocketInv, [SocketNext]_socketVars
  PROVE  CountInv'
<1> USE NoSocketAssumption DEF SocketInv, TypeOK, Stranded, Serves, Answers
<1>1. ASSUME NEW d \in Daemon, Up(d) PROVE CountInv'
  BY <1>1, CountKept DEF Up, Overlap
<1>2. ASSUME NEW d \in Daemon, PingUp(d) PROVE CountInv'
  BY <1>2, CountKept DEF PingUp, Keeps, Step
<1>3. ASSUME NEW d \in Daemon, Bind(d) \/ Rebind(d) PROVE CountInv'
  BY <1>3, CountKept DEF Bind, Rebind, BindFree, BindInUse, Keeps, Step
<1>4. ASSUME NEW d \in Daemon, ListenOn(d) \/ CloseSocket(d) PROVE CountInv'
  BY <1>4, CountKept DEF ListenOn, CloseSocket, Keeps, Step
\* The path is that of d; nobody else is about to unlink it.
<1>5. ASSUME NEW d \in Daemon, Chmod(d) PROVE CountInv'
  <2>1. CASE orderly
    <3>1. path = d /\ \A e \in Daemon : pc[e] # "unlink"
      BY <1>5, <2>1 DEF Chmod, Keeps, Step, OrderInv, Moving, Starting
    <3>2. \A e \in Daemon : pc'[e] # "unlink"
      BY <1>5, <3>1 DEF Chmod, Keeps, Step
    <3> QED BY <1>5, <3>1, <3>2, CountKept DEF Chmod, Keeps, Step
  <2>2. CASE ~orderly
    BY <1>5, <2>2 DEF Chmod, Keeps, CountInv
  <2> QED BY <2>1, <2>2
\* The path has gone before.
<1>6. ASSUME NEW d \in Daemon, Unlink(d, "abort", "failed") \/ Cleanup(d) PROVE CountInv'
  <2>1. CASE orderly
    <3>1. path = NoSocket
      BY <1>6, <2>1 DEF Cleanup, Unlink, Step, OrderInv
    <3> QED BY <1>6, <3>1, CountKept DEF Cleanup, Unlink, Step
  <2>2. CASE ~orderly
    BY <1>6, <2>2 DEF Cleanup, Unlink, CountInv
  <2> QED BY <2>1, <2>2
<1>7. ASSUME NEW d \in Daemon, Crash(d) PROVE CountInv'
  BY <1>7, CountKept DEF Crash, Keeps, Step
<1>8. CASE UNCHANGED socketVars
  BY <1>8, CountKept DEF socketVars
<1> QED BY <1>1, <1>2, <1>3, <1>4, <1>5, <1>6, <1>7, <1>8,
           CountPing, CountUnlink, CountShutdown DEF SocketNext, Listen

LEMMA SocketInvariant == SocketSpec => []SocketInv
<1>1. SocketInv /\ [SocketNext]_socketVars => SocketInv'
  BY SocketTypeStep, AloneStep, OrderStep, FiniteStep, CountStep DEF SocketInv
<1> QED BY <1>1, SocketBegins, PTL DEF SocketSpec

-----------------------------------------------------------------------------
\* No process is ever anywhere else than at one of the places of its handler, and
\* the path never names something that is not a process.
THEOREM Typing == SocketSpec => []TypeOK
<1>1. SocketInv => TypeOK
  BY DEF SocketInv
<1> QED BY <1>1, SocketInvariant, PTL

\* A start that nobody interferes with leaves a daemon that can be reached,
\* whatever crashes and races it started from: for any number of processes.
THEOREM StartHeals == SocketSpec => []Heals
<1>1. SocketInv => Heals
  BY NoSocketAssumption DEF SocketInv, TypeOK, AloneInv, Heals, Answers, Serves
<1> QED BY <1>1, SocketInvariant, PTL

\* Without overlapping starts and stops, each daemon that serves and cannot be
\* reached is accounted for by a start whose ping a live daemon left unanswered
\* (Listen, pingSocket), whoever crashes and for any number of processes.
THEOREM OneDaemon == SocketSpec => []OrderlyExclusive
<1>1. SocketInv => OrderlyExclusive
  BY DEF SocketInv, CountInv, OrderlyExclusive
<1> QED BY <1>1, SocketInvariant, PTL

-----------------------------------------------------------------------------
(* Installation: lines and blocks.                                         *)

\* The lines of a harness but its markers.
Inner(h) == {l \in Line : Of(l, h) /\ l.kind \notin {"begin", "end"}}

LEMMA LineShape ==
  ASSUME NEW l \in Line
  PROVE  /\ l.kind = "user" <=> l = userLine
         /\ \A h \in Harness : Of(l, h) /\ l.kind = "begin" => l = markerBegin(h)
         /\ \A h \in Harness : Of(l, h) /\ l.kind = "end" => l = markerEnd(h)
         /\ \A h, g \in Harness : Of(l, h) /\ Of(l, g) => h = g
BY DEF Line, userLine, Of, markerBegin, markerEnd

LEMMA MarkerShape ==
  ASSUME NEW h \in Harness
  PROVE  /\ markerBegin(h) \in Line /\ Of(markerBegin(h), h)
         /\ markerEnd(h) \in Line /\ Of(markerEnd(h), h)
         /\ markerBegin(h).kind = "begin" /\ markerEnd(h).kind = "end"
         /\ userLine \in Line /\ userLine.kind = "user" /\ ~Of(userLine, h)
BY DEF Line, userLine, Of, markerBegin, markerEnd

LEMMA TextShape ==
  ASSUME NEW h \in Harness
  PROVE  Text(h) \subseteq Inner(h)
BY DEF Text, text, dollar, Line, Of, Inner

\* What the template makes of a body is a body.
LEMMA ExpandShape ==
  ASSUME NEW h \in Harness, NEW body \in Seq(Text(h))
  PROVE  /\ expand(body) \in Seq(Inner(h))
         /\ (\A k \in DOMAIN body : body[k].kind # "dollar") => expand(body) = body
<1> DEFINE e(l) == IF l.kind = "dollar" THEN mangled(l.of, l.ver) ELSE l
<1>1. ASSUME NEW l \in Text(h) PROVE e(l) \in Inner(h)
  BY <1>1 DEF Text, text, dollar, mangled, Line, Of, Inner
<1> HIDE DEF e
<1>2. body = [k \in 1 .. Len(body) |-> body[k]] /\ Len(body) \in Nat
      /\ \A k \in 1 .. Len(body) : body[k] \in Text(h)
  OBVIOUS
<1>3. expand(body) = [k \in 1 .. Len(body) |-> e(body[k])]
  BY <1>2 DEF expand, e
<1>4. expand(body) \in Seq(Inner(h))
  BY <1>1, <1>2, <1>3
<1>5. ASSUME \A k \in DOMAIN body : body[k].kind # "dollar" PROVE expand(body) = body
  BY <1>2, <1>3, <1>5 DEF e
<1> QED BY <1>4, <1>5

\* The lines of h in f are the block from i to j.
BlockAt(f, h, i, j) ==
  /\ i < j /\ f[i] = markerBegin(h) /\ f[j] = markerEnd(h)
  /\ \A k \in DOMAIN f : Of(f[k], h) <=> i <= k /\ k <= j
  /\ \A k \in DOMAIN f : i < k /\ k < j => f[k].kind \notin {"begin", "end"}

None(f, h) == \A k \in DOMAIN f : ~Of(f[k], h)

\* They are one block, or there is none.
Neat(f, h) == None(f, h) \/ \E i, j \in DOMAIN f : BlockAt(f, h, i, j)

\* A block that is wrapped.
LEMMA WrapShape ==
  ASSUME NEW h \in Harness, NEW body \in Seq(Inner(h)), NEW w, w = WrapBlock(h, body)
  PROVE  /\ w \in Seq(Line) /\ Len(w) = Len(body) + 2 /\ Len(body) \in Nat
         /\ w[1] = markerBegin(h) /\ w[Len(w)] = markerEnd(h)
         /\ \A k \in 1 .. Len(w) : Of(w[k], h)
         /\ \A k \in 1 .. Len(w) : 1 < k /\ k < Len(w) => w[k].kind \notin {"begin", "end"}
<1>1. body \in Seq(Line) /\ Len(body) \in Nat /\ \A k \in 1 .. Len(body) : body[k] \in Inner(h)
  BY DEF Inner
<1>2. markerBegin(h) \in Line /\ markerEnd(h) \in Line
  BY MarkerShape
<1> DEFINE b == <<markerBegin(h)>> \o body
<1>3. /\ b \in Seq(Line) /\ Len(b) = Len(body) + 1 /\ b[1] = markerBegin(h)
      /\ \A k \in 2 .. Len(b) : b[k] = body[k - 1]
  BY <1>1, <1>2
<1> HIDE DEF b
<1>4. w = b \o <<markerEnd(h)>>
  BY DEF WrapBlock, b
<1>5. /\ w \in Seq(Line) /\ Len(w) = Len(body) + 2
      /\ \A k \in 1 .. Len(b) : w[k] = b[k]
      /\ w[Len(b) + 1] = markerEnd(h)
  BY <1>1, <1>2, <1>3, <1>4
<1>6. ASSUME NEW k \in 1 .. Len(w)
      PROVE  Of(w[k], h) /\ (1 < k /\ k < Len(w) => w[k].kind \notin {"begin", "end"})
  <2>1. CASE k = 1
    BY <2>1, <1>1, <1>3, <1>5, MarkerShape
  <2>2. CASE k = Len(w)
    BY <2>2, <1>1, <1>3, <1>5, MarkerShape
  <2>3. CASE 1 < k /\ k < Len(w)
    <3>1. k \in 2 .. Len(b) /\ k - 1 \in 1 .. Len(body)
      BY <2>3, <1>1, <1>3, <1>5
    <3>2. w[k] = body[k - 1] /\ body[k - 1] \in Inner(h)
      BY <3>1, <1>1, <1>3, <1>5
    <3> QED BY <3>2 DEF Inner
  <2> QED BY <2>1, <2>2, <2>3, <1>5, <1>1
<1> QED BY <1>1, <1>3, <1>5, <1>6

-----------------------------------------------------------------------------
(* Replacing blocks.                                                       *)

\* Where the blocks end.
LEMMA EndsOf ==
  ASSUME NEW f \in Seq(Line), NEW h \in Harness
  PROVE  /\ None(f, h) => ~HasBlock(f, h) /\ \A k \in DOMAIN f : Ends(f, h, k) = {}
         /\ \A i, j \in DOMAIN f : BlockAt(f, h, i, j) =>
              /\ HasBlock(f, h) /\ Ends(f, h, i) = {j}
              /\ \A k \in DOMAIN f : k # i => Ends(f, h, k) = {}
<1>1. ASSUME None(f, h) PROVE ~HasBlock(f, h) /\ \A k \in DOMAIN f : Ends(f, h, k) = {}
  BY <1>1, MarkerShape DEF None, HasBlock, Ends, Closes
<1>2. ASSUME NEW i \in DOMAIN f, NEW j \in DOMAIN f, BlockAt(f, h, i, j)
      PROVE  /\ HasBlock(f, h) /\ Ends(f, h, i) = {j}
             /\ \A k \in DOMAIN f : k # i => Ends(f, h, k) = {}
  <2>1. i \in Nat /\ j \in Nat /\ DOMAIN f \subseteq Nat
    OBVIOUS
  <2>2. j \in Ends(f, h, i)
    BY <1>2, <2>1 DEF BlockAt, Ends, Closes
  <2>3. ASSUME NEW k \in DOMAIN f, f[k] = markerEnd(h) PROVE k = j
    <3>1. Of(f[k], h) /\ f[k].kind = "end" /\ f[i].kind = "begin"
      BY <1>2, <2>3, MarkerShape DEF BlockAt
    <3>2. i <= k /\ k <= j /\ ~(i < k /\ k < j) /\ k # i
      BY <1>2, <3>1 DEF BlockAt
    <3> QED BY <2>1, <3>2
  <2>4. ASSUME NEW k \in DOMAIN f, f[k] = markerBegin(h) PROVE k = i
    <3>1. Of(f[k], h) /\ f[k].kind = "begin" /\ f[j].kind = "end"
      BY <1>2, <2>4, MarkerShape DEF BlockAt
    <3>2. i <= k /\ k <= j /\ ~(i < k /\ k < j) /\ k # j
      BY <1>2, <3>1 DEF BlockAt
    <3> QED BY <2>1, <3>2
  <2>5. HasBlock(f, h)
    BY <2>2 DEF HasBlock, Ends
  <2>6. Ends(f, h, i) = {j}
    BY <2>2, <2>3 DEF Ends, Closes
  <2>7. \A k \in DOMAIN f : k # i => Ends(f, h, k) = {}
    BY <2>4 DEF Ends, Closes
  <2> QED BY <2>5, <2>6, <2>7
<1> QED BY <1>1, <1>2


\* The first end behind a line is a line behind it.
LEMMA EndBehind ==
  ASSUME NEW f, Len(f) \in Nat, DOMAIN f = 1 .. Len(f), NEW h, NEW k \in 1 .. Len(f),
         Ends(f, h, k) # {}
  PROVE  Min(Ends(f, h, k)) \in k + 1 .. Len(f)
<1>1. Ends(f, h, k) \subseteq k + 1 .. Len(f)
  BY DEF Ends, Closes
<1>2. Ends(f, h, k) \in SUBSET Nat
  BY <1>1
<1> QED BY <1>1, <1>2, Least

\* The lines from the k-th on, given what becomes of the lines behind it.
From(f, h, by, g, k) ==
  IF k > Len(f) THEN <<>>
  ELSE IF Ends(f, h, k) = {} THEN <<f[k]>> \o g[k + 1]
  ELSE by \o g[Min(Ends(f, h, k)) + 1]

\* The recursion of Replaced has a solution, found from the last line on.
LEMMA ReplacedExists ==
  ASSUME NEW f, Len(f) \in Nat, DOMAIN f = 1 .. Len(f), NEW h, NEW by
  PROVE  \E g : g = [k \in 1 .. Len(f) + 1 |-> From(f, h, by, g, k)]
<1> DEFINE n == Len(f) + 1
           Solves(g, m) == /\ g = [k \in n - m .. n |-> g[k]]
                           /\ \A k \in n - m .. n : g[k] = From(f, h, by, g, k)
           T == {m \in Nat : m <= Len(f) /\ ~\E g : Solves(g, m)}
<1>0. n \in Nat /\ n = Len(f) + 1
  OBVIOUS
<1> HIDE DEF n
<1>1. Solves([k \in n - 0 .. n |-> <<>>], 0)
  BY <1>0 DEF From
<1>2. ASSUME NEW m \in Nat, m < Len(f), NEW g, Solves(g, m)
      PROVE  \E x : Solves(x, m + 1)
  <2> DEFINE i == n - (m + 1)
             e == From(f, h, by, g, i)
             x == [k \in n - (m + 1) .. n |-> IF k = i THEN e ELSE g[k]]
  <2>0. i \in 1 .. Len(f) /\ i = n - (m + 1) /\ n - m = i + 1
    BY <1>0, <1>2
  <2>1. x[i] = e /\ \A k \in n - m .. n : x[k] = g[k]
    BY <2>0, <1>0
  <2>2. x = [k \in n - (m + 1) .. n |-> x[k]]
    OBVIOUS
  <2> HIDE DEF x, i
  <2>3. ASSUME NEW k \in n - (m + 1) .. n PROVE x[k] = From(f, h, by, x, k)
    <3>1. CASE k > Len(f)
      <4>1. k \in n - m .. n /\ k = n
        BY <3>1, <1>0
      <4>2. g[k] = From(f, h, by, g, k) /\ x[k] = g[k]
        BY <4>1, <2>1, <1>2
      <4> QED BY <3>1, <4>2 DEF From
    <3>2. CASE k <= Len(f)
      <4>1. k \in 1 .. Len(f) /\ k \in i .. n
        BY <3>2, <2>0
      <4>2. k + 1 \in n - m .. n
        BY <4>1, <2>0, <1>0
      <4>3. Ends(f, h, k) # {} => Min(Ends(f, h, k)) + 1 \in n - m .. n
        <5>1. Ends(f, h, k) # {} => Min(Ends(f, h, k)) \in k + 1 .. Len(f)
          BY <4>1, EndBehind
        <5> QED BY <5>1, <4>1, <2>0, <1>0
      <4>4. From(f, h, by, x, k) = From(f, h, by, g, k)
        BY <4>2, <4>3, <2>1 DEF From
      <4>5. x[k] = From(f, h, by, g, k)
        <5>1. CASE k = i
          BY <5>1, <2>1
        <5>2. CASE k # i
          <6>1. k \in n - m .. n
            BY <5>2, <4>1, <2>0
          <6> QED BY <6>1, <2>1, <1>2
        <5> QED BY <5>1, <5>2
      <4> QED BY <4>4, <4>5
    <3> QED BY <3>1, <3>2, <1>0
  <2> QED BY <2>2, <2>3
<1>3. ASSUME T # {} PROVE FALSE
  <2> DEFINE m == Min(T)
  <2>1. m \in T /\ \A y \in T : m <= y
    BY <1>3, Least
  <2> HIDE DEF m
  <2>2. m \in Nat /\ m <= Len(f) /\ ~\E g : Solves(g, m)
    BY <2>1
  <2>3. m # 0
    BY <1>1, <2>2
  <2>4. m - 1 \in Nat /\ m - 1 < Len(f) /\ m - 1 \notin T /\ (m - 1) + 1 = m
    BY <2>1, <2>2, <2>3
  <2>5. PICK g : Solves(g, m - 1)
    BY <2>4
  <2>6. \E x : Solves(x, (m - 1) + 1)
    BY <1>2, <2>4, <2>5
  <2> QED BY <2>2, <2>4, <2>6
<1>4. Len(f) \notin T
  BY <1>3
<1>5. PICK g : Solves(g, Len(f))
  BY <1>4
<1>6. n - Len(f) = 1
  BY <1>0
<1>7. g = [k \in 1 .. Len(f) + 1 |-> From(f, h, by, g, k)]
  BY <1>0, <1>5, <1>6
<1> QED BY <1>7

\* What g makes of each line: the equations of Replaced.
Recurs(f, h, by, g) ==
  /\ g[Len(f) + 1] = <<>>
  /\ \A k \in 1 .. Len(f) :
       /\ Ends(f, h, k) = {} => g[k] = <<f[k]>> \o g[k + 1]
       /\ Ends(f, h, k) # {} => \E e \in Ends(f, h, k) :
                                   e \in k + 1 .. Len(f) /\ g[k] = by \o g[e + 1]

LEMMA ReplacedEquations ==
  ASSUME NEW f, Len(f) \in Nat, DOMAIN f = 1 .. Len(f), NEW h, NEW by,
         NEW g, g = Replaced(f, h, by)
  PROVE  Recurs(f, h, by, g)
<1> DEFINE Solves(x) == x = [k \in 1 .. Len(f) + 1 |-> From(f, h, by, x, k)]
<1>1. g = CHOOSE x : Solves(x)
  BY DEF Replaced, From
<1>2. \E x : Solves(x)
  BY ReplacedExists
<1> HIDE DEF Solves
<1>3. Solves(g)
  BY <1>1, <1>2
<1>4. \A k \in 1 .. Len(f) + 1 : g[k] = From(f, h, by, g, k)
  BY <1>3 DEF Solves
<1>5. g[Len(f) + 1] = <<>>
  <2>1. Len(f) + 1 \in 1 .. Len(f) + 1 /\ Len(f) + 1 > Len(f)
    OBVIOUS
  <2>2. g[Len(f) + 1] = From(f, h, by, g, Len(f) + 1)
    BY <1>4, <2>1
  <2> QED BY <2>1, <2>2 DEF From
<1>6. ASSUME NEW k \in 1 .. Len(f)
      PROVE  /\ Ends(f, h, k) = {} => g[k] = <<f[k]>> \o g[k + 1]
             /\ Ends(f, h, k) # {} => \E e \in Ends(f, h, k) :
                                         e \in k + 1 .. Len(f) /\ g[k] = by \o g[e + 1]
  <2>1. g[k] = From(f, h, by, g, k) /\ ~(k > Len(f))
    BY <1>4
  <2>2. ASSUME Ends(f, h, k) # {}
        PROVE  Min(Ends(f, h, k)) \in Ends(f, h, k) /\ Min(Ends(f, h, k)) \in k + 1 .. Len(f)
    <3>1. Ends(f, h, k) \in SUBSET Nat
      BY DEF Ends
    <3> QED BY <2>2, <3>1, Least, EndBehind
  <2> QED BY <2>1, <2>2 DEF From
<1> QED BY <1>5, <1>6 DEF Recurs

\* They are lines, whatever the file is.
LEMMA ReplacedType ==
  ASSUME NEW f \in Seq(Line), NEW h, NEW by \in Seq(Line), NEW g, g = Replaced(f, h, by)
  PROVE  \A k \in 1 .. Len(f) + 1 : g[k] \in Seq(Line)
<1> DEFINE T == {m \in Nat : m <= Len(f) /\ g[Len(f) + 1 - m] \notin Seq(Line)}
<1>0. Len(f) \in Nat /\ DOMAIN f = 1 .. Len(f) /\ \A k \in 1 .. Len(f) : f[k] \in Line
  OBVIOUS
<1>1. Recurs(f, h, by, g)
  BY <1>0, ReplacedEquations
<1>2. ASSUME T # {} PROVE FALSE
  <2> DEFINE m == Min(T)
             k == Len(f) + 1 - m
  <2>1. m \in T /\ \A y \in T : m <= y
    BY <1>2, Least
  <2> HIDE DEF m
  <2>2. m \in Nat /\ m <= Len(f) /\ g[k] \notin Seq(Line)
    BY <2>1
  <2>3. m # 0
    <3>1. g[Len(f) + 1] \in Seq(Line)
      BY <1>1 DEF Recurs
    <3>2. m = 0 => k = Len(f) + 1
      BY <1>0
    <3> QED BY <2>2, <3>1, <3>2
  <2>4. k \in 1 .. Len(f) /\ m = Len(f) + 1 - k
    BY <1>0, <2>2, <2>3
  <2>5. \A e \in k + 1 .. Len(f) + 1 : g[e] \in Seq(Line)
    <3> SUFFICES ASSUME NEW e \in k + 1 .. Len(f) + 1 PROVE g[e] \in Seq(Line)
      OBVIOUS
    <3>1. /\ Len(f) + 1 - e \in Nat /\ Len(f) + 1 - e < m /\ Len(f) + 1 - e <= Len(f)
          /\ Len(f) + 1 - (Len(f) + 1 - e) = e
      BY <1>0, <2>4
    <3>2. Len(f) + 1 - e \notin T
      BY <2>1, <2>2, <3>1
    <3> QED BY <3>1, <3>2
  <2> HIDE DEF k
  <2>6. g[k + 1] \in Seq(Line) /\ f[k] \in Line
    BY <1>0, <2>4, <2>5
  <2>7. CASE Ends(f, h, k) = {}
    <3>1. g[k] = <<f[k]>> \o g[k + 1]
      BY <2>7, <1>1, <2>4 DEF Recurs
    <3> QED BY <3>1, <2>2, <2>6
  <2>8. CASE Ends(f, h, k) # {}
    <3>1. PICK e \in k + 1 .. Len(f) : g[k] = by \o g[e + 1]
      BY <2>8, <1>1, <2>4 DEF Recurs
    <3>2. e + 1 \in k + 1 .. Len(f) + 1
      BY <2>4, <1>0
    <3>3. g[e + 1] \in Seq(Line)
      BY <3>2, <2>5
    <3> QED BY <3>1, <3>3, <2>2
  <2> QED BY <2>7, <2>8
<1>3. ASSUME NEW k \in 1 .. Len(f) + 1 PROVE g[k] \in Seq(Line)
  <2>1. /\ Len(f) + 1 - k \in Nat /\ Len(f) + 1 - k <= Len(f)
        /\ Len(f) + 1 - (Len(f) + 1 - k) = k
    BY <1>0
  <2>2. Len(f) + 1 - k \notin T
    BY <1>2
  <2> QED BY <2>1, <2>2
<1> QED BY <1>3

\* s is n lines of f, from the a-th on, and then t.
Ahead(s, f, a, n, t) ==
  /\ s \in Seq(Line) /\ Len(s) = n + Len(t)
  /\ \A k \in 1 .. n : s[k] = f[a + k - 1]
  /\ \A k \in 1 .. Len(t) : s[n + k] = t[k]

\* Lines at which no block begins stay as they are.
LEMMA Walk ==
  ASSUME NEW f \in Seq(Line), NEW h, NEW by \in Seq(Line), NEW g, g = Replaced(f, h, by),
         NEW a \in 1 .. Len(f) + 1, NEW n \in Nat, a + n <= Len(f) + 1,
         \A k \in a .. a + n - 1 : Ends(f, h, k) = {}
  PROVE  Ahead(g[a], f, a, n, g[a + n])
<1> DEFINE t == g[a + n]
           T == {m \in Nat : m <= n /\ ~Ahead(g[a + n - m], f, a + n - m, m, t)}
<1>0. /\ Len(f) \in Nat /\ DOMAIN f = 1 .. Len(f) /\ a \in Nat
      /\ \A k \in 1 .. Len(f) : f[k] \in Line
  OBVIOUS
<1>1. t \in Seq(Line) /\ Len(t) \in Nat
  <2>1. a + n \in 1 .. Len(f) + 1
    BY <1>0
  <2>2. t \in Seq(Line)
    BY <2>1, ReplacedType
  <2> QED BY <2>2
<1>2. a + n = a + n - 0
  BY <1>0
<1>3. t = g[a + n - 0]
  BY <1>2
<1> HIDE DEF t
<1>4. Ahead(t, f, a + n, 0, t)
  BY <1>1 DEF Ahead
<1>5. ASSUME NEW m \in Nat, m < n, Ahead(g[a + n - m], f, a + n - m, m, t)
      PROVE  Ahead(g[a + n - (m + 1)], f, a + n - (m + 1), m + 1, t)
  <2> DEFINE b == a + n - (m + 1)
  <2>1. b \in a .. a + n - 1 /\ b \in 1 .. Len(f) /\ a + n - m = b + 1 /\ b \in Nat
    BY <1>0, <1>5
  <2> DEFINE r == g[b + 1]
             s == g[b]
  <2>2. s = <<f[b]>> \o r
    <3>1. Recurs(f, h, by, g)
      BY <1>0, ReplacedEquations
    <3>2. Ends(f, h, b) = {}
      BY <2>1
    <3> QED BY <2>1, <3>1, <3>2 DEF Recurs
  <2>3. Ahead(r, f, b + 1, m, t)
    BY <1>5, <2>1
  <2> HIDE DEF b, r, s
  <2>4. r \in Seq(Line) /\ Len(r) = m + Len(t) /\ f[b] \in Line
    BY <1>0, <2>1, <2>3 DEF Ahead
  <2>5. /\ s \in Seq(Line) /\ Len(s) = 1 + Len(r) /\ s[1] = f[b]
        /\ \A k \in 1 .. Len(r) : s[k + 1] = r[k]
    BY <2>2, <2>4
  <2>6. Len(s) = m + 1 + Len(t)
    BY <2>4, <2>5, <1>1
  <2>7. ASSUME NEW k \in 1 .. m + 1 PROVE s[k] = f[b + k - 1]
    <3>1. CASE k = 1
      BY <3>1, <2>1, <2>5
    <3>2. CASE k # 1
      <4>1. k - 1 \in 1 .. m /\ k - 1 \in 1 .. Len(r) /\ (k - 1) + 1 = k
            /\ (b + 1) + (k - 1) - 1 = b + k - 1
        BY <3>2, <2>1, <2>4, <1>1
      <4>2. r[k - 1] = f[(b + 1) + (k - 1) - 1] /\ s[(k - 1) + 1] = r[k - 1]
        BY <4>1, <2>3, <2>5 DEF Ahead
      <4> QED BY <4>1, <4>2
    <3> QED BY <3>1, <3>2
  <2>8. ASSUME NEW k \in 1 .. Len(t) PROVE s[m + 1 + k] = t[k]
    <3>1. m + k \in 1 .. Len(r) /\ (m + k) + 1 = m + 1 + k
      BY <2>4, <1>1
    <3>2. r[m + k] = t[k] /\ s[(m + k) + 1] = r[m + k]
      BY <3>1, <2>3, <2>5 DEF Ahead
    <3> QED BY <3>1, <3>2
  <2>9. Ahead(s, f, b, m + 1, t)
    BY <2>5, <2>6, <2>7, <2>8 DEF Ahead
  <2> QED BY <2>9 DEF s, b
<1>6. ASSUME T # {} PROVE FALSE
  <2> DEFINE m == Min(T)
  <2>1. m \in T /\ \A y \in T : m <= y
    BY <1>6, Least
  <2> HIDE DEF m
  <2>2. m \in Nat /\ m <= n /\ ~Ahead(g[a + n - m], f, a + n - m, m, t)
    BY <2>1
  <2>3. m # 0
    BY <1>2, <1>3, <1>4, <2>2
  <2>4. m - 1 \in Nat /\ m - 1 < n /\ m - 1 \notin T /\ (m - 1) + 1 = m
    BY <2>1, <2>2, <2>3
  <2>5. Ahead(g[a + n - (m - 1)], f, a + n - (m - 1), m - 1, t)
    BY <2>4
  <2>6. Ahead(g[a + n - ((m - 1) + 1)], f, a + n - ((m - 1) + 1), (m - 1) + 1, t)
    BY <1>5, <2>4, <2>5
  <2> QED BY <2>2, <2>4, <2>6
<1>7. n \notin T
  BY <1>6
<1>8. n <= n /\ a + n - n = a
  BY <1>0
<1>9. Ahead(g[a], f, a, n, t)
  BY <1>7, <1>8
<1> QED BY <1>9 DEF t

\* s is f with by in place of the lines from i to j.
Splice(s, f, i, j, by) ==
  /\ s \in Seq(Line) /\ i \in 1 .. Len(f) + 1 /\ j \in i - 1 .. Len(f)
  /\ Len(s) = i - 1 + Len(by) + (Len(f) - j)
  /\ \A k \in 1 .. i - 1 : s[k] = f[k]
  /\ \A k \in 1 .. Len(by) : s[i - 1 + k] = by[k]
  /\ \A k \in j + 1 .. Len(f) : s[i - 1 + Len(by) + (k - j)] = f[k]

LEMMA Joined ==
  ASSUME NEW S, NEW a \in Seq(S), NEW b \in Seq(S)
  PROVE  /\ a \o b \in Seq(S) /\ Len(a \o b) = Len(a) + Len(b)
         /\ \A k \in 1 .. Len(a) : (a \o b)[k] = a[k]
         /\ \A k \in 1 .. Len(b) : (a \o b)[Len(a) + k] = b[k]
OBVIOUS

LEMMA ReplaceNone ==
  ASSUME NEW f \in Seq(Line), NEW h \in Harness, None(f, h), NEW by \in Seq(Line)
  PROVE  ReplaceBlocks(f, h, by) = f
<1> DEFINE g == Replaced(f, h, by)
           s == g[1]
<1>1. Len(f) \in Nat /\ DOMAIN f = 1 .. Len(f)
  OBVIOUS
<1>2. \A k \in 1 .. 1 + Len(f) - 1 : Ends(f, h, k) = {}
  BY <1>1, EndsOf
<1>3. 1 \in 1 .. Len(f) + 1 /\ 1 + Len(f) <= Len(f) + 1 /\ 1 + Len(f) = Len(f) + 1
  BY <1>1
<1>4. Ahead(g[1], f, 1, Len(f), g[1 + Len(f)])
  BY <1>1, <1>2, <1>3, Walk
<1>5. g[1 + Len(f)] = <<>>
  BY <1>1, <1>3, ReplacedEquations DEF Recurs
<1> HIDE DEF g
<1>6. s \in Seq(Line) /\ Len(s) = Len(f) /\ \A k \in 1 .. Len(f) : s[k] = f[1 + k - 1]
  BY <1>1, <1>4, <1>5 DEF Ahead
<1> HIDE DEF s
<1>7. \A k \in 1 .. Len(f) : s[k] = f[k]
  BY <1>6
<1>8. s = f
  BY <1>1, <1>6, <1>7
<1> QED BY <1>8 DEF ReplaceBlocks, s, g

LEMMA ReplaceOne ==
  ASSUME NEW f \in Seq(Line), NEW h \in Harness, NEW i \in DOMAIN f, NEW j \in DOMAIN f,
         BlockAt(f, h, i, j), NEW by \in Seq(Line)
  PROVE  Splice(ReplaceBlocks(f, h, by), f, i, j, by)
<1> DEFINE g == Replaced(f, h, by)
<1>1. /\ Len(f) \in Nat /\ DOMAIN f = 1 .. Len(f) /\ i \in 1 .. Len(f) /\ j \in 1 .. Len(f)
      /\ i < j /\ Len(by) \in Nat
  BY DEF BlockAt
<1>2. Ends(f, h, i) = {j} /\ \A k \in 1 .. Len(f) : k # i => Ends(f, h, k) = {}
  BY <1>1, EndsOf
<1>3. Recurs(f, h, by, g)
  BY <1>1, ReplacedEquations
<1>4. Ahead(g[j + 1], f, j + 1, Len(f) - j, g[(j + 1) + (Len(f) - j)])
  <2>1. /\ j + 1 \in 1 .. Len(f) + 1 /\ Len(f) - j \in Nat
        /\ (j + 1) + (Len(f) - j) <= Len(f) + 1
        /\ \A k \in j + 1 .. (j + 1) + (Len(f) - j) - 1 : Ends(f, h, k) = {}
    BY <1>1, <1>2
  <2> QED BY <2>1, Walk
<1>5. g[(j + 1) + (Len(f) - j)] = <<>>
  <2>1. (j + 1) + (Len(f) - j) = Len(f) + 1
    BY <1>1
  <2> QED BY <2>1, <1>3 DEF Recurs
<1>6. Ahead(g[1], f, 1, i - 1, g[1 + (i - 1)])
  <2>1. /\ 1 \in 1 .. Len(f) + 1 /\ i - 1 \in Nat /\ 1 + (i - 1) <= Len(f) + 1
        /\ \A k \in 1 .. 1 + (i - 1) - 1 : Ends(f, h, k) = {}
    BY <1>1, <1>2
  <2> QED BY <2>1, Walk
<1>7. g[1 + (i - 1)] = by \o g[j + 1]
  <2>1. 1 + (i - 1) = i
    BY <1>1
  <2>2. g[i] = by \o g[j + 1]
    BY <1>1, <1>2, <1>3 DEF Recurs
  <2> QED BY <2>1, <2>2
<1> DEFINE s == g[1]
           m == g[1 + (i - 1)]
           t == g[j + 1]
<1> HIDE DEF g
<1>8. /\ t \in Seq(Line) /\ Len(t) = Len(f) - j
      /\ \A k \in 1 .. Len(f) - j : t[k] = f[(j + 1) + k - 1]
  BY <1>1, <1>4, <1>5 DEF Ahead
<1>9. m = by \o t
  BY <1>7
<1>10. /\ s \in Seq(Line) /\ Len(s) = i - 1 + Len(m)
       /\ \A k \in 1 .. i - 1 : s[k] = f[1 + k - 1]
       /\ \A k \in 1 .. Len(m) : s[i - 1 + k] = m[k]
  BY <1>6 DEF Ahead
<1> HIDE DEF s, m, t
<1>11. /\ Len(m) = Len(by) + (Len(f) - j)
       /\ \A k \in 1 .. Len(by) : m[k] = by[k]
       /\ \A k \in 1 .. Len(f) - j : m[Len(by) + k] = t[k]
  <2>1. t \in Seq(Line)
    BY <1>8
  <2>2. /\ Len(m) = Len(by) + Len(t)
        /\ \A k \in 1 .. Len(by) : m[k] = by[k]
        /\ \A k \in 1 .. Len(t) : m[Len(by) + k] = t[k]
    BY <2>1, <1>9, Joined
  <2> QED BY <2>2, <1>8
<1>12. Len(s) = i - 1 + Len(by) + (Len(f) - j)
  BY <1>1, <1>10, <1>11
<1>13. \A k \in 1 .. i - 1 : s[k] = f[k]
  BY <1>1, <1>10
<1>14. \A k \in 1 .. Len(by) : s[i - 1 + k] = by[k]
  <2> SUFFICES ASSUME NEW k \in 1 .. Len(by) PROVE s[i - 1 + k] = by[k]
    OBVIOUS
  <2>1. Len(f) - j \in Nat /\ Len(m) = Len(by) + (Len(f) - j)
    BY <1>1, <1>11
  <2>2. k \in 1 .. Len(m)
    BY <1>1, <2>1
  <2> QED BY <2>2, <1>10, <1>11
<1>15. \A k \in j + 1 .. Len(f) : s[i - 1 + Len(by) + (k - j)] = f[k]
  <2> SUFFICES ASSUME NEW k \in j + 1 .. Len(f) PROVE s[i - 1 + Len(by) + (k - j)] = f[k]
    OBVIOUS
  <2>0. Len(m) = Len(by) + (Len(f) - j)
    BY <1>11
  <2>1. /\ k - j \in 1 .. Len(f) - j /\ Len(by) + (k - j) \in 1 .. Len(m)
        /\ (j + 1) + (k - j) - 1 = k
        /\ i - 1 + (Len(by) + (k - j)) = i - 1 + Len(by) + (k - j)
    BY <1>1, <2>0, SMTT(30)
  <2>2. s[i - 1 + (Len(by) + (k - j))] = m[Len(by) + (k - j)]
    BY <2>1, <1>10
  <2>3. m[Len(by) + (k - j)] = t[k - j]
    BY <2>1, <1>11
  <2>4. t[k - j] = f[k]
    BY <2>1, <1>8
  <2> QED BY <2>1, <2>2, <2>3, <2>4
<1>16. Splice(s, f, i, j, by)
  BY <1>1, <1>10, <1>12, <1>13, <1>14, <1>15 DEF Splice
<1> QED BY <1>16 DEF ReplaceBlocks, s, g

\* A block that is appended.
LEMMA AppendSplice ==
  ASSUME NEW f \in Seq(Line), NEW by \in Seq(Line)
  PROVE  Splice(f \o by, f, Len(f) + 1, Len(f), by)
<1> DEFINE s == f \o by
<1>1. /\ Len(f) \in Nat /\ Len(by) \in Nat /\ s \in Seq(Line) /\ Len(s) = Len(f) + Len(by)
      /\ \A k \in 1 .. Len(f) : s[k] = f[k]
      /\ \A k \in 1 .. Len(by) : s[Len(f) + k] = by[k]
  OBVIOUS
<1> HIDE DEF s
<1>2. Splice(s, f, Len(f) + 1, Len(f), by)
  <2>1. \A k \in 1 .. Len(by) : s[Len(f) + 1 - 1 + k] = by[k]
    BY <1>1
  <2> QED BY <1>1, <2>1 DEF Splice
<1> QED BY <1>2 DEF s

\* Where a line of s is from.
LEMMA SpliceLines ==
  ASSUME NEW f \in Seq(Line), NEW by \in Seq(Line), NEW i, NEW j, NEW s,
         Splice(s, f, i, j, by), NEW k \in DOMAIN s
  PROVE  \/ k < i /\ k \in DOMAIN f /\ s[k] = f[k]
         \/ /\ i <= k /\ k < i + Len(by)
            /\ k - i + 1 \in DOMAIN by /\ s[k] = by[k - i + 1]
         \/ \E l \in j + 1 .. Len(f) : k = i - 1 + Len(by) + (l - j) /\ s[k] = f[l]
<1>1. /\ Len(f) \in Nat /\ DOMAIN f = 1 .. Len(f) /\ Len(by) \in Nat
      /\ DOMAIN by = 1 .. Len(by) /\ i \in 1 .. Len(f) + 1 /\ j \in i - 1 .. Len(f)
      /\ k \in 1 .. i - 1 + Len(by) + (Len(f) - j)
  BY DEF Splice
<1>2. CASE k < i
  BY <1>1, <1>2 DEF Splice
<1>3. CASE i <= k /\ k < i + Len(by)
  <2>1. k - i + 1 \in 1 .. Len(by) /\ i - 1 + (k - i + 1) = k
    BY <1>1, <1>3
  <2>2. s[i - 1 + (k - i + 1)] = by[k - i + 1]
    BY <2>1 DEF Splice
  <2> QED BY <1>1, <1>3, <2>1, <2>2
<1>4. CASE i + Len(by) <= k
  <2> DEFINE l == k - Len(by) - i + 1 + j
  <2>1. l \in j + 1 .. Len(f) /\ k = i - 1 + Len(by) + (l - j)
    BY <1>1, <1>4
  <2>2. s[i - 1 + Len(by) + (l - j)] = f[l]
    BY <2>1 DEF Splice
  <2> QED BY <2>1, <2>2
<1> QED BY <1>1, <1>2, <1>3, <1>4

-----------------------------------------------------------------------------
(* What a splice does to the lines of a harness, and of the user.          *)

\* If all lines of g go, and none comes, there is none.
LEMMA SpliceOut ==
  ASSUME NEW f \in Seq(Line), NEW by \in Seq(Line), NEW i, NEW j, NEW s,
         Splice(s, f, i, j, by), NEW g \in Harness,
         \A k \in DOMAIN f : Of(f[k], g) => i <= k /\ k <= j,
         \A k \in DOMAIN by : ~Of(by[k], g)
  PROVE  None(s, g)
<1> SUFFICES ASSUME NEW k \in DOMAIN s, Of(s[k], g) PROVE FALSE
  BY DEF None
<1>1. /\ DOMAIN f = 1 .. Len(f) /\ Len(f) \in Nat
      /\ DOMAIN s = 1 .. Len(s) /\ i \in 1 .. Len(f) + 1 /\ j \in i - 1 .. Len(f)
  BY DEF Splice
<1>2. CASE k < i /\ k \in DOMAIN f /\ s[k] = f[k]
  BY <1>1, <1>2
<1>3. CASE k - i + 1 \in DOMAIN by /\ s[k] = by[k - i + 1]
  BY <1>3
<1>4. CASE \E l \in j + 1 .. Len(f) : s[k] = f[l]
  <2>1. PICK l \in j + 1 .. Len(f) : s[k] = f[l]
    BY <1>4
  <2>2. l \in DOMAIN f /\ ~(l <= j)
    BY <1>1, <2>1
  <2> QED BY <2>1, <2>2
<1> QED BY <1>2, <1>3, <1>4, SpliceLines

\* A block in place of all lines of h is what there is of h.
LEMMA SpliceIn ==
  ASSUME NEW f \in Seq(Line), NEW h \in Harness, NEW body \in Seq(Inner(h)),
         NEW by, by = WrapBlock(h, body), NEW i, NEW j, NEW s, Splice(s, f, i, j, by),
         \A k \in DOMAIN f : Of(f[k], h) => i <= k /\ k <= j
  PROVE  /\ i \in DOMAIN s /\ i + Len(body) + 1 \in DOMAIN s
         /\ BlockAt(s, h, i, i + Len(body) + 1)
<1>1. /\ by \in Seq(Line) /\ Len(by) = Len(body) + 2 /\ Len(body) \in Nat
      /\ by[1] = markerBegin(h) /\ by[Len(by)] = markerEnd(h)
      /\ \A k \in 1 .. Len(by) : Of(by[k], h)
      /\ \A k \in 1 .. Len(by) : 1 < k /\ k < Len(by) => by[k].kind \notin {"begin", "end"}
  BY WrapShape
<1> DEFINE z == i + Len(body) + 1
<1>2. /\ DOMAIN f = 1 .. Len(f) /\ Len(f) \in Nat /\ DOMAIN by = 1 .. Len(by)
      /\ i \in 1 .. Len(f) + 1 /\ j \in i - 1 .. Len(f) /\ s \in Seq(Line)
      /\ Len(s) = i - 1 + Len(by) + (Len(f) - j)
      /\ \A k \in 1 .. Len(by) : s[i - 1 + k] = by[k]
  BY <1>1 DEF Splice
<1>3. i \in DOMAIN s /\ z \in DOMAIN s /\ i < z
  <2>1. Len(s) \in Nat /\ DOMAIN s = 1 .. Len(s)
    BY <1>2
  <2>2. Len(f) - j \in Nat /\ Len(s) = z + (Len(f) - j) /\ i \in Nat /\ i >= 1
    BY <1>1, <1>2
  <2>3. i < z /\ z \in Nat
    BY <1>1, <2>2
  <2> QED BY <2>1, <2>2, <2>3
<1>4. s[i] = markerBegin(h) /\ s[z] = markerEnd(h)
  <2>1. i - 1 + 1 = i /\ i - 1 + Len(by) = z /\ 1 \in 1 .. Len(by) /\ Len(by) \in 1 .. Len(by)
    BY <1>1, <1>2
  <2>2. s[i - 1 + 1] = by[1] /\ s[i - 1 + Len(by)] = by[Len(by)]
    BY <1>2, <2>1
  <2> QED BY <1>1, <2>1, <2>2
<1>5. ASSUME NEW k \in DOMAIN s
      PROVE  /\ Of(s[k], h) <=> i <= k /\ k <= z
             /\ i < k /\ k < z => s[k].kind \notin {"begin", "end"}
  <2>0. k \in Nat /\ i \in Nat /\ z \in Nat /\ z = i + Len(by) - 1
    BY <1>1, <1>2
  <2>1. CASE k < i /\ k \in DOMAIN f /\ s[k] = f[k]
    BY <2>0, <2>1
  <2>2. CASE /\ i <= k /\ k < i + Len(by)
             /\ k - i + 1 \in DOMAIN by /\ s[k] = by[k - i + 1]
    <3>1. Of(by[k - i + 1], h) /\ i <= k /\ k <= z
      BY <1>1, <1>2, <2>0, <2>2, SMTT(30)
    <3>2. i < k /\ k < z => by[k - i + 1].kind \notin {"begin", "end"}
      <4>1. i < k /\ k < z => 1 < k - i + 1 /\ k - i + 1 < Len(by)
        BY <1>1, <1>2, <2>0, SMTT(30)
      <4> QED BY <1>1, <1>2, <2>2, <4>1
    <3> QED BY <2>2, <3>1, <3>2
  <2>3. CASE \E l \in j + 1 .. Len(f) : k = i - 1 + Len(by) + (l - j) /\ s[k] = f[l]
    <3>1. PICK l \in j + 1 .. Len(f) : k = i - 1 + Len(by) + (l - j) /\ s[k] = f[l]
      BY <2>3
    <3>2. l \in DOMAIN f /\ ~(l <= j) /\ ~(k <= z)
      BY <1>1, <1>2, <2>0, <3>1
    <3>3. ~Of(f[l], h)
      BY <3>2
    <3> QED BY <2>0, <3>1, <3>2, <3>3
  <2> QED BY <1>1, <2>1, <2>2, <2>3, SpliceLines
<1>6. BlockAt(s, h, i, z)
  BY <1>3, <1>4, <1>5 DEF BlockAt
<1> QED BY <1>3, <1>6

\* Where nothing of g goes or comes, its block stays, though it may move.
LEMMA SpliceBeside ==
  ASSUME NEW f \in Seq(Line), NEW by \in Seq(Line), NEW i, NEW j, NEW s,
         Splice(s, f, i, j, by), i <= Len(f) => i <= j, NEW g \in Harness,
         \A k \in DOMAIN f : Of(f[k], g) => k < i \/ j < k,
         \A k \in DOMAIN by : ~Of(by[k], g),
         Neat(f, g)
  PROVE  Neat(s, g)
<1>1. /\ DOMAIN f = 1 .. Len(f) /\ Len(f) \in Nat /\ Len(by) \in Nat /\ Len(s) \in Nat
      /\ DOMAIN s = 1 .. Len(s) /\ i \in 1 .. Len(f) + 1 /\ j \in i - 1 .. Len(f)
      /\ Len(s) = i - 1 + Len(by) + (Len(f) - j)
  BY DEF Splice
<1>2. CASE None(f, g)
  <2>1. None(s, g)
    BY <1>2, SpliceOut DEF None
  <2> QED BY <2>1 DEF Neat
<1>3. CASE \E p, q \in DOMAIN f : BlockAt(f, g, p, q)
  <2>1. PICK p \in DOMAIN f, q \in DOMAIN f : BlockAt(f, g, p, q)
    BY <1>3
  <2>2. p < q /\ \A k \in DOMAIN f : Of(f[k], g) <=> p <= k /\ k <= q
    BY <2>1 DEF BlockAt
  <2>3. q < i \/ j < p
    <3>1. Of(f[p], g) /\ Of(f[q], g)
      BY <1>1, <2>1, <2>2
    <3>2. (p < i \/ j < p) /\ (q < i \/ j < q)
      BY <3>1, <2>1
    <3>3. p < i /\ j < q => FALSE
      <4>1. ASSUME p < i, j < q PROVE FALSE
        <5>1. i <= Len(f) => i <= j
          OBVIOUS
        <5>2. i \in DOMAIN f /\ i <= j
          BY <1>1, <2>1, <4>1, <5>1
        <5>3. Of(f[i], g)
          BY <1>1, <2>2, <4>1, <5>2
        <5> QED BY <1>1, <5>2, <5>3
      <4> QED BY <4>1
    <3> QED BY <1>1, <2>1, <3>2, <3>3
  <2>4. CASE q < i
    <3>1. p \in DOMAIN s /\ q \in DOMAIN s
      BY <1>1, <2>1, <2>2, <2>4
    <3>2. s[p] = f[p] /\ s[q] = f[q]
      BY <1>1, <2>1, <2>2, <2>4 DEF Splice
    <3>3. ASSUME NEW k \in DOMAIN s
          PROVE  /\ Of(s[k], g) <=> p <= k /\ k <= q
                 /\ p < k /\ k < q => s[k].kind \notin {"begin", "end"}
      <4>1. CASE k < i /\ k \in DOMAIN f /\ s[k] = f[k]
        BY <2>1, <2>2, <4>1 DEF BlockAt
      <4>2. CASE i <= k /\ k - i + 1 \in DOMAIN by /\ s[k] = by[k - i + 1]
        BY <1>1, <2>1, <2>4, <4>2
      <4>3. CASE \E l \in j + 1 .. Len(f) : k = i - 1 + Len(by) + (l - j) /\ s[k] = f[l]
        <5>1. PICK l \in j + 1 .. Len(f) : k = i - 1 + Len(by) + (l - j) /\ s[k] = f[l]
          BY <4>3
        <5>2. l \in DOMAIN f /\ q < l /\ q < k
          BY <1>1, <2>1, <2>4, <5>1
        <5>3. ~Of(f[l], g)
          BY <1>1, <2>1, <2>2, <5>2
        <5> QED BY <1>1, <2>1, <5>1, <5>2, <5>3
      <4> QED BY <4>1, <4>2, <4>3, SpliceLines
    <3>4. BlockAt(s, g, p, q)
      BY <2>1, <2>2, <3>2, <3>3 DEF BlockAt
    <3> QED BY <3>1, <3>4 DEF Neat
  <2>5. CASE j < p
    <3> DEFINE d == i - 1 + Len(by) - j
    <3>1. d \in Int /\ p + d \in DOMAIN s /\ q + d \in DOMAIN s /\ p + d < q + d
      BY <1>1, <2>1, <2>2, <2>5
    <3>2. \A l \in j + 1 .. Len(f) : s[l + d] = f[l]
      <4> SUFFICES ASSUME NEW l \in j + 1 .. Len(f) PROVE s[l + d] = f[l]
        OBVIOUS
      <4>1. i - 1 + Len(by) + (l - j) = l + d
        BY <1>1
      <4>2. s[i - 1 + Len(by) + (l - j)] = f[l]
        BY DEF Splice
      <4> QED BY <4>1, <4>2
    <3>3. s[p + d] = f[p] /\ s[q + d] = f[q]
      BY <1>1, <2>1, <2>2, <2>5, <3>2, SMTT(30)
    <3>4. ASSUME NEW k \in DOMAIN s
          PROVE  /\ Of(s[k], g) <=> p + d <= k /\ k <= q + d
                 /\ p + d < k /\ k < q + d => s[k].kind \notin {"begin", "end"}
      <4>0. p + d >= i + Len(by)
        BY <1>1, <2>1, <2>5
      <4>1. CASE k < i /\ k \in DOMAIN f /\ s[k] = f[k]
        <5>1. ~Of(f[k], g) /\ k < p + d
          BY <1>1, <2>1, <2>2, <2>5, <4>0, <4>1
        <5>2. ~(p + d <= k) /\ ~(p + d < k)
          <6>1. k \in Int /\ p \in Int /\ d \in Int /\ k < p + d
            BY <1>1, <2>1, <3>1, <5>1
          <6> HIDE DEF d
          <6> QED BY <6>1
        <5> QED BY <4>1, <5>1, <5>2
      <4>2. CASE k < i + Len(by) /\ k - i + 1 \in DOMAIN by /\ s[k] = by[k - i + 1]
        <5>1. ~Of(by[k - i + 1], g) /\ k < p + d
          BY <1>1, <2>1, <3>1, <4>0, <4>2, SMTT(30)
        <5>2. ~(p + d <= k) /\ ~(p + d < k)
          <6>1. k \in Int /\ p \in Int /\ d \in Int /\ k < p + d
            BY <1>1, <2>1, <3>1, <5>1
          <6> HIDE DEF d
          <6> QED BY <6>1
        <5> QED BY <4>2, <5>1, <5>2
      <4>3. CASE \E l \in j + 1 .. Len(f) : k = i - 1 + Len(by) + (l - j) /\ s[k] = f[l]
        <5>1. PICK l \in j + 1 .. Len(f) : k = i - 1 + Len(by) + (l - j) /\ s[k] = f[l]
          BY <4>3
        <5>2. k = l + d /\ l \in DOMAIN f
          BY <1>1, <5>1
        <5>3. /\ Of(f[l], g) <=> p <= l /\ l <= q
              /\ p < l /\ l < q => f[l].kind \notin {"begin", "end"}
          BY <5>2, <2>1 DEF BlockAt
        <5>4. (p <= l <=> p + d <= k) /\ (l <= q <=> k <= q + d)
              /\ (p < l <=> p + d < k) /\ (l < q <=> k < q + d)
          <6>1. l \in Int /\ p \in Int /\ q \in Int /\ d \in Int /\ k = l + d
            BY <1>1, <3>1, <5>2
          <6> HIDE DEF d
          <6> QED BY <6>1
        <5> QED BY <5>1, <5>3, <5>4
      <4> QED BY <4>1, <4>2, <4>3, SpliceLines
    <3> HIDE DEF d
    <3>5. BlockAt(s, g, p + d, q + d)
      <4>1. f[p] = markerBegin(g) /\ f[q] = markerEnd(g)
        BY <2>1 DEF BlockAt
      <4> QED BY <3>1, <3>3, <3>4, <4>1 DEF BlockAt
    <3> QED BY <3>1, <3>5 DEF Neat
  <2> QED BY <2>3, <2>4, <2>5
<1> QED BY <1>2, <1>3 DEF Neat

\* The lines of the user are still there when none of them goes or comes.
LEMMA SpliceUsers ==
  ASSUME NEW f \in Seq(Line), NEW by \in Seq(Line), NEW i, NEW j, NEW s,
         Splice(s, f, i, j, by),
         \A k \in DOMAIN f : f[k] = userLine => k < i \/ j < k,
         \A k \in DOMAIN by : by[k] # userLine
  PROVE  UserLines(s) = UserLines(f)
<1>1. /\ DOMAIN f = 1 .. Len(f) /\ Len(f) \in Nat /\ Len(by) \in Nat /\ Len(s) \in Nat
      /\ DOMAIN s = 1 .. Len(s) /\ i \in 1 .. Len(f) + 1 /\ j \in i - 1 .. Len(f)
      /\ Len(s) = i - 1 + Len(by) + (Len(f) - j) /\ s \in Seq(Line)
  BY DEF Splice
<1> DEFINE S == {k \in DOMAIN f : f[k] = userLine}
           T == {k \in DOMAIN s : s[k] = userLine}
           d == i - 1 + Len(by) - j
           e(k) == IF k < i THEN k ELSE k + d
           b == [k \in S |-> e(k)]
<1>2. UserLines(f) = Cardinality(S) /\ UserLines(s) = Cardinality(T)
  <2>1. f # NoFile /\ s # NoFile
    BY <1>1, NothingAssumption
  <2> QED BY <2>1 DEF UserLines, Lines
<1>3. \A l \in j + 1 .. Len(f) : l + d \in DOMAIN s /\ s[l + d] = f[l]
  <2> SUFFICES ASSUME NEW l \in j + 1 .. Len(f) PROVE l + d \in DOMAIN s /\ s[l + d] = f[l]
    OBVIOUS
  <2>1. i - 1 + Len(by) + (l - j) = l + d /\ l + d \in DOMAIN s
    BY <1>1
  <2>2. s[i - 1 + Len(by) + (l - j)] = f[l]
    BY DEF Splice
  <2> QED BY <2>1, <2>2
<1>4. \A k \in 1 .. i - 1 : k \in DOMAIN s /\ s[k] = f[k]
  BY <1>1 DEF Splice
<1>5. d \in Int /\ d + j + 1 >= i
  BY <1>1
<1>6. \A k \in S : k \in 1 .. Len(f) /\ (k < i \/ j < k)
  BY <1>1
<1>7. \A k \in S : e(k) \in T
  BY <1>1, <1>3, <1>4, <1>6
<1>8. \A k, l \in S : e(k) = e(l) => k = l
  BY <1>1, <1>5, <1>6
<1>9. \A k \in T : \E l \in S : e(l) = k
  <2> SUFFICES ASSUME NEW k \in T PROVE \E l \in S : e(l) = k
    OBVIOUS
  <2>1. CASE k < i /\ k \in DOMAIN f /\ s[k] = f[k]
    <3>1. k \in S /\ e(k) = k
      BY <2>1
    <3> QED BY <3>1
  <2>2. CASE k - i + 1 \in DOMAIN by /\ s[k] = by[k - i + 1]
    BY <2>2
  <2>3. CASE \E l \in j + 1 .. Len(f) : k = i - 1 + Len(by) + (l - j) /\ s[k] = f[l]
    <3>1. PICK l \in j + 1 .. Len(f) : k = i - 1 + Len(by) + (l - j) /\ s[k] = f[l]
      BY <2>3
    <3>2. l \in S /\ ~(l < i) /\ k = l + d
      BY <1>1, <3>1
    <3> QED BY <3>2
  <2> QED BY <2>1, <2>2, <2>3, SpliceLines
<1>10. IsFiniteSet(S)
  <2>1. IsFiniteSet(1 .. Len(f))
    BY <1>1, FS_Interval
  <2> QED BY <1>1, <2>1, FS_Subset
<1> HIDE DEF S, T, e
<1>11. b \in Bijection(S, T)
  BY <1>7, <1>8, <1>9 DEF Bijection, Injection, Surjection, IsInjective
<1>12. Cardinality(T) = Cardinality(S)
  BY <1>10, <1>11, FS_Bijection DEF ExistsBijection
<1> QED BY <1>2, <1>12

-----------------------------------------------------------------------------
(* Installation: the inductive invariant.                                  *)

Op == [dst : Dst, merge : Merge, body : Seq(Line)]

InstallCmd   == [op : {"install"}, h : Harness, v : Version, todo : Seq(Op),
                 done : Seq(FileReceipt)]
UninstallCmd == [op : {"uninstall"}, h : Harness, todo : Seq(FileReceipt)]

InstallTypeOK ==
  /\ files \in [Dst -> Seq(Line) \cup {NoFile}]
  /\ receipt \in [Harness -> Seq(FileReceipt) \cup {NoReceipt, Torn}]
  /\ cmd \in {Idle} \cup InstallCmd \cup UninstallCmd
  /\ damaged \subseteq Dst

\* Some version of h appends to d.
Appends(h, d) ==
  \E v \in Version : \E op \in ToSet(BuildPlan(h, v)) : op.dst = d /\ op.merge = "append"

\* What no manifest that mure ships breaks: a harness that appends to a file does
\* nothing else with it, in any version.
SteadyMerges ==
  \A h \in Harness, v \in Version : \A op \in ToSet(BuildPlan(h, v)) :
    Appends(h, op.dst) => op.merge = "append"

\* And no plan has a path twice.
PathsOnce ==
  \A h \in Harness, v \in Version : \A op, other \in ToSet(BuildPlan(h, v)) :
    op.dst = other.dst => op = other

\* A file that is not damaged has one block at most of each harness that appends to it.
FilesInv == \A h \in Harness, d \in Dst \ damaged : Appends(h, d) => Neat(Lines(files[d]), h)

\* A receipt says that a file was appended to when it may have been, and what
\* replaced a file has no line of the user.
ListedAs(h, r) ==
  /\ Appends(h, r.dst) <=> r.merge = "append"
  /\ r.merge = "replace" => userLine \notin ToSet(r.sha)

ReceiptInv ==
  \A h \in Harness : receipt[h] \notin {NoReceipt, Torn} =>
    \A r \in ToSet(receipt[h]) : ListedAs(h, r)

\* What is still to do is of the plan, and what has been done is listed.
PlanInv ==
  cmd.op = "install" =>
    /\ ToSet(cmd.todo) \subseteq ToSet(BuildPlan(cmd.h, cmd.v))
    /\ Dsts(BuildPlan(cmd.h, cmd.v)) \subseteq Dsts(cmd.done) \cup Dsts(cmd.todo)
    /\ \A r \in ToSet(cmd.done) : ListedAs(cmd.h, r)

\* An uninstallation knows of every file that holds something of its harness.
UninstallInv ==
  cmd.op = "uninstall" =>
    /\ \A r \in ToSet(cmd.todo) : ListedAs(cmd.h, r)
    /\ \A d \in Dst \ damaged :
         Holds(files[d], cmd.h) => <<cmd.h, d>> \in loose \/ d \in Dsts(cmd.todo)

\* While an installation runs, its own list counts too.
AccountInv ==
  \A h \in Harness, d \in Dst \ damaged :
    Holds(files[d], h) => \/ d \in Recorded(h) \/ <<h, d>> \in loose
                          \/ cmd.op = "install" /\ cmd.h = h /\ d \in Dsts(cmd.done)

Plain(op) == \A l \in ToSet(op.body) : l.kind # "dollar"

\* What is not to do any more is as planned.
DoneInv ==
  cmd.op = "install" =>
    \A op \in ToSet(BuildPlan(cmd.h, cmd.v)) :
      \/ op \in ToSet(cmd.todo)
      \/ op.dst \notin damaged \cup touched /\ Plain(op) =>
           AsPlanned(files[op.dst], cmd.h, op)

InstallInv ==
  InstallTypeOK /\ FilesInv /\ ReceiptInv /\ PlanInv /\ UninstallInv /\ AccountInv

-----------------------------------------------------------------------------
(* Installation: what the operations on a file do.                         *)

\* The lines of h in f become those of b.
Swap(s, f, h, b) ==
  \E i, j : /\ Splice(s, f, i, j, b)
            /\ i <= Len(f) => i <= j
            /\ \A k \in DOMAIN f : Of(f[k], h) <=> i <= k /\ k <= j

LEMMA AppendIs ==
  ASSUME NEW f \in Seq(Line), NEW h \in Harness, Neat(f, h), NEW body \in Seq(Text(h))
  PROVE  \E b \in Seq(Inner(h)) :
           /\ Swap(ReplaceOrAppendBlock(f, h, body), f, h, WrapBlock(h, b))
           /\ (\A k \in DOMAIN body : body[k].kind # "dollar") => b = body
<1>1. body \in Seq(Inner(h))
  BY TextShape
<1>2. CASE None(f, h)
  <2> DEFINE w == WrapBlock(h, body)
  <2>1. w \in Seq(Line)
    BY <1>1, WrapShape
  <2> HIDE DEF w
  <2>2. ReplaceOrAppendBlock(f, h, body) = f \o w
    BY <1>2, EndsOf DEF ReplaceOrAppendBlock, w
  <2>3. Splice(f \o w, f, Len(f) + 1, Len(f), w)
    BY <2>1, AppendSplice
  <2>4. /\ Len(f) + 1 <= Len(f) => Len(f) + 1 <= Len(f)
        /\ \A k \in DOMAIN f : Of(f[k], h) <=> Len(f) + 1 <= k /\ k <= Len(f)
    <3>1. \A k \in DOMAIN f : ~Of(f[k], h)
      BY <1>2 DEF None
    <3>2. \A k \in DOMAIN f : ~(Len(f) + 1 <= k /\ k <= Len(f))
      OBVIOUS
    <3> QED BY <3>1, <3>2
  <2>5. Swap(f \o w, f, h, w)
    BY <2>3, <2>4 DEF Swap
  <2> QED BY <1>1, <2>2, <2>5 DEF w
<1>3. CASE \E i, j \in DOMAIN f : BlockAt(f, h, i, j)
  <2>1. PICK i \in DOMAIN f, j \in DOMAIN f : BlockAt(f, h, i, j)
    BY <1>3
  <2> DEFINE b == expand(body)
             w == WrapBlock(h, b)
  <2>2. b \in Seq(Inner(h)) /\ ((\A k \in DOMAIN body : body[k].kind # "dollar") => b = body)
    BY ExpandShape
  <2> HIDE DEF b
  <2>3. w \in Seq(Line)
    BY <2>2, WrapShape
  <2> HIDE DEF w
  <2>4. HasBlock(f, h)
    BY <2>1, EndsOf
  <2>5. ReplaceOrAppendBlock(f, h, body) = ReplaceBlocks(f, h, w)
    BY <2>4 DEF ReplaceOrAppendBlock, w, b
  <2>6. Splice(ReplaceBlocks(f, h, w), f, i, j, w)
    BY <2>1, <2>3, ReplaceOne
  <2>7. (i <= Len(f) => i <= j) /\ \A k \in DOMAIN f : Of(f[k], h) <=> i <= k /\ k <= j
    BY <2>1 DEF BlockAt
  <2>8. Swap(ReplaceBlocks(f, h, w), f, h, w)
    BY <2>6, <2>7 DEF Swap
  <2> QED BY <2>2, <2>5, <2>8 DEF w
<1> QED BY <1>2, <1>3 DEF Neat

LEMMA StripIs ==
  ASSUME NEW f \in Seq(Line), NEW h \in Harness, Neat(f, h)
  PROVE  Swap(StripBlock(f, h), f, h, <<>>)
<1>0. <<>> \in Seq(Line)
  OBVIOUS
<1>1. CASE None(f, h)
  <2>1. StripBlock(f, h) = f
    BY <1>0, <1>1, ReplaceNone DEF StripBlock
  <2>2. Splice(f \o <<>>, f, Len(f) + 1, Len(f), <<>>)
    BY <1>0, AppendSplice
  <2>3. f \o <<>> = f
    OBVIOUS
  <2>4. /\ Len(f) + 1 <= Len(f) => Len(f) + 1 <= Len(f)
        /\ \A k \in DOMAIN f : Of(f[k], h) <=> Len(f) + 1 <= k /\ k <= Len(f)
    <3>1. \A k \in DOMAIN f : ~Of(f[k], h)
      BY <1>1 DEF None
    <3>2. \A k \in DOMAIN f : ~(Len(f) + 1 <= k /\ k <= Len(f))
      OBVIOUS
    <3> QED BY <3>1, <3>2
  <2> QED BY <2>1, <2>2, <2>3, <2>4 DEF Swap
<1>2. CASE \E i, j \in DOMAIN f : BlockAt(f, h, i, j)
  <2>1. PICK i \in DOMAIN f, j \in DOMAIN f : BlockAt(f, h, i, j)
    BY <1>2
  <2>2. Splice(StripBlock(f, h), f, i, j, <<>>)
    BY <1>0, <2>1, ReplaceOne DEF StripBlock
  <2>3. (i <= Len(f) => i <= j) /\ \A k \in DOMAIN f : Of(f[k], h) <=> i <= k /\ k <= j
    BY <2>1 DEF BlockAt
  <2> QED BY <2>2, <2>3 DEF Swap
<1> QED BY <1>1, <1>2 DEF Neat

\* Other harnesses and the user do not notice.
LEMMA SwapBeside ==
  ASSUME NEW f \in Seq(Line), NEW h \in Harness, NEW b \in Seq(Line),
         \A k \in DOMAIN b : Of(b[k], h), NEW s, Swap(s, f, h, b)
  PROVE  /\ s \in Seq(Line) /\ UserLines(s) = UserLines(f)
         /\ \A g \in Harness : g # h =>
              (Neat(f, g) => Neat(s, g)) /\ (None(f, g) => None(s, g))
<1>1. PICK i, j : /\ Splice(s, f, i, j, b)
                  /\ i <= Len(f) => i <= j
                  /\ \A k \in DOMAIN f : Of(f[k], h) <=> i <= k /\ k <= j
  BY DEF Swap
<1>2. s \in Seq(Line)
  BY <1>1 DEF Splice
<1>3. /\ i \in Nat /\ j \in Int /\ DOMAIN f \subseteq Nat /\ \A k \in DOMAIN f : f[k] \in Line
      /\ \A k \in DOMAIN b : b[k] \in Line
  BY <1>1 DEF Splice
<1>4. \A k \in DOMAIN f : ~Of(f[k], h) => k < i \/ j < k
  BY <1>1, <1>3
<1>5. UserLines(s) = UserLines(f)
  <2>1. ~Of(userLine, h)
    BY MarkerShape
  <2>2. \A k \in DOMAIN f : f[k] = userLine => k < i \/ j < k
    BY <2>1, <1>4
  <2>3. \A k \in DOMAIN b : b[k] # userLine
    BY <2>1
  <2> QED BY <1>1, <2>2, <2>3, SpliceUsers
<1>6. ASSUME NEW g \in Harness, g # h
      PROVE  (Neat(f, g) => Neat(s, g)) /\ (None(f, g) => None(s, g))
  <2>1. \A k \in DOMAIN f : Of(f[k], g) => ~Of(f[k], h)
    BY <1>3, <1>6, LineShape
  <2>2. \A k \in DOMAIN f : Of(f[k], g) => k < i \/ j < k
    BY <2>1, <1>4
  <2>3. \A k \in DOMAIN b : ~Of(b[k], g)
    BY <1>3, <1>6, LineShape
  <2>4. Neat(f, g) => Neat(s, g)
    BY <1>1, <2>2, <2>3, SpliceBeside
  <2>5. ASSUME None(f, g) PROVE None(s, g)
    <3>1. \A k \in DOMAIN f : Of(f[k], g) => i <= k /\ k <= j
      BY <2>5 DEF None
    <3> QED BY <1>1, <2>3, <3>1, SpliceOut
  <2> QED BY <2>4, <2>5
<1> QED BY <1>2, <1>5, <1>6

\* What is there of h is one block then, or nothing.
LEMMA SwapIn ==
  ASSUME NEW f \in Seq(Line), NEW h \in Harness, NEW body \in Seq(Inner(h)),
         NEW b, b = WrapBlock(h, body), NEW s, Swap(s, f, h, b)
  PROVE  /\ b \in Seq(Line) /\ \A k \in DOMAIN b : Of(b[k], h)
         /\ Neat(s, h) /\ HasOnly(s, h, b)
<1>1. PICK i, j : /\ Splice(s, f, i, j, b)
                  /\ \A k \in DOMAIN f : Of(f[k], h) <=> i <= k /\ k <= j
  BY DEF Swap
<1>2. b \in Seq(Line) /\ Len(b) = Len(body) + 2 /\ Len(body) \in Nat
      /\ DOMAIN b = 1 .. Len(b) /\ \A k \in DOMAIN b : Of(b[k], h)
  BY WrapShape
<1> DEFINE z == i + Len(body) + 1
<1>3. i \in DOMAIN s /\ z \in DOMAIN s /\ BlockAt(s, h, i, z)
  <2>1. \A k \in DOMAIN f : Of(f[k], h) => i <= k /\ k <= j
    BY <1>1
  <2> QED BY <1>1, <2>1, SpliceIn
<1>4. Neat(s, h)
  BY <1>3 DEF Neat
<1>5. HasOnly(s, h, b)
  <2>1. /\ i \in Nat /\ i >= 1 /\ Len(s) \in Nat /\ DOMAIN s = 1 .. Len(s)
        /\ \A k \in DOMAIN b : s[i - 1 + k] = b[k]
    BY <1>1, <1>2 DEF Splice
  <2>2. i - 1 \in 0 .. Len(s) - Len(b)
    BY <1>2, <1>3, <2>1
  <2>3. \A k \in DOMAIN s : Of(s[k], h) => k - (i - 1) \in DOMAIN b
    <3> SUFFICES ASSUME NEW k \in DOMAIN s, Of(s[k], h) PROVE k - (i - 1) \in DOMAIN b
      OBVIOUS
    <3>1. i <= k /\ k <= z
      BY <1>3 DEF BlockAt
    <3> QED BY <1>2, <2>1, <3>1
  <2> QED BY <2>1, <2>2, <2>3 DEF HasOnly
<1> QED BY <1>2, <1>4, <1>5

LEMMA SwapOut ==
  ASSUME NEW f \in Seq(Line), NEW h \in Harness, NEW s, Swap(s, f, h, <<>>)
  PROVE  None(s, h)
<1>1. PICK i, j : /\ Splice(s, f, i, j, <<>>)
                  /\ \A k \in DOMAIN f : Of(f[k], h) <=> i <= k /\ k <= j
  BY DEF Swap
<1>2. <<>> \in Seq(Line) /\ DOMAIN (<<>>) = {}
  OBVIOUS
<1>3. \A k \in DOMAIN f : Of(f[k], h) => i <= k /\ k <= j
  BY <1>1
<1>4. \A k \in DOMAIN (<<>>) : ~Of((<<>>)[k], h)
  BY <1>2
<1> QED BY <1>1, <1>2, <1>3, <1>4, SpliceOut

LEMMA Nothing == \A h \in Harness : None(<<>>, h) /\ Neat(<<>>, h)
BY DEF None, Neat

LEMMA HoldsIs == \A f, h : Holds(f, h) <=> ~None(Lines(f), h)
BY DEF Holds, None

LEMMA LinesOf ==
  /\ NoFile \notin Seq(Line) /\ <<>> \in Seq(Line)
  /\ Lines(NoFile) = <<>>
  /\ \A s \in Seq(Line) : Lines(s) = s
  /\ \A s \in Seq(Line) \cup {NoFile} :
       Lines(s) \in Seq(Line) /\ UserLines(Lines(s)) = UserLines(s)
<1>1. NoFile \notin Seq(Line) /\ <<>> \in Seq(Line)
  BY NothingAssumption
<1>2. Lines(NoFile) = <<>> /\ \A s \in Seq(Line) : Lines(s) = s
  BY <1>1 DEF Lines
<1>3. ASSUME NEW s \in Seq(Line) \cup {NoFile}
      PROVE  Lines(s) \in Seq(Line) /\ UserLines(Lines(s)) = UserLines(s)
  <2>1. Lines(s) \in Seq(Line)
    BY <1>1, <1>2
  <2>2. Lines(Lines(s)) = Lines(s)
    BY <1>2, <2>1
  <2> QED BY <2>1, <2>2 DEF UserLines
<1> QED BY <1>1, <1>2, <1>3

LEMMA NoUsers ==
  ASSUME NEW s \in Seq(Line), \A k \in DOMAIN s : s[k] # userLine
  PROVE  UserLines(s) = 0
<1>1. {k \in DOMAIN s : s[k] = userLine} = {}
  OBVIOUS
<1>2. Lines(s) = s
  BY LinesOf
<1> QED BY <1>1, <1>2, FS_EmptySet DEF UserLines

\* What a harness says is of that harness.
LEMMA BodyShape ==
  ASSUME NEW h \in Harness, NEW body \in Seq(Text(h))
  PROVE  /\ body \in Seq(Line) /\ UserLines(body) = 0 /\ userLine \notin ToSet(body)
         /\ \A g \in Harness : g # h => None(body, g)
<1>1. \A k \in DOMAIN body : body[k] \in Line /\ Of(body[k], h)
  BY TextShape DEF Inner
<1>2. body \in Seq(Line)
  BY TextShape DEF Inner
<1>3. \A k \in DOMAIN body : body[k] # userLine
  BY <1>1, MarkerShape
<1>4. \A g \in Harness : g # h => None(body, g)
  BY <1>1, LineShape DEF None
<1> QED BY <1>2, <1>3, <1>4, NoUsers DEF ToSet

LEMMA PlanShape ==
  ASSUME NEW h \in Harness, NEW v \in Version
  PROVE  /\ BuildPlan(h, v) \in Seq(Skill(h))
         /\ \A op \in ToSet(BuildPlan(h, v)) : op \in Skill(h)
<1> DEFINE m == Manifest[h][v]
           more == [i \in DOMAIN m.files |->
                      [dst |-> m.files[i].dst, merge |-> "replace", body |-> m.files[i].body]]
<1>1. m.skill \in Seq(Skill(h)) /\ m.files \in Seq(File(h))
  BY ManifestAssumption
<1>2. /\ DOMAIN m.files = 1 .. Len(m.files) /\ Len(m.files) \in Nat
      /\ \A i \in DOMAIN m.files : m.files[i] \in File(h)
  BY <1>1
<1>3. \A i \in DOMAIN m.files : more[i] \in Skill(h)
  BY <1>2 DEF Skill, File, Merge
<1>4. more \in Seq(Skill(h))
  <2> DEFINE n == Len(m.files)
  <2>1. n \in Nat /\ more = [i \in 1 .. n |-> more[i]] /\ \A i \in 1 .. n : more[i] \in Skill(h)
    BY <1>2, <1>3
  <2> HIDE DEF n, more
  <2>2. more \in [1 .. n -> Skill(h)]
    BY <2>1
  <2> QED BY <2>1, <2>2
<1>5. BuildPlan(h, v) = m.skill \o more
  BY DEF BuildPlan
<1> HIDE DEF m, more
<1>6. BuildPlan(h, v) \in Seq(Skill(h))
  BY <1>1, <1>4, <1>5
<1> QED BY <1>6 DEF ToSet

LEMMA FileOf ==
  ASSUME InstallTypeOK, NEW d \in Dst
  PROVE  /\ files[d] \in Seq(Line) \cup {NoFile} /\ Lines(files[d]) \in Seq(Line)
         /\ Content(d) = Lines(files[d])
         /\ files[d] # NoFile => Lines(files[d]) = files[d] /\ files[d] \in Seq(Line)
         /\ UserLines(Lines(files[d])) = UserLines(files[d])
<1>1. files[d] \in Seq(Line) \cup {NoFile}
  BY DEF InstallTypeOK
<1>2. Content(d) = Lines(files[d])
  BY DEF Content, Lines
<1> QED BY <1>1, <1>2, LinesOf

LEMMA ReplaceType ==
  ASSUME NEW f \in Seq(Line), NEW h \in Harness, NEW by \in Seq(Line)
  PROVE  ReplaceBlocks(f, h, by) \in Seq(Line)
<1>1. 1 \in 1 .. Len(f) + 1
  OBVIOUS
<1> QED BY <1>1, ReplacedType DEF ReplaceBlocks

LEMMA WrittenType ==
  ASSUME InstallTypeOK, NEW h \in Harness, NEW op \in Skill(h)
  PROVE  Written(h, op) \in Seq(Line)
<1> DEFINE f == Content(op.dst)
<1>1. op.dst \in Dst /\ op.body \in Seq(Text(h))
  BY DEF Skill
<1>2. f \in Seq(Line) /\ (Skips(op) => files[op.dst] \in Seq(Line))
  BY <1>1, FileOf DEF Skips
<1>3. op.body \in Seq(Inner(h)) /\ expand(op.body) \in Seq(Inner(h))
  BY <1>1, TextShape, ExpandShape
<1>4. WrapBlock(h, op.body) \in Seq(Line) /\ WrapBlock(h, expand(op.body)) \in Seq(Line)
  BY <1>3, WrapShape
<1>5. ReplaceBlocks(f, h, WrapBlock(h, expand(op.body))) \in Seq(Line)
  BY <1>2, <1>4, ReplaceType
<1>6. f \o WrapBlock(h, op.body) \in Seq(Line)
  BY <1>2, <1>4
<1>7. ReplaceOrAppendBlock(f, h, op.body) \in Seq(Line)
  BY <1>5, <1>6 DEF ReplaceOrAppendBlock
<1>8. op.body \in Seq(Line)
  BY <1>1, BodyShape
<1> QED BY <1>2, <1>7, <1>8 DEF Written

LEMMA RevertedType ==
  ASSUME InstallTypeOK, NEW h \in Harness, NEW r \in FileReceipt
  PROVE  Reverted(h, r) \in Seq(Line) \cup {NoFile}
<1>1. r.dst \in Dst
  BY DEF FileReceipt
<1>2. files[r.dst] # NoFile => StripBlock(files[r.dst], h) \in Seq(Line)
  BY <1>1, FileOf, LinesOf, ReplaceType DEF StripBlock
<1>3. files[r.dst] \in Seq(Line) \cup {NoFile} /\ <<>> \in Seq(Line)
  BY <1>1, FileOf, LinesOf
<1> QED BY <1>2, <1>3 DEF Reverted

\* With the lines s in place of f in d: nothing of a harness but h comes, and what
\* harnesses append is in one piece.
Mixes(s, f, h, d) ==
  /\ \A g \in Harness : g # h => \/ None(s, g)
                                 \/ d \notin damaged /\ (None(f, g) => None(s, g))
  /\ \A g \in Harness : Appends(g, d) => Neat(s, g)

LEMMA WrittenIs ==
  ASSUME InstallTypeOK, FilesInv, SteadyMerges, NEW h \in Harness, NEW v \in Version,
         NEW op \in ToSet(BuildPlan(h, v)), op.merge = "replace" \/ op.dst \notin damaged,
         NEW s, s = Written(h, op)
  PROVE  /\ Mixes(s, Lines(files[op.dst]), h, op.dst)
         /\ op.merge # "replace" => UserLines(s) = UserLines(files[op.dst])
         /\ op.merge = "replace" => s = op.body
         /\ op.merge = "append" /\ Plain(op) => HasOnly(s, h, WrapBlock(h, op.body))
<1> DEFINE d == op.dst
           f == Lines(files[d])
<1>1. d \in Dst /\ op.merge \in Merge /\ op.body \in Seq(Text(h))
  BY PlanShape DEF Skill
<1>2. /\ f \in Seq(Line) /\ f = Content(d) /\ UserLines(f) = UserLines(files[d])
      /\ files[d] # NoFile => f = files[d]
      /\ files[d] = NoFile => f = <<>>
  BY <1>1, FileOf, LinesOf
<1>3. /\ op.body \in Seq(Line) /\ UserLines(op.body) = 0
      /\ \A g \in Harness : g # h => None(op.body, g)
  BY <1>1, BodyShape
<1>4. Appends(h, d) => op.merge = "append"
  BY DEF SteadyMerges
<1>5. op.merge = "append" => Appends(h, d)
  BY DEF Appends
<1>6. d \notin damaged => \A g \in Harness : Appends(g, d) => Neat(f, g)
  BY <1>1 DEF FilesInv
<1> HIDE DEF f
<1>7. CASE s = op.body /\ op.merge # "append"
  <2>1. Mixes(s, f, h, d)
    BY <1>3, <1>4, <1>7 DEF Mixes, Neat
  <2>2. ASSUME op.merge # "replace" PROVE UserLines(s) = UserLines(f)
    <3>1. op.merge = "create-if-missing" /\ op.merge # "append"
      BY <2>2, <1>1, <1>7 DEF Merge
    <3>2. CASE files[d] = NoFile
      <4>1. UserLines(<<>>) = 0
        BY NoUsers, LinesOf
      <4> QED BY <3>2, <4>1, <1>2, <1>3, <1>7
    <3>3. CASE files[d] # NoFile
      <4>1. s = files[d]
        BY <3>1, <3>3 DEF Written, Skips
      <4> QED BY <4>1, <1>2
    <3> QED BY <3>2, <3>3
  <2> QED BY <1>2, <1>7, <2>1, <2>2 DEF f
<1>8. CASE s = f /\ Skips(op)
  <2>1. op.merge = "create-if-missing" /\ op.merge # "replace" /\ op.merge # "append"
    BY <1>8 DEF Skips
  <2>2. Mixes(s, f, h, d)
    <3>1. d \notin damaged
      BY <2>1
    <3> QED BY <3>1, <1>6, <1>8 DEF Mixes
  <2> QED BY <1>2, <1>8, <2>1, <2>2 DEF f
<1>9. CASE s = ReplaceOrAppendBlock(f, h, op.body) /\ op.merge = "append"
  <2>0. op.merge # "replace" /\ d \notin damaged
    BY <1>9
  <2>1. Neat(f, h)
    BY <2>0, <1>5, <1>6, <1>9
  <2>2. PICK b \in Seq(Inner(h)) :
           /\ Swap(s, f, h, WrapBlock(h, b))
           /\ (\A k \in DOMAIN op.body : op.body[k].kind # "dollar") => b = op.body
    BY <1>1, <1>2, <1>9, <2>1, AppendIs
  <2> DEFINE w == WrapBlock(h, b)
  <2>3. /\ w \in Seq(Line) /\ \A k \in DOMAIN w : Of(w[k], h)
        /\ Neat(s, h) /\ HasOnly(s, h, w)
    BY <1>2, <2>2, SwapIn
  <2>4. Swap(s, f, h, w)
    BY <2>2
  <2> HIDE DEF w
  <2>5. /\ UserLines(s) = UserLines(f)
        /\ \A g \in Harness : g # h =>
              (Neat(f, g) => Neat(s, g)) /\ (None(f, g) => None(s, g))
    BY <1>2, <2>3, <2>4, SwapBeside
  <2>6. Mixes(s, f, h, d)
    BY <1>6, <2>0, <2>3, <2>5 DEF Mixes
  <2>7. Plain(op) => HasOnly(s, h, WrapBlock(h, op.body))
    <3>1. Plain(op) => \A k \in DOMAIN op.body : op.body[k].kind # "dollar"
      BY DEF Plain, ToSet
    <3> QED BY <3>1, <2>2, <2>3 DEF w
  <2> QED BY <1>2, <2>0, <2>5, <2>6, <2>7 DEF f
<1>10. \/ s = op.body /\ op.merge # "append"
       \/ s = f /\ Skips(op)
       \/ s = ReplaceOrAppendBlock(f, h, op.body) /\ op.merge = "append"
  <2>1. Skips(op) => s = f
    BY <1>2 DEF Written, Skips
  <2>2. ~Skips(op) /\ op.merge = "append" => s = ReplaceOrAppendBlock(f, h, op.body)
    BY <1>2 DEF Written
  <2>3. ~Skips(op) /\ op.merge # "append" => s = op.body
    BY DEF Written
  <2> QED BY <2>1, <2>2, <2>3
<1> QED BY <1>7, <1>8, <1>9, <1>10

\* The record of it.
LEMMA RecordIs ==
  ASSUME InstallTypeOK, SteadyMerges, NEW h \in Harness, NEW v \in Version,
         NEW op \in ToSet(BuildPlan(h, v)),
         NEW r, r = [dst |-> op.dst, merge |-> op.merge, sha |-> Written(h, op)]
  PROVE  r \in FileReceipt /\ ListedAs(h, r)
<1>1. op \in Skill(h) /\ op.dst \in Dst /\ op.merge \in Merge /\ op.body \in Seq(Text(h))
  BY PlanShape DEF Skill
<1>2. Written(h, op) \in Seq(Line)
  BY <1>1, WrittenType
<1>3. r \in FileReceipt /\ r.dst = op.dst /\ r.merge = op.merge /\ r.sha = Written(h, op)
  BY <1>1, <1>2 DEF FileReceipt
<1>4. Appends(h, op.dst) <=> op.merge = "append"
  BY DEF SteadyMerges, Appends
<1>5. op.merge = "replace" => Written(h, op) = op.body
  BY DEF Written, Skips
<1>6. userLine \notin ToSet(op.body)
  BY <1>1, BodyShape
<1> QED BY <1>3, <1>4, <1>5, <1>6 DEF ListedAs

LEMMA RevertedIs ==
  ASSUME InstallTypeOK, FilesInv, NEW h \in Harness, NEW r \in FileReceipt, ListedAs(h, r),
         NEW s, s = Reverted(h, r), s = NoFile \/ r.dst \notin damaged
  PROVE  /\ Mixes(Lines(s), Lines(files[r.dst]), h, r.dst)
         /\ None(Lines(files[r.dst]), h) => None(Lines(s), h)
         /\ ~Modified(r) => None(Lines(s), h)
         /\ r.dst \notin damaged /\ ~TakesOver(r) => UserLines(s) = UserLines(files[r.dst])
<1> DEFINE d == r.dst
           f == Lines(files[d])
           t == Lines(s)
<1>1. d \in Dst /\ r.merge \in Merge /\ r.sha \in Seq(Line)
  BY DEF FileReceipt
<1>2. /\ f \in Seq(Line) /\ UserLines(f) = UserLines(files[d])
      /\ files[d] # NoFile => f = files[d]
      /\ files[d] = NoFile => f = <<>>
  BY <1>1, FileOf, LinesOf
<1>3. s \in Seq(Line) \cup {NoFile} /\ UserLines(t) = UserLines(s)
      /\ (s # NoFile => t = s) /\ (s = NoFile => t = <<>>)
  BY RevertedType, LinesOf
<1>4. d \notin damaged => \A g \in Harness : Appends(g, d) => Neat(f, g)
  BY <1>1 DEF FilesInv
<1> HIDE DEF f, t
<1>5. ASSUME t = <<>> PROVE Mixes(t, f, h, d) /\ None(t, h)
  BY <1>5, Nothing DEF Mixes
<1>6. UserLines(<<>>) = 0
  BY NoUsers, LinesOf
<1>7. CASE Modified(r)
  <2>1. s = files[d] /\ s # NoFile /\ s = f /\ t = f
    BY <1>2, <1>3, <1>7 DEF Reverted, Modified
  <2>2. d \notin damaged
    BY <2>1
  <2>3. Mixes(t, f, h, d)
    BY <1>4, <2>1, <2>2 DEF Mixes
  <2> QED BY <1>7, <2>1, <2>3 DEF f, t
<1>8. CASE ~Modified(r) /\ ~(r.merge = "append" /\ files[d] # NoFile)
  <2>1. s = NoFile /\ t = <<>>
    BY <1>3, <1>8 DEF Reverted
  <2>2. ASSUME ~TakesOver(r) PROVE UserLines(f) = 0
    <3>1. CASE files[d] = NoFile
      BY <3>1, <1>2, <1>6
    <3>2. CASE files[d] # NoFile
      <4>1. r.merge # "append" /\ files[d] = r.sha
        BY <1>8, <3>2 DEF Modified
      <4>2. userLine \notin ToSet(r.sha)
        BY <1>1, <2>2, <4>1 DEF ListedAs, TakesOver, Merge
      <4>3. UserLines(r.sha) = 0
        BY <1>1, <4>2, NoUsers DEF ToSet
      <4> QED BY <1>2, <3>2, <4>1, <4>3
    <3> QED BY <3>1, <3>2
  <2>3. ~TakesOver(r) => UserLines(s) = UserLines(files[d])
    BY <1>2, <1>3, <1>6, <2>1, <2>2
  <2> QED BY <1>5, <2>1, <2>3 DEF f, t
<1>9. CASE r.merge = "append" /\ files[d] # NoFile
  <2> DEFINE g == StripBlock(f, h)
  <2>1. ~Modified(r)
    BY <1>9 DEF Modified
  <2>2. s = IF g = <<>> THEN NoFile ELSE g
    BY <1>2, <1>9, <2>1 DEF Reverted
  <2>3. t = g
    <3>1. g \in Seq(Line)
      BY <1>2, LinesOf, ReplaceType DEF StripBlock
    <3> HIDE DEF g
    <3> QED BY <1>3, <2>2, <3>1, LinesOf
  <2>4. CASE d \in damaged
    <3>1. t = <<>>
      BY <1>3, <2>4
    <3> QED BY <1>5, <2>4, <3>1 DEF f, t
  <2>5. CASE d \notin damaged
    <3>1. Appends(h, d)
      BY <1>9 DEF ListedAs
    <3>2. Neat(f, h)
      BY <1>4, <2>5, <3>1
    <3>3. Swap(t, f, h, <<>>)
      BY <1>2, <2>3, <3>2, StripIs
    <3>4. None(t, h)
      BY <1>2, <3>3, SwapOut
    <3>5. /\ UserLines(t) = UserLines(f)
          /\ \A x \in Harness : x # h =>
                (Neat(f, x) => Neat(t, x)) /\ (None(f, x) => None(t, x))
      <4>1. <<>> \in Seq(Line) /\ \A k \in DOMAIN (<<>>) : Of((<<>>)[k], h)
        BY LinesOf
      <4> QED BY <1>2, <3>3, <4>1, SwapBeside
    <3>6. Mixes(t, f, h, d)
      BY <1>4, <2>5, <3>4, <3>5 DEF Mixes, Neat
    <3> QED BY <1>2, <1>3, <3>4, <3>5, <3>6 DEF f, t
  <2> QED BY <2>4, <2>5
<1> QED BY <1>7, <1>8, <1>9

-----------------------------------------------------------------------------
(* Installation: the steps keep the invariant.                             *)

LEMMA TodoIs ==
  ASSUME NEW S, NEW s \in Seq(S), s # <<>>
  PROVE  /\ Head(s) \in S /\ Tail(s) \in Seq(S)
         /\ ToSet(s) = {Head(s)} \cup ToSet(Tail(s))
         /\ Dsts(s) = {Head(s).dst} \cup Dsts(Tail(s))
<1> DEFINE t == Tail(s)
           x == Head(s)
<1>1. /\ Len(s) \in Nat \ {0} /\ DOMAIN s = 1 .. Len(s) /\ x = s[1] /\ x \in S
      /\ t \in Seq(S) /\ DOMAIN t = 1 .. Len(s) - 1
      /\ \A i \in DOMAIN t : t[i] = s[i + 1]
  OBVIOUS
<1> HIDE DEF t, x
<1>2. \A i \in DOMAIN s : i = 1 \/ (i - 1 \in DOMAIN t /\ t[i - 1] = s[i])
  BY <1>1
<1>3. \A i \in DOMAIN t : i + 1 \in DOMAIN s /\ t[i] = s[i + 1]
  BY <1>1
<1>4. 1 \in DOMAIN s /\ x = s[1]
  BY <1>1
<1>5. ToSet(s) = {x} \cup ToSet(t)
  BY <1>2, <1>3, <1>4 DEF ToSet
<1>6. Dsts(s) = {x.dst} \cup Dsts(t)
  BY <1>2, <1>3, <1>4 DEF Dsts
<1> QED BY <1>1, <1>5, <1>6 DEF t, x

LEMMA DoneIs ==
  ASSUME NEW S, NEW s \in Seq(S), NEW r \in S
  PROVE  /\ Append(s, r) \in Seq(S)
         /\ ToSet(Append(s, r)) = ToSet(s) \cup {r}
         /\ Dsts(Append(s, r)) = Dsts(s) \cup {r.dst}
<1> DEFINE t == Append(s, r)
<1>1. /\ Len(s) \in Nat /\ DOMAIN s = 1 .. Len(s) /\ t \in Seq(S)
      /\ DOMAIN t = 1 .. Len(s) + 1 /\ t[Len(s) + 1] = r
      /\ \A i \in DOMAIN s : t[i] = s[i]
  OBVIOUS
<1>2. /\ \A i \in DOMAIN t : i = Len(s) + 1 \/ i \in DOMAIN s
      /\ \A i \in DOMAIN s : i \in DOMAIN t
      /\ Len(s) + 1 \in DOMAIN t
  BY <1>1
<1> HIDE DEF t
<1>3. ToSet(t) = ToSet(s) \cup {r}
  BY <1>1, <1>2 DEF ToSet
<1>4. Dsts(t) = Dsts(s) \cup {r.dst}
  BY <1>1, <1>2 DEF Dsts
<1> QED BY <1>1, <1>3, <1>4 DEF t

LEMMA CmdIs ==
  ASSUME InstallTypeOK
  PROVE  /\ cmd.op = "install" => cmd \in InstallCmd
         /\ cmd.op = "uninstall" => cmd \in UninstallCmd
         /\ cmd \in InstallCmd => cmd.op = "install"
         /\ cmd \in UninstallCmd => cmd.op = "uninstall"
         /\ cmd = Idle => cmd.op = "idle"
BY DEF InstallTypeOK, Idle, InstallCmd, UninstallCmd

\* Nothing comes into a file but what h has in d.
Fewer(h, d) ==
  \A g \in Harness, x \in Dst \ damaged' :
    g # h \/ x # d => (Holds(files'[x], g) => x \notin damaged /\ Holds(files[x], g))

LEMMA Changed ==
  ASSUME InstallTypeOK, FilesInv, NEW h \in Harness, NEW d \in Dst,
         NEW s \in Seq(Line) \cup {NoFile}, files' = [files EXCEPT ![d] = s],
         damaged \ {d} \subseteq damaged',
         d \notin damaged' => Mixes(Lines(s), Lines(files[d]), h, d)
  PROVE  /\ files' \in [Dst -> Seq(Line) \cup {NoFile}] /\ FilesInv' /\ Fewer(h, d)
<1>1. files \in [Dst -> Seq(Line) \cup {NoFile}]
  BY DEF InstallTypeOK
<1>2. /\ files' \in [Dst -> Seq(Line) \cup {NoFile}] /\ files'[d] = s
      /\ \A x \in Dst : x # d => files'[x] = files[x] /\ (x \notin damaged' => x \notin damaged)
  BY <1>1
<1>3. FilesInv'
  <2> SUFFICES ASSUME NEW g \in Harness, NEW x \in Dst, x \notin damaged', Appends(g, x)
               PROVE  Neat(Lines(files'[x]), g)
    BY DEF FilesInv, Appends
  <2>1. CASE x = d
    BY <1>2, <2>1 DEF Mixes
  <2>2. CASE x # d
    BY <1>2, <2>2 DEF FilesInv
  <2> QED BY <2>1, <2>2
<1>4. Fewer(h, d)
  <2> SUFFICES ASSUME NEW g \in Harness, NEW x \in Dst, x \notin damaged', g # h \/ x # d,
                      Holds(files'[x], g)
               PROVE  x \notin damaged /\ Holds(files[x], g)
    BY DEF Fewer
  <2>1. CASE x = d
    <3>1. Mixes(Lines(s), Lines(files[d]), h, d) /\ ~None(Lines(s), g) /\ g # h
      BY <1>2, <2>1, HoldsIs
    <3>2. d \notin damaged /\ ~None(Lines(files[d]), g)
      BY <3>1 DEF Mixes
    <3> QED BY <2>1, <3>2, HoldsIs
  <2>2. CASE x # d
    BY <1>2, <2>2
  <2> QED BY <2>1, <2>2
<1> QED BY <1>2, <1>3, <1>4

LEMMA Unchanged ==
  ASSUME InstallTypeOK, FilesInv, UNCHANGED <<files, damaged>>, NEW h, NEW d
  PROVE  /\ files' \in [Dst -> Seq(Line) \cup {NoFile}] /\ damaged' \subseteq Dst
         /\ FilesInv' /\ Fewer(h, d)
BY DEF InstallTypeOK, FilesInv, Fewer, Appends

LEMMA Failed ==
  ASSUME InstallTypeOK, FilesInv, NEW h \in Harness, NEW d \in Dst, NEW new \in Seq(Line),
         FailedWrite(d, new)
  PROVE  /\ files' \in [Dst -> Seq(Line) \cup {NoFile}] /\ damaged' \subseteq Dst
         /\ FilesInv' /\ Fewer(h, d)
<1>1. CASE UNCHANGED <<files, damaged>>
  BY <1>1, Unchanged
<1>2. CASE /\ \E n \in 0 .. Len(new) - 1 : files' = [files EXCEPT ![d] = SubSeq(new, 1, n)]
           /\ damaged' = damaged \cup {d}
  <2>1. PICK n \in 0 .. Len(new) - 1 : files' = [files EXCEPT ![d] = SubSeq(new, 1, n)]
    BY <1>2
  <2>2. SubSeq(new, 1, n) \in Seq(Line)
    OBVIOUS
  <2>3. damaged' \subseteq Dst
    BY <1>2 DEF InstallTypeOK
  <2> QED BY <1>2, <2>1, <2>2, <2>3, Changed
<1> QED BY <1>1, <1>2 DEF FailedWrite

LEMMA PlanOps ==
  ASSUME NEW h \in Harness, NEW v \in Version
  PROVE  BuildPlan(h, v) \in Seq(Op)
<1>1. Skill(h) \subseteq Op
  <2> SUFFICES ASSUME NEW x \in Skill(h) PROVE x \in Op
    OBVIOUS
  <2>1. x.body \in Seq(Text(h)) /\ x \in [dst : Dst, merge : Merge, body : Seq(Text(h))]
    BY DEF Skill
  <2>2. x.body \in Seq(Line)
    BY <2>1, BodyShape
  <2> QED BY <2>1, <2>2 DEF Op
<1> QED BY <1>1, PlanShape

LEMMA StartsInstall ==
  ASSUME InstallInv, NEW h \in Harness, NEW v \in Version, integrationInstall(h, v)
  PROVE  InstallInv'
<1>0. InstallTypeOK /\ FilesInv /\ ReceiptInv /\ AccountInv /\ cmd = Idle /\ cmd.op = "idle"
  BY CmdIs DEF InstallInv, integrationInstall, StartCommand
<1> DEFINE p == BuildPlan(h, v)
<1>1. p \in Seq(Op)
  BY PlanOps
<1> HIDE DEF p
<1>2. /\ cmd' = [op |-> "install", h |-> h, v |-> v, todo |-> p, done |-> <<>>]
      /\ UNCHANGED <<files, receipt, damaged, loose>>
  BY DEF integrationInstall, StartCommand, p
<1>3. /\ cmd' \in InstallCmd /\ cmd'.op = "install" /\ cmd'.h = h /\ cmd'.v = v
      /\ cmd'.todo = p /\ cmd'.done = <<>>
  BY <1>1, <1>2 DEF InstallCmd
<1>4. InstallTypeOK'
  BY <1>0, <1>2, <1>3 DEF InstallTypeOK
<1>5. FilesInv'
  BY <1>0, <1>2 DEF FilesInv, Appends
<1>6. ReceiptInv'
  BY <1>0, <1>2 DEF ReceiptInv, ListedAs, Appends
<1>7. PlanInv'
  <2>1. ToSet(<<>>) = {}
    BY DEF ToSet
  <2> QED BY <1>3, <2>1 DEF PlanInv, p
<1>8. UninstallInv'
  BY <1>3 DEF UninstallInv
<1>9. AccountInv'
  BY <1>0, <1>2 DEF AccountInv, Recorded
<1> QED BY <1>4, <1>5, <1>6, <1>7, <1>8, <1>9 DEF InstallInv

LEMMA InstallApplies ==
  ASSUME InstallInv, SteadyMerges, Apply
  PROVE  InstallInv'
<1>0. InstallTypeOK /\ FilesInv /\ ReceiptInv /\ PlanInv /\ AccountInv
      /\ cmd.op = "install" /\ cmd.todo # <<>>
  BY DEF InstallInv, Apply, Busy
<1> DEFINE h == cmd.h
           v == cmd.v
           op == current
           d == op.dst
           s == Written(h, op)
           r == [dst |-> d, merge |-> op.merge, sha |-> s]
           p == BuildPlan(h, v)
<1>1. /\ cmd \in InstallCmd /\ h \in Harness /\ v \in Version
      /\ cmd.todo \in Seq(Op) /\ cmd.done \in Seq(FileReceipt)
  BY <1>0, CmdIs DEF InstallCmd
<1>2. /\ op \in Op /\ Tail(cmd.todo) \in Seq(Op)
      /\ ToSet(cmd.todo) = {op} \cup ToSet(Tail(cmd.todo))
      /\ Dsts(cmd.todo) = {d} \cup Dsts(Tail(cmd.todo))
  BY <1>0, <1>1, TodoIs DEF current
<1>3. ToSet(cmd.todo) \subseteq ToSet(p) /\ Dsts(p) \subseteq Dsts(cmd.done) \cup Dsts(cmd.todo)
      /\ \A x \in ToSet(cmd.done) : ListedAs(h, x)
  BY <1>0 DEF PlanInv
<1>4. op \in ToSet(p) /\ op \in Skill(h) /\ d \in Dst
  BY <1>1, <1>2, <1>3, PlanShape DEF Op
<1>5. s \in Seq(Line) /\ r \in FileReceipt /\ ListedAs(h, r)
  BY <1>0, <1>1, <1>4, WrittenType, RecordIs
<1>6. /\ files' = [files EXCEPT ![d] = s]
      /\ damaged' = IF op.merge = "replace" THEN damaged \ {d} ELSE damaged
      /\ UNCHANGED <<receipt, loose>>
  BY DEF Apply, Mend
<1>7. cmd' = [cmd EXCEPT !.todo = Tail(@), !.done = Append(cmd.done, r)]
  BY DEF Apply, Record
<1>8. d \notin damaged' => Mixes(Lines(s), Lines(files[d]), h, d)
  <2>1. Lines(s) = s
    BY <1>5, LinesOf
  <2>2. d \notin damaged' => op.merge = "replace" \/ d \notin damaged
    BY <1>6
  <2> QED BY <1>0, <1>1, <1>4, <2>1, <2>2, WrittenIs
<1>9. /\ Append(cmd.done, r) \in Seq(FileReceipt)
      /\ ToSet(Append(cmd.done, r)) = ToSet(cmd.done) \cup {r}
      /\ Dsts(Append(cmd.done, r)) = Dsts(cmd.done) \cup {r.dst} /\ r.dst = d
  BY <1>1, <1>5, DoneIs
<1> HIDE DEF h, v, op, d, s, r, p
<1>10. /\ cmd' \in InstallCmd /\ cmd'.op = "install" /\ cmd'.h = h /\ cmd'.v = v
       /\ cmd'.todo = Tail(cmd.todo) /\ cmd'.done = Append(cmd.done, r)
  BY <1>1, <1>2, <1>7, <1>9 DEF InstallCmd, h, v
<1>11. files' \in [Dst -> Seq(Line) \cup {NoFile}] /\ FilesInv' /\ Fewer(h, d)
  <2>1. damaged \ {d} \subseteq damaged'
    BY <1>6
  <2>2. s \in Seq(Line) \cup {NoFile}
    BY <1>5
  <2> QED BY <1>0, <1>1, <1>4, <1>6, <1>8, <2>1, <2>2, Changed
<1>12. InstallTypeOK'
  BY <1>0, <1>6, <1>10, <1>11 DEF InstallTypeOK
<1>13. ReceiptInv'
  BY <1>0, <1>6 DEF ReceiptInv, ListedAs, Appends
<1>14. PlanInv'
  <2>1. ToSet(cmd'.todo) \subseteq ToSet(p)
    BY <1>2, <1>3, <1>10
  <2>2. Dsts(p) \subseteq Dsts(cmd'.done) \cup Dsts(cmd'.todo)
    BY <1>2, <1>3, <1>9, <1>10
  <2>3. \A x \in ToSet(cmd'.done) : ListedAs(h, x)
    BY <1>3, <1>5, <1>9, <1>10
  <2> QED BY <1>10, <2>1, <2>2, <2>3 DEF PlanInv, p, ListedAs, Appends
<1>15. UninstallInv'
  BY <1>10 DEF UninstallInv
<1>16. AccountInv'
  <2> SUFFICES ASSUME NEW g \in Harness, NEW x \in Dst, x \notin damaged', Holds(files'[x], g)
               PROVE  \/ x \in Recorded(g)' \/ <<g, x>> \in loose'
                      \/ cmd'.op = "install" /\ cmd'.h = g /\ x \in Dsts(cmd'.done)
    BY DEF AccountInv
  <2>1. CASE g = h /\ x = d
    BY <1>9, <1>10, <2>1
  <2>2. CASE g # h \/ x # d
    <3>1. x \notin damaged /\ Holds(files[x], g)
      BY <1>11, <2>2 DEF Fewer
    <3>2. \/ x \in Recorded(g) \/ <<g, x>> \in loose
          \/ h = g /\ x \in Dsts(cmd.done)
      BY <1>0, <3>1 DEF AccountInv, h
    <3>3. Recorded(g)' = Recorded(g) /\ loose' = loose
      BY <1>6 DEF Recorded
    <3> QED BY <1>9, <1>10, <3>2, <3>3
  <2> QED BY <2>1, <2>2
<1> QED BY <1>11, <1>12, <1>13, <1>14, <1>15, <1>16 DEF InstallInv

LEMMA InstallFails ==
  ASSUME InstallInv, ApplyFails
  PROVE  InstallInv'
<1>0. InstallTypeOK /\ FilesInv /\ ReceiptInv /\ PlanInv /\ AccountInv
      /\ cmd.op = "install" /\ cmd.todo # <<>>
  BY DEF InstallInv, ApplyFails, Busy
<1> DEFINE h == cmd.h
           op == current
           d == op.dst
           lost == Dsts(cmd.done) \cup {d}
<1>1. /\ cmd \in InstallCmd /\ h \in Harness /\ cmd.v \in Version
      /\ cmd.todo \in Seq(Op) /\ cmd.done \in Seq(FileReceipt)
  BY <1>0, CmdIs DEF InstallCmd
<1>2. op \in Op /\ op \in ToSet(cmd.todo) /\ d \in Dst
  <2>1. op \in Op /\ ToSet(cmd.todo) = {op} \cup ToSet(Tail(cmd.todo))
    BY <1>0, <1>1, TodoIs DEF current
  <2>2. op \in ToSet(cmd.todo)
    BY <2>1
  <2>3. d \in Dst
    BY <2>1 DEF Op
  <2> QED BY <2>1, <2>2, <2>3
<1>3. op \in Skill(h)
  BY <1>0, <1>1, <1>2, PlanShape DEF PlanInv
<1>4. UNCHANGED <<files, damaged>> \/ FailedWrite(d, Written(h, op))
  BY DEF ApplyFails
<1>5. /\ cmd' = Idle /\ receipt' = receipt
      /\ loose' = loose \cup {<<h, x>> : x \in lost}
  BY DEF ApplyFails
<1> HIDE DEF h, op, d
<1>6. /\ files' \in [Dst -> Seq(Line) \cup {NoFile}] /\ damaged' \subseteq Dst
      /\ FilesInv' /\ Fewer(h, d)
  BY <1>0, <1>1, <1>2, <1>3, <1>4, WrittenType, Failed, Unchanged
<1>7. cmd'.op = "idle"
  BY <1>5 DEF Idle
<1>8. InstallTypeOK'
  BY <1>0, <1>5, <1>6 DEF InstallTypeOK
<1>9. ReceiptInv'
  BY <1>0, <1>5 DEF ReceiptInv, ListedAs, Appends
<1>10. PlanInv' /\ UninstallInv'
  BY <1>7 DEF PlanInv, UninstallInv
<1>11. AccountInv'
  <2> SUFFICES ASSUME NEW g \in Harness, NEW x \in Dst, x \notin damaged', Holds(files'[x], g)
               PROVE  x \in Recorded(g)' \/ <<g, x>> \in loose'
    BY DEF AccountInv
  <2>1. CASE g = h /\ x = d
    BY <1>5, <2>1
  <2>2. CASE g # h \/ x # d
    <3>1. x \notin damaged /\ Holds(files[x], g)
      BY <1>6, <2>2 DEF Fewer
    <3>2. \/ x \in Recorded(g) \/ <<g, x>> \in loose
          \/ h = g /\ x \in Dsts(cmd.done)
      BY <1>0, <3>1 DEF AccountInv, h
    <3>3. Recorded(g)' = Recorded(g)
      BY <1>5 DEF Recorded
    <3> QED BY <1>5, <3>2, <3>3
  <2> QED BY <2>1, <2>2
<1> QED BY <1>6, <1>8, <1>9, <1>10, <1>11 DEF InstallInv

LEMMA InstallEnds ==
  ASSUME InstallInv, WriteState
  PROVE  InstallInv'
<1>0. InstallTypeOK /\ FilesInv /\ ReceiptInv /\ PlanInv /\ AccountInv
      /\ cmd.op = "install" /\ cmd.todo = <<>>
  BY DEF InstallInv, WriteState
<1> DEFINE h == cmd.h
           p == Dsts(BuildPlan(cmd.h, cmd.v))
           done == cmd.done
<1>1. h \in Harness /\ done \in Seq(FileReceipt)
  BY <1>0, CmdIs DEF InstallCmd
<1>2. p \subseteq Dsts(done) /\ \A r \in ToSet(done) : ListedAs(h, r)
  <2>1. Dsts(<<>>) = {}
    BY DEF Dsts
  <2> QED BY <1>0, <2>1 DEF PlanInv
<1>3. /\ receipt' = [receipt EXCEPT ![h] = done] /\ cmd' = Idle
      /\ loose' = (loose \ {<<h, d>> : d \in p}) \cup {<<h, d>> : d \in Recorded(h) \ p}
      /\ UNCHANGED <<files, damaged>>
  BY DEF WriteState
<1> HIDE DEF h, p, done
<1>4. /\ receipt'[h] = done /\ \A g \in Harness : g # h => receipt'[g] = receipt[g]
      /\ receipt' \in [Harness -> Seq(FileReceipt) \cup {NoReceipt, Torn}]
  BY <1>0, <1>1, <1>3 DEF InstallTypeOK
<1>5. cmd'.op = "idle"
  BY <1>3 DEF Idle
<1>6. InstallTypeOK'
  BY <1>0, <1>3, <1>4 DEF InstallTypeOK
<1>7. FilesInv'
  BY <1>0, <1>3 DEF FilesInv, Appends
<1>8. ReceiptInv'
  <2> SUFFICES ASSUME NEW g \in Harness, receipt'[g] \notin {NoReceipt, Torn},
                      NEW r \in ToSet(receipt'[g])
               PROVE  ListedAs(g, r)
    BY DEF ReceiptInv, ListedAs, Appends
  <2>1. CASE g = h
    BY <1>2, <1>4, <2>1
  <2>2. CASE g # h
    BY <1>0, <1>4, <2>2 DEF ReceiptInv
  <2> QED BY <2>1, <2>2
<1>9. PlanInv' /\ UninstallInv'
  BY <1>5 DEF PlanInv, UninstallInv
<1>10. AccountInv'
  <2> SUFFICES ASSUME NEW g \in Harness, NEW x \in Dst, x \notin damaged', Holds(files'[x], g)
               PROVE  x \in Recorded(g)' \/ <<g, x>> \in loose'
    BY DEF AccountInv
  <2>1. \/ x \in Recorded(g) \/ <<g, x>> \in loose
        \/ h = g /\ x \in Dsts(done)
    BY <1>0, <1>3 DEF AccountInv, h, done
  <2>2. CASE g = h
    <3>1. Recorded(g)' = Dsts(done)
      BY <1>1, <1>4, <2>2, NothingAssumption DEF Recorded
    <3> QED BY <1>2, <1>3, <2>1, <2>2, <3>1
  <2>3. CASE g # h
    <3>1. Recorded(g)' = Recorded(g)
      BY <1>4, <2>3 DEF Recorded
    <3> QED BY <1>3, <2>1, <2>3, <3>1
  <2> QED BY <2>2, <2>3
<1> QED BY <1>6, <1>7, <1>8, <1>9, <1>10 DEF InstallInv

LEMMA InstallEndsBadly ==
  ASSUME InstallInv, WriteStateFails
  PROVE  InstallInv'
<1>0. InstallTypeOK /\ FilesInv /\ ReceiptInv /\ AccountInv /\ cmd.op = "install"
  BY DEF InstallInv, WriteStateFails
<1> DEFINE h == cmd.h
           lost == Dsts(cmd.done) \cup Recorded(cmd.h)
<1>1. h \in Harness
  BY <1>0, CmdIs DEF InstallCmd
<1>2. /\ receipt' = receipt \/ receipt' = [receipt EXCEPT ![h] = Torn]
      /\ loose' = loose \cup {<<h, d>> : d \in lost}
      /\ cmd' = Idle /\ UNCHANGED <<files, damaged>>
  BY DEF WriteStateFails
<1>3. AccountInv'
  <2> SUFFICES ASSUME NEW g \in Harness, NEW x \in Dst, x \notin damaged', Holds(files'[x], g)
               PROVE  x \in Recorded(g)' \/ <<g, x>> \in loose'
    BY DEF AccountInv
  <2>1. \/ x \in Recorded(g) \/ <<g, x>> \in loose
        \/ h = g /\ x \in Dsts(cmd.done)
    BY <1>0, <1>2 DEF AccountInv
  <2>2. CASE g = h
    BY <1>2, <2>1, <2>2
  <2>3. CASE g # h
    <3>1. receipt'[g] = receipt[g]
      BY <1>0, <1>2, <2>3 DEF InstallTypeOK
    <3>2. Recorded(g)' = Recorded(g)
      BY <3>1 DEF Recorded
    <3> QED BY <1>2, <2>1, <2>3, <3>2
  <2> QED BY <2>2, <2>3
<1> HIDE DEF h, lost
<1>4. /\ receipt' \in [Harness -> Seq(FileReceipt) \cup {NoReceipt, Torn}]
      /\ \A g \in Harness : receipt'[g] = receipt[g] \/ receipt'[g] = Torn
  BY <1>0, <1>1, <1>2 DEF InstallTypeOK
<1>5. cmd'.op = "idle"
  BY <1>2 DEF Idle
<1>6. InstallTypeOK'
  BY <1>0, <1>2, <1>4 DEF InstallTypeOK
<1>7. FilesInv'
  BY <1>0, <1>2 DEF FilesInv, Appends
<1>8. ReceiptInv'
  BY <1>0, <1>4 DEF ReceiptInv, ListedAs, Appends
<1>9. PlanInv' /\ UninstallInv'
  BY <1>5 DEF PlanInv, UninstallInv
<1> QED BY <1>3, <1>6, <1>7, <1>8, <1>9 DEF InstallInv

LEMMA StartsUninstall ==
  ASSUME InstallInv, NEW h \in Harness, integrationUninstall(h)
  PROVE  InstallInv'
<1>0. InstallTypeOK /\ FilesInv /\ ReceiptInv /\ AccountInv /\ cmd = Idle /\ cmd.op = "idle"
  BY CmdIs DEF InstallInv, integrationUninstall, StartCommand
<1> DEFINE todo == receipt[h]
<1>1. todo \in Seq(FileReceipt) /\ receipt[h] \notin {NoReceipt, Torn}
  BY <1>0 DEF InstallTypeOK, integrationUninstall
<1>2. /\ cmd' = [op |-> "uninstall", h |-> h, todo |-> todo]
      /\ UNCHANGED <<files, receipt, damaged, loose>>
  BY DEF integrationUninstall, StartCommand
<1>3. Recorded(h) = Dsts(todo) /\ \A r \in ToSet(todo) : ListedAs(h, r)
  BY <1>0, <1>1 DEF Recorded, ReceiptInv
<1> HIDE DEF todo
<1>4. cmd' \in UninstallCmd /\ cmd'.op = "uninstall" /\ cmd'.h = h /\ cmd'.todo = todo
  BY <1>1, <1>2 DEF UninstallCmd
<1>5. InstallTypeOK'
  BY <1>0, <1>2, <1>4 DEF InstallTypeOK
<1>6. FilesInv'
  BY <1>0, <1>2 DEF FilesInv, Appends
<1>7. ReceiptInv'
  BY <1>0, <1>2 DEF ReceiptInv, ListedAs, Appends
<1>8. PlanInv'
  BY <1>4 DEF PlanInv
<1>9. UninstallInv'
  <2>1. \A d \in Dst \ damaged' :
          Holds(files'[d], h) => <<h, d>> \in loose' \/ d \in Dsts(todo)
    BY <1>0, <1>2, <1>3 DEF AccountInv
  <2> QED BY <1>3, <1>4, <2>1 DEF UninstallInv, ListedAs, Appends
<1>10. AccountInv'
  BY <1>0, <1>2 DEF AccountInv, Recorded
<1> QED BY <1>5, <1>6, <1>7, <1>8, <1>9, <1>10 DEF InstallInv

\* What a round of uninstall is about.
LEMMA UninstallRound ==
  ASSUME InstallInv, Busy("uninstall")
  PROVE  /\ InstallTypeOK /\ FilesInv /\ ReceiptInv /\ AccountInv /\ UninstallInv
         /\ cmd \in UninstallCmd /\ cmd.op = "uninstall" /\ cmd.h \in Harness
         /\ current \in FileReceipt /\ current.dst \in Dst /\ ListedAs(cmd.h, current)
         /\ Tail(cmd.todo) \in Seq(FileReceipt)
         /\ \A r \in ToSet(Tail(cmd.todo)) : ListedAs(cmd.h, r)
         /\ Dsts(cmd.todo) = {current.dst} \cup Dsts(Tail(cmd.todo))
<1>0. /\ InstallTypeOK /\ FilesInv /\ ReceiptInv /\ AccountInv /\ UninstallInv
      /\ cmd.op = "uninstall" /\ cmd.todo # <<>>
  BY DEF InstallInv, Busy
<1>1. cmd \in UninstallCmd /\ cmd.h \in Harness /\ cmd.todo \in Seq(FileReceipt)
  BY <1>0, CmdIs DEF UninstallCmd
<1>2. /\ current \in FileReceipt /\ Tail(cmd.todo) \in Seq(FileReceipt)
      /\ ToSet(cmd.todo) = {current} \cup ToSet(Tail(cmd.todo))
      /\ Dsts(cmd.todo) = {current.dst} \cup Dsts(Tail(cmd.todo))
  BY <1>0, <1>1, TodoIs DEF current
<1>3. current.dst \in Dst
  BY <1>2 DEF FileReceipt
<1>4. \A r \in ToSet(cmd.todo) : ListedAs(cmd.h, r)
  BY <1>0 DEF UninstallInv
<1>5. ListedAs(cmd.h, current) /\ \A r \in ToSet(Tail(cmd.todo)) : ListedAs(cmd.h, r)
  BY <1>2, <1>4
<1> QED BY <1>0, <1>1, <1>2, <1>3, <1>5

\* The rest of it, once the file of the round holds nothing or is reported.
LEMMA UninstallGoesOn ==
  ASSUME InstallInv, Busy("uninstall"), receipt' = receipt,
         cmd' = [cmd EXCEPT !.todo = Tail(@)],
         files' \in [Dst -> Seq(Line) \cup {NoFile}], damaged' \subseteq Dst, FilesInv',
         Fewer(cmd.h, current.dst), loose \subseteq loose',
         \/ <<cmd.h, current.dst>> \in loose'
         \/ current.dst \notin damaged' => ~Holds(files'[current.dst], cmd.h)
  PROVE  InstallInv'
<1> DEFINE h == cmd.h
           d == current.dst
<1>0. /\ InstallTypeOK /\ ReceiptInv /\ AccountInv /\ UninstallInv
      /\ cmd \in UninstallCmd /\ cmd.op = "uninstall" /\ h \in Harness
      /\ Tail(cmd.todo) \in Seq(FileReceipt)
      /\ \A r \in ToSet(Tail(cmd.todo)) : ListedAs(h, r)
      /\ Dsts(cmd.todo) = {d} \cup Dsts(Tail(cmd.todo))
  BY UninstallRound
<1>1. /\ cmd' \in UninstallCmd /\ cmd'.op = "uninstall" /\ cmd'.h = h
      /\ cmd'.todo = Tail(cmd.todo)
  BY <1>0 DEF UninstallCmd
<1>2. <<h, d>> \in loose' \/ (d \notin damaged' => ~Holds(files'[d], h))
  OBVIOUS
<1>3. Fewer(h, d)
  OBVIOUS
<1>4. cmd.op = "uninstall" => h = cmd.h
  OBVIOUS
<1>5. \A x \in Dst \ damaged : Holds(files[x], h) => <<h, x>> \in loose \/ x \in Dsts(cmd.todo)
  BY <1>0 DEF UninstallInv
<1>6. \A g \in Harness, x \in Dst \ damaged :
        Holds(files[x], g) => x \in Recorded(g) \/ <<g, x>> \in loose
  BY <1>0 DEF AccountInv
<1> HIDE DEF h, d
<1>7. InstallTypeOK'
  BY <1>0, <1>1 DEF InstallTypeOK
<1>8. ReceiptInv'
  BY <1>0 DEF ReceiptInv, ListedAs, Appends
<1>9. PlanInv'
  BY <1>1 DEF PlanInv
<1>10. UninstallInv'
  <2>1. ASSUME NEW x \in Dst, x \notin damaged', Holds(files'[x], h)
        PROVE  <<h, x>> \in loose' \/ x \in Dsts(cmd'.todo)
    <3>1. CASE x = d
      BY <1>2, <2>1, <3>1
    <3>2. CASE x # d
      <4>1. x \notin damaged /\ Holds(files[x], h)
        BY <1>0, <1>3, <2>1, <3>2 DEF Fewer
      <4> QED BY <1>0, <1>1, <1>5, <3>2, <4>1
    <3> QED BY <3>1, <3>2
  <2>2. \A r \in ToSet(cmd'.todo) : ListedAs(h, r)
    BY <1>0, <1>1
  <2> QED BY <1>1, <2>1, <2>2 DEF UninstallInv, ListedAs, Appends
<1>11. AccountInv'
  <2> SUFFICES ASSUME NEW g \in Harness, NEW x \in Dst, x \notin damaged', Holds(files'[x], g)
               PROVE  x \in Recorded(g)' \/ <<g, x>> \in loose'
    BY DEF AccountInv
  <2>1. CASE g = h /\ x = d
    BY <1>2, <2>1
  <2>2. CASE g # h \/ x # d
    <3>1. x \notin damaged /\ Holds(files[x], g)
      BY <1>3, <2>2 DEF Fewer
    <3>2. Recorded(g)' = Recorded(g)
      BY DEF Recorded
    <3> QED BY <1>6, <3>1, <3>2
  <2> QED BY <2>1, <2>2
<1> QED BY <1>7, <1>8, <1>9, <1>10, <1>11 DEF InstallInv

LEMMA Uninstalls ==
  ASSUME InstallInv, Uninstall
  PROVE  InstallInv'
<1> DEFINE h == cmd.h
           r == current
           d == r.dst
           s == Reverted(h, r)
<1>0. /\ Busy("uninstall") /\ InstallTypeOK /\ FilesInv /\ h \in Harness
      /\ r \in FileReceipt /\ d \in Dst /\ ListedAs(h, r)
  BY UninstallRound DEF Uninstall
<1>1. /\ files' = [files EXCEPT ![d] = s]
      /\ loose' = IF Modified(r) THEN loose \cup {<<h, d>>} ELSE loose
      /\ damaged' = IF s = NoFile THEN damaged \ {d} ELSE damaged
      /\ cmd' = [cmd EXCEPT !.todo = Tail(@)] /\ receipt' = receipt
  BY DEF Uninstall, Mend
<1>2. s \in Seq(Line) \cup {NoFile}
  BY <1>0, RevertedType
<1>3. d \notin damaged' => s = NoFile \/ d \notin damaged
  BY <1>1
<1>4. d \notin damaged' => /\ Mixes(Lines(s), Lines(files[d]), h, d)
                           /\ ~Modified(r) => None(Lines(s), h)
  BY <1>0, <1>3, RevertedIs
<1>5. damaged \ {d} \subseteq damaged' /\ damaged' \subseteq Dst
  BY <1>0, <1>1 DEF InstallTypeOK
<1>6. files'[d] = s
  BY <1>0, <1>1 DEF InstallTypeOK
<1> HIDE DEF s
<1>7. files' \in [Dst -> Seq(Line) \cup {NoFile}] /\ FilesInv' /\ Fewer(h, d)
  BY <1>0, <1>1, <1>2, <1>4, <1>5, Changed
<1>8. loose \subseteq loose'
  BY <1>1
<1>9. <<h, d>> \in loose' \/ (d \notin damaged' => ~Holds(files'[d], h))
  BY <1>1, <1>4, <1>6, HoldsIs
<1> QED BY <1>0, <1>1, <1>5, <1>7, <1>8, <1>9, UninstallGoesOn

LEMMA UninstallGivesUp ==
  ASSUME InstallInv, UninstallWarns
  PROVE  InstallInv'
<1> DEFINE h == cmd.h
           r == current
           d == r.dst
           s == Reverted(h, r)
<1>0. /\ Busy("uninstall") /\ InstallTypeOK /\ FilesInv /\ h \in Harness
      /\ r \in FileReceipt /\ d \in Dst
  BY UninstallRound DEF UninstallWarns
<1>1. /\ UNCHANGED <<files, damaged>> \/ (s # NoFile /\ FailedWrite(d, s))
      /\ loose' = loose \cup {<<h, d>>}
      /\ cmd' = [cmd EXCEPT !.todo = Tail(@)] /\ receipt' = receipt
  BY DEF UninstallWarns
<1>2. s # NoFile => s \in Seq(Line)
  BY <1>0, RevertedType
<1> HIDE DEF s
<1>3. /\ files' \in [Dst -> Seq(Line) \cup {NoFile}] /\ damaged' \subseteq Dst
      /\ FilesInv' /\ Fewer(h, d)
  BY <1>0, <1>1, <1>2, Unchanged, Failed
<1>4. loose \subseteq loose' /\ <<h, d>> \in loose'
  BY <1>1
<1> QED BY <1>0, <1>1, <1>3, <1>4, UninstallGoesOn

LEMMA UninstallEnds ==
  ASSUME InstallInv, ClearState
  PROVE  InstallInv'
<1>0. /\ InstallTypeOK /\ FilesInv /\ ReceiptInv /\ AccountInv /\ UninstallInv
      /\ cmd.op = "uninstall" /\ cmd.todo = <<>>
  BY DEF InstallInv, ClearState
<1> DEFINE h == cmd.h
<1>1. h \in Harness
  BY <1>0, CmdIs DEF UninstallCmd
<1>2. /\ receipt' = [receipt EXCEPT ![h] = NoReceipt] /\ cmd' = Idle
      /\ UNCHANGED <<files, damaged, loose>>
  BY DEF ClearState
<1>3. \A d \in Dst \ damaged : Holds(files[d], h) => <<h, d>> \in loose
  <2>1. Dsts(<<>>) = {}
    BY DEF Dsts
  <2> QED BY <1>0, <2>1 DEF UninstallInv
<1>4. \A g \in Harness, x \in Dst \ damaged :
        Holds(files[x], g) => x \in Recorded(g) \/ <<g, x>> \in loose
  BY <1>0 DEF AccountInv
<1> HIDE DEF h
<1>5. /\ receipt' \in [Harness -> Seq(FileReceipt) \cup {NoReceipt, Torn}]
      /\ receipt'[h] = NoReceipt
      /\ \A g \in Harness : g # h => receipt'[g] = receipt[g]
  BY <1>0, <1>1, <1>2 DEF InstallTypeOK
<1>6. cmd'.op = "idle"
  BY <1>2 DEF Idle
<1>7. InstallTypeOK'
  BY <1>0, <1>2, <1>5 DEF InstallTypeOK
<1>8. FilesInv'
  BY <1>0, <1>2 DEF FilesInv, Appends
<1>9. ReceiptInv'
  BY <1>0, <1>5 DEF ReceiptInv, ListedAs, Appends
<1>10. PlanInv' /\ UninstallInv'
  BY <1>6 DEF PlanInv, UninstallInv
<1>11. AccountInv'
  <2> SUFFICES ASSUME NEW g \in Harness, NEW x \in Dst, x \notin damaged', Holds(files'[x], g)
               PROVE  x \in Recorded(g)' \/ <<g, x>> \in loose'
    BY DEF AccountInv
  <2>1. CASE g = h
    BY <1>2, <1>3, <2>1
  <2>2. CASE g # h
    <3>1. Recorded(g)' = Recorded(g)
      BY <1>5, <2>2 DEF Recorded
    <3> QED BY <1>2, <1>4, <3>1
  <2> QED BY <2>1, <2>2
<1> QED BY <1>7, <1>8, <1>9, <1>10, <1>11 DEF InstallInv

LEMMA UninstallBreaksOff ==
  ASSUME InstallInv, UninstallStops
  PROVE  InstallInv'
<1>0. InstallTypeOK /\ FilesInv /\ ReceiptInv /\ AccountInv /\ cmd.op = "uninstall"
  BY DEF InstallInv, UninstallStops
<1>1. cmd' = Idle /\ UNCHANGED <<files, receipt, damaged, loose>>
  BY DEF UninstallStops
<1>2. cmd'.op = "idle"
  BY <1>1 DEF Idle
<1>3. InstallTypeOK' /\ FilesInv' /\ ReceiptInv'
  BY <1>0, <1>1 DEF InstallTypeOK, FilesInv, ReceiptInv, ListedAs, Appends
<1>4. PlanInv' /\ UninstallInv'
  BY <1>2 DEF PlanInv, UninstallInv
<1>5. AccountInv'
  BY <1>0, <1>1 DEF AccountInv, Recorded
<1> QED BY <1>3, <1>4, <1>5 DEF InstallInv

\* A line of the user more changes nothing for the harnesses.
LEMMA UserAdds ==
  ASSUME NEW f \in Seq(Line), NEW g \in Harness, NEW s, s = Append(f, userLine)
  PROVE  s \in Seq(Line) /\ (None(f, g) => None(s, g)) /\ (Neat(f, g) => Neat(s, g))
<1> DEFINE b == <<userLine>>
           i == Len(f) + 1
           j == Len(f)
<1>1. b \in Seq(Line) /\ \A k \in DOMAIN b : ~Of(b[k], g)
  BY MarkerShape
<1>2. s = f \o b /\ s \in Seq(Line)
  BY MarkerShape
<1> HIDE DEF b
<1>3. Splice(s, f, i, j, b)
  BY <1>1, <1>2, AppendSplice
<1>4. (i <= Len(f) => i <= j) /\ \A k \in DOMAIN f : Of(f[k], g) => k < i \/ j < k
  OBVIOUS
<1>5. Neat(f, g) => Neat(s, g)
  BY <1>1, <1>3, <1>4, SpliceBeside
<1>6. ASSUME None(f, g) PROVE None(s, g)
  <2>1. \A k \in DOMAIN f : Of(f[k], g) => i <= k /\ k <= j
    BY <1>6 DEF None
  <2> QED BY <1>1, <1>3, <2>1, SpliceOut
<1> QED BY <1>2, <1>5, <1>6

LEMMA Edits ==
  ASSUME InstallInv, NEW d \in Dst, Edit(d)
  PROVE  InstallInv'
<1>0. InstallTypeOK /\ FilesInv /\ ReceiptInv /\ PlanInv /\ AccountInv /\ UninstallInv
  BY DEF InstallInv
<1>1. UNCHANGED <<receipt, cmd, loose>>
  BY DEF Edit
<1> DEFINE f == Lines(files[d])
<1>2. PICK s \in Seq(Line) \cup {NoFile} :
        /\ files' = [files EXCEPT ![d] = s]
        /\ \/ s = Append(f, userLine) /\ damaged' = damaged
           \/ s = NoFile /\ damaged' = damaged \ {d}
           \/ damaged' = damaged \cup {d}
  <2>1. f \in Seq(Line) /\ Content(d) = f /\ (files[d] # NoFile => files[d] \in Seq(Line))
    BY <1>0, FileOf
  <2>2. userLine \in Line
    BY DEF Line
  <2>3. CASE files' = [files EXCEPT ![d] = Append(Content(d), userLine)] /\ UNCHANGED damaged
    <3>1. Append(f, userLine) \in Seq(Line)
      BY <2>1, <2>2
    <3>2. files' = [files EXCEPT ![d] = Append(f, userLine)] /\ damaged' = damaged
      BY <2>1, <2>3
    <3> QED BY <3>1, <3>2
  <2>4. CASE files' = [files EXCEPT ![d] = NoFile] /\ damaged' = damaged \ {d}
    BY <2>4
  <2>5. CASE /\ files[d] # NoFile
             /\ \E i \in DOMAIN files[d] : files' = [files EXCEPT ![d] = RemoveAt(@, i)]
             /\ damaged' = damaged \cup {d}
    <3>1. PICK i \in DOMAIN files[d] : files' = [files EXCEPT ![d] = RemoveAt(@, i)]
      BY <2>5
    <3>2. RemoveAt(files[d], i) \in Seq(Line)
      <4>1. files[d] \in Seq(Line) /\ i \in 1 .. Len(files[d])
        BY <2>1, <2>5
      <4> QED BY <4>1 DEF RemoveAt
    <3> QED BY <2>5, <3>1, <3>2
  <2> QED BY <2>3, <2>4, <2>5 DEF Edit
<1>3. /\ files' \in [Dst -> Seq(Line) \cup {NoFile}] /\ damaged' \subseteq Dst /\ files'[d] = s
      /\ \A x \in Dst : x # d => files'[x] = files[x] /\ (x \notin damaged' => x \notin damaged)
  BY <1>0, <1>2 DEF InstallTypeOK
<1>4. f \in Seq(Line)
  BY <1>0, FileOf
<1>5. CASE d \in damaged' \/ (s = Append(f, userLine) /\ damaged' = damaged) \/ s = NoFile
  <2>1. ASSUME NEW g \in Harness, d \notin damaged'
        PROVE  /\ Appends(g, d) => Neat(Lines(s), g)
               /\ None(Lines(s), g) \/ (d \notin damaged /\ (None(f, g) => None(Lines(s), g)))
    <3>1. CASE s = Append(f, userLine) /\ damaged' = damaged
      <4>1. s \in Seq(Line) /\ (None(f, g) => None(s, g)) /\ (Neat(f, g) => Neat(s, g))
        BY <1>4, <3>1, UserAdds
      <4>2. Lines(s) = s
        BY <4>1, LinesOf
      <4>3. Appends(g, d) => Neat(f, g)
        BY <1>0, <2>1, <3>1 DEF FilesInv
      <4> QED BY <2>1, <3>1, <4>1, <4>2, <4>3
    <3>2. CASE s = NoFile
      <4>1. Lines(s) = <<>>
        BY <3>2, LinesOf
      <4> QED BY <4>1, Nothing
    <3> QED BY <1>5, <2>1, <3>1, <3>2
  <2>2. FilesInv'
    <3> SUFFICES ASSUME NEW g \in Harness, NEW x \in Dst, x \notin damaged', Appends(g, x)
                 PROVE  Neat(Lines(files'[x]), g)
      BY DEF FilesInv, Appends
    <3> QED BY <1>0, <1>3, <2>1 DEF FilesInv
  <2>3. \A g \in Harness, x \in Dst \ damaged' :
          Holds(files'[x], g) => x \notin damaged /\ Holds(files[x], g)
    <3> SUFFICES ASSUME NEW g \in Harness, NEW x \in Dst, x \notin damaged', Holds(files'[x], g)
                 PROVE  x \notin damaged /\ Holds(files[x], g)
      OBVIOUS
    <3>1. CASE x = d
      BY <1>3, <2>1, <3>1, HoldsIs
    <3>2. CASE x # d
      BY <1>3, <3>2
    <3> QED BY <3>1, <3>2
  <2> HIDE DEF f
  <2>4. InstallTypeOK'
    BY <1>0, <1>1, <1>3 DEF InstallTypeOK
  <2>5. ReceiptInv' /\ PlanInv'
    BY <1>0, <1>1 DEF ReceiptInv, PlanInv, ListedAs, Appends
  <2>6. UninstallInv'
    <3>1. ASSUME cmd.op = "uninstall"
          PROVE  /\ cmd.h \in Harness
                 /\ \A r \in ToSet(cmd.todo) : ListedAs(cmd.h, r)
                 /\ \A x \in Dst \ damaged :
                      Holds(files[x], cmd.h) => <<cmd.h, x>> \in loose \/ x \in Dsts(cmd.todo)
      BY <1>0, <3>1, CmdIs DEF UninstallInv, UninstallCmd
    <3> QED BY <1>1, <2>3, <3>1 DEF UninstallInv, ListedAs, Appends
  <2>7. AccountInv'
    BY <1>0, <1>1, <2>3 DEF AccountInv, Recorded
  <2> QED BY <2>2, <2>4, <2>5, <2>6, <2>7 DEF InstallInv
<1> QED BY <1>2, <1>5

LEMMA InstallBegins == InstallInit => InstallInv
<1> SUFFICES ASSUME InstallInit PROVE InstallInv
  OBVIOUS
<1>1. userLine \in Line
  BY DEF Line
<1>2. <<userLine>> \in Seq(Line)
  BY <1>1
<1>3. /\ files \in [Dst -> {NoFile, <<userLine>>}] /\ receipt = [h \in Harness |-> NoReceipt]
      /\ cmd = Idle /\ damaged = {} /\ cmd.op = "idle"
  BY DEF InstallInit, Idle
<1>4. InstallTypeOK
  BY <1>2, <1>3 DEF InstallTypeOK
<1>5. \A g \in Harness, d \in Dst : None(Lines(files[d]), g)
  <2> SUFFICES ASSUME NEW g \in Harness, NEW d \in Dst PROVE None(Lines(files[d]), g)
    OBVIOUS
  <2>1. CASE files[d] = NoFile
    BY <2>1, Nothing, LinesOf
  <2>2. CASE files[d] = <<userLine>>
    <3>1. Lines(files[d]) = <<userLine>>
      BY <1>2, <2>2, LinesOf
    <3>2. \A k \in DOMAIN <<userLine>> : <<userLine>>[k] = userLine
      OBVIOUS
    <3> QED BY <3>1, <3>2, MarkerShape DEF None
  <2> QED BY <1>3, <2>1, <2>2
<1>6. FilesInv
  BY <1>5 DEF FilesInv, Neat
<1>7. AccountInv
  BY <1>5, HoldsIs DEF AccountInv
<1>8. ReceiptInv /\ PlanInv /\ UninstallInv
  BY <1>3 DEF ReceiptInv, PlanInv, UninstallInv
<1> QED BY <1>4, <1>6, <1>7, <1>8 DEF InstallInv

LEMMA InstallSteps ==
  ASSUME SteadyMerges, InstallInv, [InstallNext]_installVars
  PROVE  InstallInv'
<1>1. CASE UNCHANGED installVars
  BY <1>1 DEF installVars, InstallInv, InstallTypeOK, FilesInv, ReceiptInv, PlanInv,
              UninstallInv, AccountInv, ListedAs, Appends, Recorded
<1>2. CASE \E h \in Harness, v \in Version : integrationInstall(h, v)
  BY <1>2, StartsInstall
<1>3. CASE Apply
  BY <1>3, InstallApplies
<1>4. CASE ApplyFails
  BY <1>4, InstallFails
<1>5. CASE WriteState
  BY <1>5, InstallEnds
<1>6. CASE WriteStateFails
  BY <1>6, InstallEndsBadly
<1>7. CASE \E h \in Harness : integrationUninstall(h)
  BY <1>7, StartsUninstall
<1>8. CASE Uninstall
  BY <1>8, Uninstalls
<1>9. CASE UninstallWarns
  BY <1>9, UninstallGivesUp
<1>10. CASE ClearState
  BY <1>10, UninstallEnds
<1>11. CASE UninstallStops
  BY <1>11, UninstallBreaksOff
<1>12. CASE \E d \in Dst : Edit(d)
  BY <1>12, Edits
<1> QED BY <1>1, <1>2, <1>3, <1>4, <1>5, <1>6, <1>7, <1>8, <1>9, <1>10, <1>11, <1>12
        DEF InstallNext

\* A round leaves the lines of the user alone, where UserLinesStay says so.
LEMMA RoundKeeps ==
  ASSUME SteadyMerges, InstallInv, [InstallNext]_installVars, NEW d \in Dst, d \notin damaged,
         cmd.op \in {"install", "uninstall"}, cmd'.op = cmd.op, cmd'.todo # cmd.todo,
         d \notin damaged',
         cmd.op = "install" => current.merge # "replace",
         cmd.op = "uninstall" => ~TakesOver(current)
  PROVE  UserLines(files'[d]) = UserLines(files[d])
<1>0. /\ InstallTypeOK /\ FilesInv /\ PlanInv
      /\ \A x \in Dst : files[x] \in Seq(Line) \cup {NoFile}
  BY DEF InstallInv, InstallTypeOK
<1>1. cmd # Idle /\ cmd' # Idle
  BY DEF Idle
<1>2. Apply \/ Uninstall \/ UninstallWarns
  <2>1. cmd' # cmd
    OBVIOUS
  <2> QED BY <1>1, <2>1 DEF InstallNext, installVars, integrationInstall, integrationUninstall,
            StartCommand, ApplyFails, WriteState, WriteStateFails, ClearState, UninstallStops, Edit
<1>3. CASE Apply
  <2> DEFINE h == cmd.h
             op == current
             s == Written(h, op)
  <2>1. cmd.op = "install" /\ cmd.todo # <<>>
    BY <1>3 DEF Apply, Busy
  <2>2. cmd \in InstallCmd /\ h \in Harness /\ cmd.v \in Version /\ cmd.todo \in Seq(Op)
    BY <1>0, <2>1, CmdIs DEF InstallCmd
  <2>3. ToSet(cmd.todo) = {op} \cup ToSet(Tail(cmd.todo))
    BY <2>1, <2>2, TodoIs DEF current
  <2>4. op \in ToSet(BuildPlan(h, cmd.v)) /\ op.merge # "replace"
    BY <1>0, <2>1, <2>3 DEF PlanInv
  <2>5. op \in Skill(h) /\ op.dst \in Dst
    BY <2>2, <2>4, PlanShape DEF Skill
  <2>6. files' = [files EXCEPT ![op.dst] = s]
    BY <1>3 DEF Apply
  <2>7. CASE op.dst = d
    <3>1. UserLines(s) = UserLines(files[op.dst])
      BY <1>0, <2>2, <2>4, <2>7, WrittenIs
    <3>2. files'[d] = s
      BY <1>0, <2>6, <2>7 DEF InstallTypeOK
    <3> QED BY <2>7, <3>1, <3>2
  <2>8. CASE op.dst # d
    BY <1>0, <2>6, <2>8 DEF InstallTypeOK
  <2> QED BY <2>7, <2>8
<1>4. CASE Uninstall
  <2> DEFINE h == cmd.h
             r == current
             s == Reverted(h, r)
  <2>1. /\ Busy("uninstall") /\ h \in Harness
        /\ r \in FileReceipt /\ r.dst \in Dst /\ ListedAs(h, r)
    BY <1>4, UninstallRound DEF Uninstall
  <2>2. ~TakesOver(r)
    BY <2>1 DEF Busy
  <2>3. files' = [files EXCEPT ![r.dst] = s]
    BY <1>4 DEF Uninstall
  <2>4. CASE r.dst = d
    <3>1. UserLines(s) = UserLines(files[r.dst])
      BY <1>0, <2>1, <2>2, <2>4, RevertedIs
    <3>2. files'[d] = s
      BY <1>0, <2>3, <2>4 DEF InstallTypeOK
    <3> QED BY <2>4, <3>1, <3>2
  <2>5. CASE r.dst # d
    BY <1>0, <2>3, <2>5 DEF InstallTypeOK
  <2> QED BY <2>4, <2>5
<1>5. CASE UninstallWarns
  <2> DEFINE s == Reverted(cmd.h, current)
  <2>1. UNCHANGED <<files, damaged>> \/ FailedWrite(current.dst, s)
    BY <1>5 DEF UninstallWarns
  <2>2. CASE UNCHANGED <<files, damaged>>
    BY <2>2
  <2>3. CASE FailedWrite(current.dst, s)
    <3> HIDE DEF s
    <3>1. CASE UNCHANGED <<files, damaged>>
      BY <3>1
    <3>2. CASE /\ \E n \in 0 .. Len(s) - 1 :
                    files' = [files EXCEPT ![current.dst] = SubSeq(s, 1, n)]
               /\ damaged' = damaged \cup {current.dst}
      <4>1. current.dst # d
        BY <3>2
      <4> QED BY <3>2, <4>1 DEF InstallTypeOK, InstallInv
    <3> QED BY <2>3, <3>1, <3>2 DEF FailedWrite
  <2> QED BY <2>1, <2>2, <2>3
<1> QED BY <1>2, <1>3, <1>4, <1>5

LEMMA DoneSteps ==
  ASSUME SteadyMerges, PathsOnce, InstallInv, DoneInv, [InstallNext]_installVars
  PROVE  DoneInv'
<1>0. InstallTypeOK /\ FilesInv /\ PlanInv
  BY DEF InstallInv
<1> SUFFICES ASSUME cmd'.op = "install", NEW op \in ToSet(BuildPlan(cmd'.h, cmd'.v)),
                    op \notin ToSet(cmd'.todo), op.dst \notin damaged' \cup touched', Plain(op)
             PROVE  AsPlanned(files'[op.dst], cmd'.h, op)
  <2>1. DoneInv' = (cmd'.op = "install" =>
                      \A x \in ToSet(BuildPlan(cmd'.h, cmd'.v)) :
                        \/ x \in ToSet(cmd'.todo)
                        \/ x.dst \notin damaged' \cup touched' /\ Plain(x) =>
                             AsPlanned(files'[x.dst], cmd'.h, x))
    BY DEF DoneInv, Plain, BuildPlan, AsPlanned, HasOnly
  <2> QED BY <2>1
<1>1. cmd' # Idle
  BY DEF Idle
<1>2. \/ UNCHANGED installVars
      \/ \E h \in Harness, v \in Version : integrationInstall(h, v)
      \/ Apply \/ \E d \in Dst : Edit(d)
  <2>1. ~(\E h \in Harness : integrationUninstall(h))
    BY DEF integrationUninstall, StartCommand
  <2>2. ~Uninstall /\ ~UninstallWarns
    <3>1. cmd.op = "uninstall" => cmd \in UninstallCmd
      BY <1>0, CmdIs
    <3>2. cmd \in UninstallCmd /\ cmd' = [cmd EXCEPT !.todo = Tail(@)] => cmd'.op = "uninstall"
      BY DEF UninstallCmd
    <3> QED BY <3>1, <3>2 DEF Uninstall, UninstallWarns, Busy
  <2>3. ~ApplyFails /\ ~WriteState /\ ~WriteStateFails /\ ~ClearState /\ ~UninstallStops
    BY <1>1 DEF ApplyFails, WriteState, WriteStateFails, ClearState, UninstallStops
  <2> QED BY <2>1, <2>2, <2>3 DEF InstallNext
<1>3. CASE \E h \in Harness, v \in Version : integrationInstall(h, v)
  BY <1>3 DEF integrationInstall, StartCommand
<1>4. ASSUME cmd.op = "install", cmd'.h = cmd.h, cmd'.v = cmd.v, op \notin ToSet(cmd.todo),
             op.dst \notin damaged \cup touched, files'[op.dst] = files[op.dst]
      PROVE  AsPlanned(files'[op.dst], cmd'.h, op)
  <2>1. AsPlanned(files[op.dst], cmd.h, op)
    BY <1>4 DEF DoneInv
  <2> QED BY <1>4, <2>1
<1>5. CASE UNCHANGED installVars
  BY <1>4, <1>5 DEF installVars
<1>6. CASE \E d \in Dst : Edit(d)
  <2>1. PICK d \in Dst : Edit(d)
    BY <1>6
  <2>2. cmd' = cmd /\ touched' = touched \cup {d}
    BY <2>1 DEF Edit
  <2>3. op.dst # d
    BY <2>2
  <2>4. \E s : files' = [files EXCEPT ![d] = s]
    BY <2>1 DEF Edit
  <2>5. damaged' = damaged \/ damaged' = damaged \ {d} \/ damaged' = damaged \cup {d}
    BY <2>1 DEF Edit
  <2>6. op.dst \notin damaged
    BY <2>3, <2>5
  <2>7. op.dst \in Dst
    <3>1. cmd'.h = cmd.h /\ cmd'.v = cmd.v /\ cmd.op = "install"
      BY <2>2
    <3>2. cmd.h \in Harness /\ cmd.v \in Version
      BY <1>0, <3>1, CmdIs DEF InstallCmd
    <3>3. op \in Skill(cmd.h)
      BY <3>1, <3>2, PlanShape
    <3> QED BY <3>3 DEF Skill
  <2>8. files'[op.dst] = files[op.dst]
    BY <1>0, <2>3, <2>4, <2>7 DEF InstallTypeOK
  <2> QED BY <1>4, <2>2, <2>6, <2>8
<1>7. CASE Apply
  <2> DEFINE h == cmd.h
             v == cmd.v
             o == current
             s == Written(h, o)
             p == BuildPlan(h, v)
  <2>1. cmd.op = "install" /\ cmd.todo # <<>>
    BY <1>7 DEF Apply, Busy
  <2>2. cmd \in InstallCmd /\ h \in Harness /\ v \in Version /\ cmd.todo \in Seq(Op)
    BY <1>0, <2>1, CmdIs DEF InstallCmd
  <2>3. ToSet(cmd.todo) = {o} \cup ToSet(Tail(cmd.todo))
    BY <2>1, <2>2, TodoIs DEF current
  <2>4. o \in ToSet(p)
    BY <1>0, <2>1, <2>3 DEF PlanInv
  <2>5. cmd'.h = h /\ cmd'.v = v /\ cmd'.todo = Tail(cmd.todo)
    BY <1>7, <2>2 DEF Apply, InstallCmd
  <2>6. /\ files' = [files EXCEPT ![o.dst] = s] /\ touched' = touched
        /\ damaged' = IF o.merge = "replace" THEN damaged \ {o.dst} ELSE damaged
    BY <1>7 DEF Apply, Mend
  <2>7. o \in Skill(h) /\ o.dst \in Dst /\ o.merge \in Merge
    BY <2>2, <2>4, PlanShape DEF Skill
  <2>8. op \in ToSet(p)
    BY <2>5
  <2>9. CASE op = o
    <3>1. o.merge = "replace" \/ o.dst \notin damaged
      BY <2>6, <2>9
    <3>2. /\ o.merge = "replace" => s = o.body
          /\ o.merge = "append" => HasOnly(s, h, WrapBlock(h, o.body))
      BY <1>0, <2>2, <2>4, <2>9, <3>1, WrittenIs
    <3>3. s \in Seq(Line) /\ s # NoFile
      BY <1>0, <2>2, <2>7, WrittenType, LinesOf
    <3> HIDE DEF h, s
    <3>4. files'[o.dst] = s
      BY <1>0, <2>6, <2>7 DEF InstallTypeOK
    <3>5. AsPlanned(s, h, o)
      BY <2>7, <3>2, <3>3 DEF AsPlanned, Merge
    <3> QED BY <2>5, <2>9, <3>4, <3>5 DEF h
  <2>10. CASE op # o
    <3>1. op.dst # o.dst
      BY <2>2, <2>4, <2>8, <2>10 DEF PathsOnce
    <3>2. op \notin ToSet(cmd.todo)
      BY <2>3, <2>5, <2>10
    <3>3. op.dst \notin damaged \cup touched
      BY <2>6, <3>1
    <3>4. files'[op.dst] = files[op.dst]
      BY <1>0, <2>6, <3>1 DEF InstallTypeOK
    <3> QED BY <1>4, <2>1, <2>5, <3>2, <3>3, <3>4
  <2> QED BY <2>9, <2>10
<1> QED BY <1>2, <1>3, <1>5, <1>6, <1>7

\* Nothing that mure wrote is forgotten: for any manifests that keep to SteadyMerges,
\* whatever fails, is killed or written in part, and whatever the user edits.
THEOREM NothingForgotten ==
  ASSUME SteadyMerges
  PROVE  InstallSpec => []Accounted
<1>1. InstallInv => Accounted
  <2> SUFFICES ASSUME InstallInv PROVE Accounted
    OBVIOUS
  <2>1. cmd = Idle => cmd.op # "install"
    BY DEF Idle
  <2> QED BY <2>1 DEF InstallInv, AccountInv, Accounted
<1>2. InstallInv /\ [InstallNext]_installVars => InstallInv'
  BY InstallSteps
<1> QED BY <1>1, <1>2, InstallBegins, PTL DEF InstallSpec

\* No round of either command takes a line of the user out of a file, or copies one.
THEOREM LinesStay ==
  ASSUME SteadyMerges
  PROVE  InstallSpec => UserLinesStay
<1>1. InstallInv /\ [InstallNext]_installVars => InstallInv'
  BY InstallSteps
<1>2. InstallInv /\ [InstallNext]_installVars =>
        [\A d \in Dst \ damaged :
           /\ cmd.op \in {"install", "uninstall"} /\ cmd.todo # <<>>
           /\ cmd'.op = cmd.op /\ cmd'.todo # cmd.todo /\ d \notin damaged'
           /\ cmd.op = "install" => current.merge # "replace"
           /\ cmd.op = "uninstall" => ~TakesOver(current)
           => UserLines(files'[d]) = UserLines(files[d])]_installVars
  BY RoundKeeps
<1> QED BY <1>1, <1>2, InstallBegins, PTL DEF InstallSpec, UserLinesStay

\* An installation that succeeds leaves what its manifest says, whatever an older
\* version or a command that failed has left behind.
THEOREM InstallReconciles ==
  ASSUME SteadyMerges, PathsOnce
  PROVE  InstallSpec => Reconciles
<1> DEFINE I == InstallInv /\ DoneInv
<1>1. InstallInit => I
  BY InstallBegins DEF InstallInit, Idle, DoneInv
<1>2. I /\ [InstallNext]_installVars => I'
  BY InstallSteps, DoneSteps
<1>3. I /\ [InstallNext]_installVars =>
        [cmd.op = "install" /\ cmd.todo = <<>> /\ cmd' = Idle /\ receipt'[cmd.h] = cmd.done =>
           \A op \in ToSet(BuildPlan(cmd.h, cmd.v)) :
             /\ op.dst \notin damaged \cup touched
             /\ \A l \in ToSet(op.body) : l.kind # "dollar"
             => AsPlanned(files[op.dst], cmd.h, op)]_installVars
  <2> SUFFICES ASSUME I, cmd.op = "install", cmd.todo = <<>>,
                      NEW op \in ToSet(BuildPlan(cmd.h, cmd.v)),
                      op.dst \notin damaged \cup touched,
                      \A l \in ToSet(op.body) : l.kind # "dollar"
               PROVE  AsPlanned(files[op.dst], cmd.h, op)
    OBVIOUS
  <2>1. ToSet(cmd.todo) = {}
    BY DEF ToSet
  <2>2. Plain(op)
    BY DEF Plain
  <2> QED BY <2>1, <2>2 DEF DoneInv
<1> HIDE DEF I
<1> QED BY <1>1, <1>2, <1>3, PTL DEF InstallSpec, Reconciles
=============================================================================
