---------------------------- MODULE SidebarLayout ----------------------------
(***************************************************************************)
(* What the sidebar draws in a terminal of a given size: View and          *)
(* layoutDrop of internal/sidebar/model.go.  A view is a sequence of       *)
(* lines, and a line is a kind and a number that tells lines of one kind   *)
(* apart; colours and the text within a line are left out, except that     *)
(* text that is cut to fewer than no runes is a panic.                     *)
(***************************************************************************)
EXTENDS Integers, FiniteSets, SequencesExt

CONSTANTS Width, Height,   \* of the terminal
          MaxAgents,       \* bound: agents in the list
          Themes           \* number of themes

ASSUME SizeAssumption == Width \subseteq Nat \ {0} /\ Height \subseteq Nat \ {0}
ASSUME CountAssumption == MaxAgents \in Nat /\ Themes \in Nat \ {0}

VARIABLE screen   \* the fields of Model that View reads

layoutVars == <<screen>>

\* NewModel, as Run calls it.  A height of 0 is one not known yet.
LayoutInit == screen = [width |-> 40, height |-> 0, agents |-> 0, selected |-> 0,
                        expanded |-> FALSE, mode |-> "list", themeIdx |-> 0,
                        connected |-> FALSE, dir |-> FALSE]

-----------------------------------------------------------------------------
(* The parts of the view.                                                  *)

lines(kind, n) == [i \in 1 .. n |-> <<kind, i>>]
when(b, s) == IF b THEN s ELSE <<>>

\* The widths of the hints; each is a key, a blank and a label.
hints == <<13, 7, 5, 6, 6, 7, 6>>

\* The width of the line with the i-th hint, up to it: a hint goes into the last line,
\* after two blanks, or begins a new one.
curW(inner) ==
  LET w[i \in 1 .. 7] ==
        IF i = 1 \/ w[i - 1] + 2 + hints[i] > inner THEN hints[i]
        ELSE w[i - 1] + 2 + hints[i]
  IN  w

buildFooter(inner) ==
  lines("foot", Cardinality({i \in 1 .. 7 : curW(inner)[i] = hints[i]}))

Chosen(s) == s.expanded /\ s.selected < s.agents

shortRows(s) == [i \in 1 .. s.agents |-> <<"agent", i - 1>>]
tallRows(s)  == [i \in 1 .. 3 * s.agents |-> <<"agent", (i - 1) \div 3>>]
detail(s)    == when(Chosen(s), lines("detail", 6))

\* The picker's title, themes and hint stand in place of the agents.
renderThemePicker(s) ==
  lines("title", 1) \o [i \in 1 .. Themes |-> <<"theme", i - 1>>] \o lines("hint", 1)

Logo == lines("logo", 3) \o lines("blank", 1)
Wordmark == lines("mark", 1)
useLogo(s) == s.width >= 27

Parts(s) ==
  [top    |-> lines("blank", 2),
   header |-> IF useLogo(s) THEN Logo ELSE Wordmark,
   dir    |-> when(s.dir, lines("dir", 1)),
   count  |-> lines("count", 1),
   disc   |-> when(~s.connected, lines("disc", 1)),
   topDiv |-> lines("div", 1),
   botDiv |-> lines("div", 1),
   foot   |-> IF s.mode = "input" THEN lines("prompt", 1) ELSE buildFooter(s.width)]

Sizes(parts, names) ==
  LET n(p) == IF p \in names THEN Len(parts[p]) ELSE 0
  IN  n("top") + n("header") + n("dir") + n("count") + n("disc") + n("topDiv")
        + n("botDiv") + n("foot")

\* Mutant: the height that the rows have to fit includes no footer.
FixedNoFoot == {"top", "header", "count", "disc", "topDiv", "botDiv"}

\* What View counts before it decides on cards or lines; not the directory.
Fixed == {"top", "header", "count", "disc", "topDiv", "botDiv", "foot"}

\* Cards of three lines, unless there is no room for them.
Short(s) ==
  /\ s.height > 0 /\ ~s.expanded
  /\ Sizes(Parts(s), Fixed) + Len(tallRows(s)) > s.height

Rows(s) ==
  IF Short(s) THEN [rows |-> shortRows(s), per |-> 1]
  ELSE IF s.mode = "theme" THEN [rows |-> renderThemePicker(s), per |-> 1]
  ELSE [rows |-> tallRows(s), per |-> 3]

-----------------------------------------------------------------------------
(* layoutDrop.                                                             *)

\* What goes, in this order, until the rest fits; the fourth step replaces the
\* logo by the wordmark.
Order == <<{"top"}, {"foot"}, {"botDiv"}, {}, {"header"}, {"count", "disc"}, {"dir"}>>

Left(parts, k) ==
  [p \in DOMAIN parts |->
     IF \E i \in 1 .. k : p \in Order[i] THEN <<>>
     ELSE IF p = "header" /\ k >= 4 THEN Wordmark ELSE parts[p]]

\* Mutant: the window starts at the first agent.
clipTop(n, selected, target) == 0

\* The agent that a window of target agents of n starts with.
clipStart(n, selected, target) ==
  Max({0, Min({n - target, selected - target + 1})})

\* Of rows in groups of per: as many groups as fit, and the selected one.
clipAgents(rows, selected, target, per) ==
  LET n == Len(rows) \div per
      t == Min({Max({0, target}) \div per, n})
      start == IF t = n THEN 0 ELSE clipStart(n, selected, t)
  IN  IF t = 0 THEN [rows |-> <<>>, start |-> 0]
      ELSE [rows |-> SubSeq(rows, start * per + 1, (start + t) * per), start |-> start]

insertDetails(rows, details, at) ==
  LET i == Max({0, Min({Len(rows), at})})
  IN  SubSeq(rows, 1, i) \o details \o SubSeq(rows, i + 1, Len(rows))

\* Mutant: the details are put in after the rows were clipped to all the room.
RoomForAll(s, rest) == s.height - Sizes(rest, DOMAIN rest)

\* The lines that are left for the rows when all else is dropped.
Room(s, rest) == s.height - Sizes(rest, DOMAIN rest) - Len(detail(s))

\* How many of the steps it takes until all the lines fit; all seven may be too few.
Steps(s, parts, rows) ==
  IF s.height = 0 THEN 0
  ELSE Min({7} \cup {k \in 0 .. 6 :
         Sizes(Left(parts, k), DOMAIN parts) + Len(rows) + Len(detail(s)) <= s.height})

\* The rows that are drawn; clipping leaves all of them if they fit.
Clipped(s, rest, r) ==
  IF s.height = 0 THEN [rows |-> r.rows, start |-> 0]
  ELSE clipAgents(r.rows, s.selected, Room(s, rest), r.per)

Body(s, clip, per) ==
  insertDetails(clip.rows, detail(s), (s.selected - clip.start + 1) * per)

\* Blank lines fill the screen up above the lower divider.
Assemble(s, rest, body) ==
  rest.top \o rest.header \o rest.dir \o rest.count \o rest.disc \o rest.topDiv
    \o body \o lines("filler", Max({0, s.height - Sizes(rest, DOMAIN rest) - Len(body)}))
    \o rest.botDiv \o rest.foot

Drawn(s, rest, r) == Assemble(s, rest, Body(s, Clipped(s, rest, r), r.per))

\* runeTrunc(x, inner - n) of a card (n = 4) and of the details (n = 10): the cards
\* are built even if lines are shown.
Panics(s) ==
  \/ s.agents > 0 /\ s.width < 4
  \/ Chosen(s) /\ s.width < 10

View(s) ==
  IF Panics(s) THEN <<>>
  ELSE Drawn(s, Left(Parts(s), Steps(s, Parts(s), Rows(s).rows)), Rows(s))

-----------------------------------------------------------------------------
(* The messages that change what is drawn.                                 *)

Set(s) == screen' = s

WindowSize ==
  \E w \in Width, h \in Height : Set([screen EXCEPT !.width = w, !.height = h])

Clamp(sel, n) == Max({0, Min({n - 1, sel})})

\* A roster frame may bring the directory of the session; updates add or remove
\* an agent; the feed breaks.
Frame ==
  \/ \E n \in 0 .. MaxAgents, d \in {screen.dir, TRUE} :
       Set([screen EXCEPT !.agents = n, !.selected = Clamp(screen.selected, n),
                          !.connected = TRUE, !.dir = d])
  \/ \E n \in {screen.agents - 1, screen.agents + 1} \cap 0 .. MaxAgents :
       Set([screen EXCEPT !.agents = n, !.selected = Clamp(screen.selected, n)])
  \/ \E c \in BOOLEAN : Set([screen EXCEPT !.connected = c])

LayoutKey ==
  /\ screen.mode = "list"
  /\ \/ \E i \in {screen.selected - 1, screen.selected + 1} \cap 0 .. screen.agents - 1 :
          Set([screen EXCEPT !.selected = i])
     \/ Set([screen EXCEPT !.expanded = ~@])
     \/ Set([screen EXCEPT !.mode = "input"])
     \/ \E i \in 0 .. Themes - 1 : Set([screen EXCEPT !.mode = "theme", !.themeIdx = i])

\* The theme that is in use while the picker is closed is not kept.
handleModalKey ==
  \/ screen.mode # "list" /\ Set([screen EXCEPT !.mode = "list", !.themeIdx = 0])
  \/ /\ screen.mode = "theme"
     /\ \E i \in {screen.themeIdx - 1, screen.themeIdx + 1} \cap 0 .. Themes - 1 :
          Set([screen EXCEPT !.themeIdx = i])

LayoutNext == WindowSize \/ Frame \/ LayoutKey \/ handleModalKey

LayoutSpec == LayoutInit /\ [][LayoutNext]_layoutVars

-----------------------------------------------------------------------------
\* The view has as many lines as the terminal, neither more, which would scroll
\* its top out of sight, nor fewer; however the parts were dropped and the rows
\* clipped.  Details are never dropped, so that this takes a line for the divider
\* and the lines for them; and columns enough for View not to panic.
FitsHeight ==
  ~Panics(screen) /\ screen.height >= 1 + Len(detail(screen)) => Len(View(screen)) = screen.height

\* The selected agent is on the screen, and its details right below its last
\* line, wherever the selection is and whatever was clipped: in the list, and
\* with room for a line, or for a card with details, below the divider.
SelectedVisible ==
  LET v == View(screen)
      own == {i \in DOMAIN v : v[i] = <<"agent", screen.selected>>}
  IN  /\ screen.mode # "theme" /\ screen.agents > 0
      /\ ~Panics(screen)
      /\ screen.height >= IF screen.expanded THEN 1 + 3 + 6 ELSE 1 + 1
      => /\ own # {}
         /\ screen.expanded => v[Max(own) + 1] = <<"detail", 1>>

\* What a view shows: which agents, and which of the other parts.
Shown(s) ==
  LET v == View(s)
      kind(l) == IF l[1] \in {"logo", "mark"} THEN <<"header", 1>> ELSE l
  IN  {kind(v[i]) : i \in {j \in DOMAIN v : v[j][1] \notin {"blank", "filler"}}}

\* A terminal that is one line taller shows everything that it showed before:
\* going from lines to cards costs no other part, although View does not count
\* the directory when it decides on it.  The theme picker is left out: it takes
\* the place of the rows only from the height on at which cards would fit, and
\* then costs the footer, so that a line more does show less.
MoreRoomShowsMore ==
  screen.height > 0 /\ screen.mode # "theme" =>
    Shown(screen) \subseteq Shown([screen EXCEPT !.height = @ + 1])

=============================================================================
