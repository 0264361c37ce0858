----------------------------- MODULE HarnessInstall -----------------------------
(***************************************************************************)
(* mure integration install and uninstall: cmd/mure/integration.go over    *)
(* internal/harnesses (plan.go, apply.go, uninstall.go, state.go and       *)
(* markers.go).  A file is a sequence of lines or absent, and a hash is    *)
(* the content it is of.  Modes, directories, the expansion of paths and a *)
(* missing newline at the end of a file are left out.                      *)
(*                                                                         *)
(* One command runs at a time, a file after the other; it may fail or be   *)
(* killed at each of them.  os.WriteFile truncates before it writes, so    *)
(* that what it leaves then is any beginning of the new content.  Between  *)
(* the steps the user edits files.  A version of mure is one set of        *)
(* manifests.                                                              *)
(***************************************************************************)
EXTENDS Naturals, SequencesExt, FiniteSets

CONSTANTS Harness, Dst, Version,
          Manifest,   \* what manifest.toml of a harness asks for, in each version
          NoFile, NoReceipt,
          Torn,       \* a state file that does not parse
          MaxRuns,    \* bound: commands
          MaxEdits    \* bound: edits of the user

markerBegin(h) == [kind |-> "begin", of |-> h]
markerEnd(h)   == [kind |-> "end", of |-> h]
text(h, v)   == [kind |-> "text", of |-> h, ver |-> v]
\* A line with a $, and what regexp's template expansion makes of it.
dollar(h, v) == [kind |-> "dollar", of |-> h, ver |-> v]
mangled(h, v) == [kind |-> "mangled", of |-> h, ver |-> v]
userLine     == [kind |-> "user"]

\* What a harness has to say: no line of it is a marker.
Text(h) == {text(h, v) : v \in Version} \cup {dollar(h, v) : v \in Version}

Merge    == {"append", "replace", "create-if-missing"}
Skill(h) == [dst : Dst, merge : Merge, body : Seq(Text(h))]
File(h)  == [dst : Dst, body : Seq(Text(h))]

\* Install: [skill] (path, merge and SKILL.md, or none) and [[files]].
ASSUME ManifestAssumption ==
  \A h \in Harness, v \in Version :
    /\ Manifest[h][v].skill \in Seq(Skill(h)) /\ Len(Manifest[h][v].skill) <= 1
    /\ Manifest[h][v].files \in Seq(File(h))

\* A line of a file, of the user or of a harness.
Line == {userLine} \cup [kind : {"begin", "end"}, of : Harness]
          \cup [kind : {"text", "dollar", "mangled"}, of : Harness, ver : Version]

FileReceipt == [dst : Dst, merge : Merge, sha : Seq(Line)]

\* What stands for none is no content, and no receipt.
ASSUME NothingAssumption ==
  /\ NoFile \notin Seq(Line)
  /\ NoReceipt \notin Seq(FileReceipt) /\ Torn \notin Seq(FileReceipt)

VARIABLES files,    \* [Dst -> content or NoFile]
          receipt,  \* the state files
          cmd,      \* the command under way
          runs, edits,
          damaged,  \* history: files with a torn write or a marker the user removed
          loose,    \* history: <<h, d>> of which a known fault has lost the receipt
          touched   \* history: files the user edited since the command began

installVars == <<files, receipt, cmd, runs, edits, damaged, loose, touched>>

Idle == [op |-> "idle"]

InstallInit ==
  /\ files \in [Dst -> {NoFile, <<userLine>>}]
  /\ receipt = [h \in Harness |-> NoReceipt]
  /\ cmd = Idle
  /\ runs = 0 /\ edits = 0
  /\ damaged = {} /\ loose = {} /\ touched = {}

-----------------------------------------------------------------------------
(* Marked blocks.                                                          *)

WrapBlock(h, body) == <<markerBegin(h)>> \o body \o <<markerEnd(h)>>

Closes(f, h, i, j) == f[i] = markerBegin(h) /\ j > i /\ f[j] = markerEnd(h)

HasBlock(f, h) == \E i, j \in DOMAIN f : Closes(f, h, i, j)

Ends(f, h, i) == {j \in DOMAIN f : Closes(f, h, i, j)}

\* What the lines from the i-th on become, for each i.
Replaced(f, h, by) ==
  LET from[i \in 1 .. Len(f) + 1] ==
        IF i > Len(f) THEN <<>>
        ELSE IF Ends(f, h, i) = {} THEN <<f[i]>> \o from[i + 1]
        ELSE by \o from[Min(Ends(f, h, i)) + 1]
  IN  from

\* ReplaceAllString with blockRegex: from a begin line to the nearest end line.
ReplaceBlocks(f, h, by) == Replaced(f, h, by)[1]

expand(body) ==
  [i \in DOMAIN body |-> IF body[i].kind = "dollar" THEN mangled(body[i].of, body[i].ver)
                                                    ELSE body[i]]

\* Mutant: the block is appended, whether there is one or not.
AlwaysAppendBlock(f, h, body) == f \o WrapBlock(h, body)

\* The block that replaces another goes through the template of regexp.
ReplaceOrAppendBlock(f, h, body) ==
  IF HasBlock(f, h) THEN ReplaceBlocks(f, h, WrapBlock(h, expand(body)))
                    ELSE f \o WrapBlock(h, body)

StripBlock(f, h) == ReplaceBlocks(f, h, <<>>)

-----------------------------------------------------------------------------
(* Install.                                                                *)

\* The skill, with its way of merging, then the files, which replace.
BuildPlan(h, v) ==
  LET m == Manifest[h][v]
  IN  m.skill \o [i \in DOMAIN m.files |->
                    [dst |-> m.files[i].dst, merge |-> "replace", body |-> m.files[i].body]]

Content(d) == IF files[d] = NoFile THEN <<>> ELSE files[d]

Skips(op) == op.merge = "create-if-missing" /\ files[op.dst] # NoFile

Written(h, op) ==
  CASE Skips(op)            -> files[op.dst]
    [] op.merge = "append"  -> ReplaceOrAppendBlock(Content(op.dst), h, op.body)
    [] OTHER                -> op.body

Dsts(rs) == {rs[i].dst : i \in DOMAIN rs}
Recorded(h) == IF receipt[h] \in {NoReceipt, Torn} THEN {} ELSE Dsts(receipt[h])

StartCommand(c) ==
  /\ cmd = Idle
  /\ runs < MaxRuns
  /\ runs' = runs + 1
  /\ cmd' = c
  /\ touched' = {}
  /\ UNCHANGED <<files, receipt, edits, damaged, loose>>

integrationInstall(h, v) ==
  StartCommand([op |-> "install", h |-> h, v |-> v, todo |-> BuildPlan(h, v), done |-> <<>>])

current == Head(cmd.todo)
Busy(o) == cmd.op = o /\ cmd.todo # <<>>

\* Only whole new content, or none, mends a file.
Mend(d, whole) == damaged' = IF whole THEN damaged \ {d} ELSE damaged

\* Mutant: a file that create-if-missing leaves alone is not recorded.
RecordWritten(h, op) ==
  IF Skips(op) THEN cmd.done
  ELSE Append(cmd.done, [dst |-> op.dst, merge |-> op.merge, sha |-> Written(h, op)])

\* A skipped file is recorded as it is.
Record(h, op) ==
  Append(cmd.done, [dst |-> op.dst, merge |-> op.merge, sha |-> Written(h, op)])

\* One round of the loop of Apply.
Apply ==
  /\ Busy("install")
  /\ LET op == current
         new == Written(cmd.h, op)
     IN  /\ files' = [files EXCEPT ![op.dst] = new]
         /\ cmd' = [cmd EXCEPT !.todo = Tail(@), !.done = Record(cmd.h, op)]
         /\ Mend(op.dst, op.merge = "replace")
  /\ UNCHANGED <<receipt, runs, edits, loose, touched>>

\* A write of new to d that fails: nothing happened, or a part of it.
FailedWrite(d, new) ==
  \/ UNCHANGED <<files, damaged>>
  \/ /\ \E n \in 0 .. Len(new) - 1 : files' = [files EXCEPT ![d] = SubSeq(new, 1, n)]
     /\ damaged' = damaged \cup {d}

\* An error or a kill ends the command, and no receipt is written.
ApplyFails ==
  /\ Busy("install")
  /\ LET op == current
     IN  IF Skips(op) THEN UNCHANGED <<files, damaged>>
                      ELSE FailedWrite(op.dst, Written(cmd.h, op))
  /\ cmd' = Idle
  /\ loose' = loose \cup {<<cmd.h, d>> : d \in Dsts(cmd.done) \cup {current.dst}}
  /\ UNCHANGED <<receipt, runs, edits, touched>>

\* A receipt replaces the one before, and with it forgets the files that only
\* the older version installed.
WriteState ==
  /\ cmd.op = "install" /\ cmd.todo = <<>>
  /\ receipt' = [receipt EXCEPT ![cmd.h] = cmd.done]
  /\ LET plan == Dsts(BuildPlan(cmd.h, cmd.v))
     IN  loose' = (loose \ {<<cmd.h, d>> : d \in plan})
                    \cup {<<cmd.h, d>> : d \in Recorded(cmd.h) \ plan}
  /\ cmd' = Idle
  /\ UNCHANGED <<files, runs, edits, damaged, touched>>

WriteStateFails ==
  /\ cmd.op = "install" /\ cmd.todo = <<>>
  /\ \/ UNCHANGED receipt
     \/ receipt' = [receipt EXCEPT ![cmd.h] = Torn]
  /\ loose' = loose \cup {<<cmd.h, d>> : d \in Dsts(cmd.done) \cup Recorded(cmd.h)}
  /\ cmd' = Idle
  /\ UNCHANGED <<files, runs, edits, damaged, touched>>

-----------------------------------------------------------------------------
(* Uninstall.                                                              *)

\* Without a receipt, and with one that does not parse, nothing is done.
integrationUninstall(h) ==
  /\ receipt[h] \notin {NoReceipt, Torn}
  /\ StartCommand([op |-> "uninstall", h |-> h, todo |-> receipt[h]])

\* What a file becomes; a file that differs from the receipt stays.
\* Mutant: the hash is not looked at.
RevertedAny(h, r) ==
  LET f == files[r.dst]
      g == IF r.merge = "append" /\ f # NoFile THEN StripBlock(f, h) ELSE <<>>
  IN  IF g = <<>> THEN NoFile ELSE g

Modified(r) == r.merge # "append" /\ files[r.dst] \notin {NoFile, r.sha}

Reverted(h, r) ==
  LET f == files[r.dst]
      g == IF r.merge = "append" /\ f # NoFile THEN StripBlock(f, h) ELSE <<>>
  IN  IF Modified(r) THEN f ELSE IF g = <<>> THEN NoFile ELSE g

\* One round of the loop of Uninstall.
Uninstall ==
  /\ Busy("uninstall")
  /\ LET r == current
         new == Reverted(cmd.h, r)
     IN  /\ files' = [files EXCEPT ![r.dst] = new]
         /\ loose' = IF Modified(r) THEN loose \cup {<<cmd.h, r.dst>>} ELSE loose
         /\ Mend(r.dst, new = NoFile)
  /\ cmd' = [cmd EXCEPT !.todo = Tail(@)]
  /\ UNCHANGED <<receipt, runs, edits, touched>>

\* A file that cannot be read, written or removed is a warning: the next one
\* follows, and the receipt goes in the end.
UninstallWarns ==
  /\ Busy("uninstall")
  /\ LET r == current
         new == Reverted(cmd.h, r)
     IN  IF r.merge = "append" /\ new # NoFile THEN FailedWrite(r.dst, new)
                                               ELSE UNCHANGED <<files, damaged>>
  /\ loose' = loose \cup {<<cmd.h, current.dst>>}
  /\ cmd' = [cmd EXCEPT !.todo = Tail(@)]
  /\ UNCHANGED <<receipt, runs, edits, touched>>

ClearState ==
  /\ cmd.op = "uninstall" /\ cmd.todo = <<>>
  /\ receipt' = [receipt EXCEPT ![cmd.h] = NoReceipt]
  /\ cmd' = Idle
  /\ UNCHANGED <<files, runs, edits, damaged, loose, touched>>

\* A kill, or a state file that cannot be removed: the receipt is still there.
UninstallStops ==
  /\ cmd.op = "uninstall"
  /\ cmd' = Idle
  /\ UNCHANGED <<files, receipt, runs, edits, damaged, loose, touched>>

-----------------------------------------------------------------------------
(* The user adds a line, removes a file, or removes a line with a marker.  *)

Edit(d) ==
  /\ edits < MaxEdits
  /\ edits' = edits + 1
  /\ \/ /\ files' = [files EXCEPT ![d] = Append(Content(d), userLine)]
        /\ UNCHANGED damaged
     \/ /\ files[d] # NoFile
        /\ files' = [files EXCEPT ![d] = NoFile]
        /\ damaged' = damaged \ {d}
     \/ /\ files[d] # NoFile
        /\ \E i \in DOMAIN files[d] :
             /\ files[d][i].kind \in {"begin", "end"}
             /\ files' = [files EXCEPT ![d] = RemoveAt(@, i)]
        /\ damaged' = damaged \cup {d}
  /\ touched' = touched \cup {d}
  /\ UNCHANGED <<receipt, cmd, runs, loose>>

InstallNext ==
  \/ \E h \in Harness, v \in Version : integrationInstall(h, v)
  \/ Apply \/ ApplyFails \/ WriteState \/ WriteStateFails
  \/ \E h \in Harness : integrationUninstall(h)
  \/ Uninstall \/ UninstallWarns \/ ClearState \/ UninstallStops
  \/ \E d \in Dst : Edit(d)

InstallSpec == InstallInit /\ [][InstallNext]_installVars

-----------------------------------------------------------------------------
Lines(f) == IF f = NoFile THEN <<>> ELSE f

\* How many lines of the user a file has, which are all the same.
UserLines(f) == Cardinality({i \in DOMAIN Lines(f) : Lines(f)[i] = userLine})

\* create-if-missing has taken a file of the user for its own.
TakesOver(r) == r.merge = "create-if-missing" /\ userLine \in ToSet(r.sha)

\* A round that is carried out leaves every line of the user in its file: an
\* installation in a file it shares with the user, an uninstallation in any
\* file.  This leaves out files that replace overwrites, as README.md says;
\* damaged ones, where a block may reach further than it was written; and the
\* lines that create-if-missing took for its own.
UserLinesStay ==
  [][\A d \in Dst \ damaged :
       /\ cmd.op \in {"install", "uninstall"} /\ cmd.todo # <<>>
       /\ cmd'.op = cmd.op /\ cmd'.todo # cmd.todo /\ d \notin damaged'
       /\ cmd.op = "install" => current.merge # "replace"
       /\ cmd.op = "uninstall" => ~TakesOver(current)
       => UserLines(files'[d]) = UserLines(files[d])]_installVars

\* harnesses/README.md on create-if-missing: "Uninstall is a no-op."  A file
\* that the user wrote, and install left alone, survives the step of uninstall
\* that handles it; what the user does to it meanwhile does not count.
KeptSurvives ==
  [][\A d \in Dst : /\ Busy("uninstall") /\ cmd'.op = "uninstall" /\ cmd'.todo # cmd.todo
                    /\ current.merge = "create-if-missing" /\ current.dst = d
                    => UserLines(files'[d]) = UserLines(files[d])]_installVars

Of(l, h) == l.kind # "user" /\ l.of = h
Holds(f, h) == \E i \in DOMAIN Lines(f) : Of(Lines(f)[i], h)

\* The lines of h in f are this block, in one piece.
HasOnly(f, h, block) ==
  \E n \in 0 .. Len(f) - Len(block) :
    /\ \A i \in DOMAIN block : f[n + i] = block[i]
    /\ \A i \in DOMAIN f : Of(f[i], h) => i - n \in DOMAIN block

AsPlanned(f, h, op) ==
  CASE op.merge = "replace"           -> f = op.body
    [] op.merge = "create-if-missing" -> f # NoFile
    [] op.merge = "append"            -> f # NoFile /\ HasOnly(f, h, WrapBlock(h, op.body))

\* Whatever was there before, an older version or the remains of a command that
\* failed, an installation that succeeds leaves what its manifest says: "re-running
\* install reconciles to the manifest state".  This leaves out what the user or
\* a torn write changed, and bodies with a $, which change when they replace a block.
Reconciles ==
  [][cmd.op = "install" /\ cmd.todo = <<>> /\ cmd' = Idle /\ receipt'[cmd.h] = cmd.done =>
       \A op \in ToSet(BuildPlan(cmd.h, cmd.v)) :
         /\ op.dst \notin damaged \cup touched
         /\ \A l \in ToSet(op.body) : l.kind # "dollar"
         => AsPlanned(files[op.dst], cmd.h, op)]_installVars

\* Nothing that mure wrote is forgotten: what a file has of a harness is in its
\* receipt, so that uninstall will see it, or a fault has been reported for it.
Accounted ==
  cmd = Idle =>
    \A h \in Harness, d \in Dst \ damaged :
      Holds(files[d], h) => d \in Recorded(h) \/ <<h, d>> \in loose

=============================================================================
