---------------------------- MODULE MCHarnessInstall ----------------------------
(***************************************************************************)
(* HarnessInstall for TLC: two harnesses in two versions.  Both own a      *)
(* "hook", as pi and opencode share a SKILL.md.  In its second version "a" *)
(* drops the hook and gets a $ into its block, and "b" moves its skill     *)
(* from a file of its own to the one that "a" appends to.                  *)
(***************************************************************************)
EXTENDS HarnessInstall

skill(d, m, b) == [dst |-> d, merge |-> m, body |-> b]
file(d, b)   == [dst |-> d, body |-> b]

MCManifest ==
  [h \in {"a", "b"} |->
     IF h = "a"
       THEN << [skill |-> <<skill("rc", "append", <<text("a", 1)>>)>>,
                files |-> <<file("hook", <<text("a", 1)>>)>>],
               [skill |-> <<skill("rc", "append", <<dollar("a", 2)>>)>>,
                files |-> <<>>] >>
       ELSE << [skill |-> <<skill("own", "create-if-missing", <<text("b", 1)>>)>>,
                files |-> <<file("hook", <<text("b", 1)>>)>>],
               [skill |-> <<skill("rc", "append", <<text("b", 2)>>)>>,
                files |-> <<file("hook", <<text("b", 2)>>)>>] >>]

=============================================================================
