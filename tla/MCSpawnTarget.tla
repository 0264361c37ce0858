---------------------------- MODULE MCSpawnTarget ----------------------------
(***************************************************************************)
(* SpawnTarget for TLC.  The names: the one that spawn looks for, another, *)
(* and three of two words, of which one begins with the name that spawn    *)
(* looks for, and one ends like a line with a marker.                      *)
(***************************************************************************)
EXTENDS SpawnTarget

MCName == {<<"subagents">>, <<"logs">>, <<"build", "log">>, <<"build", "1">>,
           <<"subagents", "old">>}
Symmetric == Permutations(Proc)

=============================================================================
