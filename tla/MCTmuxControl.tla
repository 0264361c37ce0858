----------------------------- MODULE MCTmuxControl -----------------------------
(***************************************************************************)
(* TmuxControl for TLC.                                                    *)
(***************************************************************************)
EXTENDS TmuxControl, TLC

MCSymmetry == Permutations(Request)
=============================================================================
