--------------------------- MODULE MCSocketLifecycle ---------------------------
(***************************************************************************)
(* SocketLifecycle for TLC.                                                *)
(***************************************************************************)
EXTENDS SocketLifecycle, TLC

MCSymmetry == Permutations(Daemon)
=============================================================================
