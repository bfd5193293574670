-------------------------- MODULE MCSessionWatchDog --------------------------
(***************************************************************************)
(* Small instances of SessionWatchDog for TLC.                             *)
(***************************************************************************)
EXTENDS SessionWatchDog, TLC

SessionSymmetry == Permutations(SessionID)
=============================================================================
