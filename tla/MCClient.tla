------------------------------ MODULE MCClient ------------------------------
(***************************************************************************)
(* Small instances of Client for TLC.                                      *)
(***************************************************************************)
EXTENDS Client, TLC

Same == [proto |-> "same", old |-> FALSE]
OldProduct == [proto |-> "same", old |-> TRUE]
OldProtocol == [proto |-> "older", old |-> TRUE]

UpToDate == {Same}
AnyProgram == {Same, OldProtocol}

ClientSymmetry == Permutations(Clients)
=============================================================================
