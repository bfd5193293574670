-------------------------- MODULE MCSessionHandler --------------------------
(***************************************************************************)
(* Small instances of SessionHandler for TLC.                              *)
(***************************************************************************)
EXTENDS SessionHandler, TLC

SessionSymmetry == Permutations(SessionID)

\* The configs, the request and the engine are as the server starts with them.
NothingConfigured ==
    /\ stored_config = SetConfigInternal([f \in Field |-> Unset])
    /\ imposed_config = [f \in Field |-> Unset]
    /\ config = stored_config
    /\ request = CHOOSE r \in Request : TRUE
    /\ preparator = "none"
    /\ engine <= 1

\* Only the session handler's time rules look at the clock and the clients'
\* processes, and none of them looks at a config, the request or the engine:
\* TLC combines all sessions with either, but not the two with each other.
Bound ==
    \/ NothingConfigured
    \/ /\ now <= 3
       /\ alive = Process
       /\ \A id \in Sessions : session_map[id].app = NoProcess
=============================================================================
