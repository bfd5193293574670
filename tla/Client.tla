------------------------------- MODULE Client -------------------------------
(***************************************************************************)
(* client::Client (client/client.cc) with the server it starts, talks to   *)
(* and restarts (client/server_launcher.cc, ipc/unix_ipc.cc).              *)
(*                                                                         *)
(* Every application has a client; all of them share one server process.   *)
(* A call is one-shot: connect, send, receive.  The server serves one call *)
(* at a time, so a call is one step, but between the calls of one          *)
(* EnsureCallCommand other clients call, the server crashes, or it drops   *)
(* the session (eviction, Cleanup).                                        *)
(*                                                                         *)
(* What a session holds is abstracted to its composition, the characters   *)
(* typed since the last commit.  The release build is modelled (no DEBUG), *)
(* without the macOS part of ResetHistory.                                 *)
(***************************************************************************)
EXTENDS Integers, Sequences, FiniteSets

CONSTANTS
    Clients,
    Char,              \* characters typed with SEND_KEY
    Commits,           \* inputs that commit: subset of {"enter", "submit", "partial"}
    OtherCalls,        \* whether calls outside EnsureCallCommand happen
    VersionChecks,     \* whether CheckVersionOrRestartServer is called
    Resets,            \* the statuses in which Reset is called
    Faults,            \* subset of {"reset", "closed", "timeout", "broken"}
    LauncherMayFail,   \* whether a server may fail to start or to be killed
    CreateMayFail,     \* whether the server may refuse CREATE_SESSION
    FirstServer,       \* the version of the server that runs at first
    Installed,         \* the versions the server program on the disk may have
    kMaxPlayBackSize,
    MaxCrash,          \* bound on the crashes of the server
    MaxLost,           \* bound on the sessions the server drops
    MaxId,             \* bound on the sessions created
    MaxTyped           \* bound on the length of a composition

\* A version as the clients see it: is the protocol the clients' own, and is
\* the product older than the clients'.
Version == [proto : {"older", "same", "newer"}, old : BOOLEAN]

\* The types of the calls other than SEND_KEY and SEND_COMMAND, which are named
\* by their inputs.
CallTypes == {"CREATE_SESSION", "DELETE_SESSION", "SHUTDOWN", "OTHER"}

ASSUME ClientAssumptions ==
    /\ Commits \subseteq {"enter", "submit", "partial"}
    /\ Char \cap ({"enter", "submit", "partial"} \cup CallTypes) = {}
    /\ {OtherCalls, VersionChecks} \subseteq BOOLEAN
    /\ {LauncherMayFail, CreateMayFail} \subseteq BOOLEAN
    /\ Faults \subseteq {"reset", "closed", "timeout", "broken"}
    /\ FirstServer \in Version /\ Installed \subseteq Version
    /\ kMaxPlayBackSize \in Nat \ {0}
    /\ {MaxCrash, MaxLost, MaxId, MaxTyped} \subseteq Nat

VARIABLES
    id,                \* id_, 0 when there is none
    server_status,     \* server_status_
    seen,              \* server_protocol_version_, server_product_version_
    history_inputs,    \* history_inputs_
    ctl,               \* where a client is in EnsureCallCommand
    shown,             \* the composition the user of a client goes on from
    server,            \* the server process, and the program on the disk
    last_id,           \* the last session id given out
    crashes,           \* how often the server crashed
    lost               \* how many sessions the server dropped

clientVars == <<id, server_status, seen, history_inputs, ctl, shown>>
serverVars == <<server, last_id, crashes, lost>>
vars == <<clientVars, serverVars>>

-----------------------------------------------------------------------------
(***************************************************************************)
(* The server.                                                             *)
(***************************************************************************)
Fresh == [server EXCEPT !.up = TRUE, !.version = server.disk, !.sessions = <<>>]
Down == [Fresh EXCEPT !.up = FALSE]

Inputs == Char \cup Commits

\* What an input makes of a composition.
Apply(composition, in) ==
    CASE in \in Char                   -> Append(composition, in)
      [] in \in {"enter", "submit"}    -> <<>>
      [] in = "partial" /\ composition # <<>> -> Tail(composition)
      [] OTHER                         -> composition

\* The compositions after the first n inputs of s, from an empty one.
After(s) ==
    LET after[n \in 0..Len(s)] ==
            IF n = 0 THEN <<>> ELSE Apply(after[n - 1], s[n])
    IN  after

\* The composition after all of them.
Replay(s) == After(s)[Len(s)]

\* An empty reply parses as an Output whose fields all have their defaults.
Empty == [id |-> 0, error |-> FALSE, consumed |-> FALSE, result |-> FALSE]
Failure == [Empty EXCEPT !.error = TRUE]

\* SessionHandler::EvalCommand: the replies the server may give to a call of
\* type with session id i, and what the call leaves of the server.
EvalCommand(type, i) ==
    CASE type = "CREATE_SESSION" ->
            (IF last_id < MaxId
             THEN {[server |-> [server EXCEPT !.sessions =
                          [k \in DOMAIN @ \cup {last_id + 1} |->
                              IF k = last_id + 1 THEN <<>> ELSE @[k]]],
                    out |-> [Empty EXCEPT !.id = last_id + 1]]}
             ELSE {})
            \cup (IF CreateMayFail \/ last_id = MaxId
                  THEN {[server |-> server, out |-> Failure]} ELSE {})
      [] type = "DELETE_SESSION" ->
            {[server |-> [server EXCEPT !.sessions =
                  [k \in DOMAIN @ \ {i} |-> @[k]]],
              out |-> [Empty EXCEPT !.id = i]]}
      [] type = "SHUTDOWN" -> {[server |-> Down, out |-> Empty]}
      [] type = "OTHER"    -> {[server |-> server, out |-> [Empty EXCEPT !.id = i]]}
      [] OTHER ->          \* SEND_KEY, SEND_COMMAND
            IF i \notin DOMAIN server.sessions
            THEN {[server |-> server, out |-> Failure]}
            ELSE LET typed == server.sessions[i]
                 IN  {[server |-> [server EXCEPT !.sessions[i] = Apply(typed, type)],
                       out |-> [id |-> i, error |-> FALSE,
                                consumed |-> type \in Char \/ typed # <<>>,
                                result |-> type \in Commits /\ typed # <<>>]]}

-----------------------------------------------------------------------------
(***************************************************************************)
(* Client::Call.                                                           *)
(***************************************************************************)
Blocked == {"TIMEOUT", "VERSION_MISMATCH", "BROKEN_MESSAGE", "FATAL"}
ServerStatus == {"UNKNOWN", "SHUTDOWN", "INVALID_SESSION", "OK"} \cup Blocked

\* How a call may end.  A server that dies while it serves the call is seen
\* as an error of the transport ("reset"), or as an orderly close, that is an
\* empty reply ("closed").  A call that timed out may have been served.
Call(c, type, i) ==
    LET st   == server_status[c]
        fail == [ok |-> FALSE, status |-> st, seen |-> seen[c],
                 server |-> server, out |-> Empty]
        mine == [proto |-> "same", old |-> FALSE]
        met  == [fail EXCEPT !.seen = server.version]
        may(fault) == fault \in Faults /\ crashes < MaxCrash
    IN  IF st \in Blocked THEN {fail}
        ELSE IF ~server.up
        THEN {[fail EXCEPT !.seen = mine,
                           !.status = IF st = "UNKNOWN" THEN st ELSE "SHUTDOWN"]}
        ELSE IF server.version.proto # "same" THEN {met}
        ELSE {[met EXCEPT !.ok = TRUE, !.server = r.server, !.out = r.out] :
                 r \in EvalCommand(type, i)}
             \cup (IF may("reset")
                   THEN {[met EXCEPT !.status = "SHUTDOWN", !.server = Down]} ELSE {})
             \cup (IF may("closed")
                   THEN {[met EXCEPT !.ok = TRUE, !.server = Down]} ELSE {})
             \cup (IF "timeout" \in Faults
                   THEN {[met EXCEPT !.status = "TIMEOUT", !.server = s] :
                         s \in {server} \cup {r.server : r \in EvalCommand(type, i)}}
                   ELSE {})
             \cup (IF "broken" \in Faults
                   THEN {[met EXCEPT !.status = "BROKEN_MESSAGE", !.server = r.server] :
                         r \in EvalCommand(type, i)}
                   ELSE {})

\* The server and what is counted of it after a call that ended as o.
ServerAfter(o, type) ==
    /\ server' = o.server
    /\ last_id' = IF \E k \in DOMAIN o.server.sessions : k > last_id
                  THEN last_id + 1 ELSE last_id
    /\ crashes' = IF server.up /\ ~o.server.up /\ type # "SHUTDOWN"
                  THEN crashes + 1 ELSE crashes
    /\ UNCHANGED lost

\* ServerLauncher::StartServer: a server that answers a ping is kept,
\* otherwise the installed program is started.
StartServer ==
    (IF server.up THEN {[ok |-> TRUE, server |-> server]}
                  ELSE {[ok |-> TRUE, server |-> Fresh]})
    \cup (IF LauncherMayFail THEN {[ok |-> FALSE, server |-> server]} ELSE {})

EnsureConnection_RetriesFatal(st) ==
    CASE st \in {"OK", "INVALID_SESSION"} ->
            {[ok |-> TRUE, status |-> st, server |-> server]}
      [] st \in Blocked \ {"FATAL"} ->
            {[ok |-> FALSE, status |-> "FATAL", server |-> server]}
      [] OTHER ->
            {[ok |-> r.ok, server |-> r.server,
              status |-> IF r.ok THEN "INVALID_SESSION" ELSE "FATAL"] :
                r \in StartServer}

\* EnsureConnection for a client in status st.
EnsureConnection(st) ==
    CASE st \in {"OK", "INVALID_SESSION"} ->
            {[ok |-> TRUE, status |-> st, server |-> server]}
      [] st \in Blocked ->
            {[ok |-> FALSE, status |-> "FATAL", server |-> server]}
      [] OTHER ->
            {[ok |-> r.ok, server |-> r.server,
              status |-> IF r.ok THEN "INVALID_SESSION" ELSE "FATAL"] :
                r \in StartServer}

Connect(o) == server' = o.server /\ UNCHANGED <<last_id, crashes, lost>>

-----------------------------------------------------------------------------
Idle == [pc |-> "idle", next |-> "none", input |-> "none", n |-> 0]

Init ==
    /\ id = [c \in Clients |-> 0]
    /\ server_status = [c \in Clients |-> "UNKNOWN"]
    /\ seen = [c \in Clients |-> [proto |-> "older", old |-> FALSE]]
    /\ history_inputs = [c \in Clients |-> <<>>]
    /\ ctl = [c \in Clients |-> Idle]
    /\ shown = [c \in Clients |-> <<>>]
    /\ server \in {[up |-> TRUE, version |-> FirstServer, disk |-> v, sessions |-> <<>>] :
                      v \in Installed}
            \cup {[up |-> FALSE, version |-> v, disk |-> v, sessions |-> <<>>] :
                      v \in Installed}
    /\ last_id = 0
    /\ crashes = 0
    /\ lost = 0

Goto(c, pc) == ctl' = [ctl EXCEPT ![c].pc = pc, ![c].n = 0]
Return(c) == ctl' = [ctl EXCEPT ![c] = Idle]
SetStatus(c, st) == server_status' = [server_status EXCEPT ![c] = st]
SetSeen(c, o) == seen' = [seen EXCEPT ![c] = o.seen]

-----------------------------------------------------------------------------
(***************************************************************************)
(* SendKey and SendCommand: EnsureCallCommand, one step per call           *)
(* of the server.  ctl.next says what EnsureSession was called for: the    *)
(* first trial, the playback, or CheckVersionOrRestartServer.              *)
(***************************************************************************)
EnsureCallCommand(c, in) ==
    /\ ctl[c].pc = "idle"
    /\ in \in Char => Len(shown[c]) < MaxTyped
    /\ ctl' = [ctl EXCEPT ![c] = [pc |-> "ensure", next |-> "first",
                                  input |-> in, n |-> 0]]
    /\ UNCHANGED <<id, server_status, seen, history_inputs, shown, serverVars>>

\* EnsureSession up to the call of CreateSession.
EnsureSession(c) ==
    /\ ctl[c].pc = "ensure"
    /\ \E o \in EnsureConnection(server_status[c]) :
          /\ SetStatus(c, o.status)
          /\ Connect(o)
          /\ \/ /\ ~o.ok
                /\ Return(c)
                /\ UNCHANGED id
             \/ /\ o.ok /\ o.status = "OK"
                /\ Goto(c, ctl[c].next)
                /\ UNCHANGED id
             \/ /\ o.ok /\ o.status = "INVALID_SESSION"
                /\ Goto(c, "create")
                /\ id' = [id EXCEPT ![c] = 0]
    /\ UNCHANGED <<seen, history_inputs, shown>>

\* A call that failed on an older protocol, or succeeded on an older product.
Outdated(o) == \/ o.ok /\ o.seen.old
               \/ ~o.ok /\ o.seen.proto = "older"

\* How many times CheckVersionOrRestartServerInternal restarts a server.
LastTrial_Never(c) == FALSE
LastTrial(c) == ctl[c].n > 0

\* CreateSession once the server has replied with out.
CreateSession(c, out) ==
    \/ /\ out.error
       /\ SetStatus(c, "INVALID_SESSION")
       /\ Goto(c, "failed")
       /\ UNCHANGED id
    \/ /\ ~out.error
       /\ SetStatus(c, "OK")
       /\ Goto(c, ctl[c].next)
       /\ id' = [id EXCEPT ![c] = out.id]

\* CreateSession, or the NO_OPERATION of CheckVersionOrRestartServer: one
\* trial of CheckVersionOrRestartServerInternal.
CheckVersion(c) ==
    LET type == IF ctl[c].next = "check" THEN "OTHER" ELSE "CREATE_SESSION"
    IN  /\ ctl[c].pc = "create"
        /\ \E o \in Call(c, type, id[c]) :
              /\ SetSeen(c, o)
              /\ ServerAfter(o, type)
              /\ \/ /\ ~o.ok /\ o.seen.proto = "newer"
                    /\ SetStatus(c, "VERSION_MISMATCH")
                    /\ Goto(c, "failed")
                    /\ UNCHANGED id
                 \/ /\ Outdated(o) /\ LastTrial(c)
                    /\ SetStatus(c, "BROKEN_MESSAGE")
                    /\ Goto(c, "failed")
                    /\ UNCHANGED id
                 \/ /\ Outdated(o) /\ ~LastTrial(c)
                    /\ SetStatus(c, o.status)
                    /\ Goto(c, IF o.ok THEN "shutdown" ELSE "terminate")
                    /\ UNCHANGED id
                 \/ /\ ~o.ok /\ o.seen.proto = "same"
                    /\ SetStatus(c, o.status)
                    /\ Goto(c, "failed")
                    /\ UNCHANGED id
                 \/ /\ o.ok /\ ~Outdated(o) /\ type = "OTHER"
                    /\ SetStatus(c, o.status)
                    /\ Return(c)
                    /\ UNCHANGED id
                 \/ /\ o.ok /\ ~Outdated(o) /\ type = "CREATE_SESSION"
                    /\ CreateSession(c, o.out)
    /\ UNCHANGED <<history_inputs, shown>>

\* EnsureSession and CheckVersionOrRestartServer end a failure with another
\* EnsureConnection.
Failed(c) ==
    /\ ctl[c].pc = "failed"
    /\ \E o \in EnsureConnection(server_status[c]) :
          SetStatus(c, o.status) /\ Connect(o)
    /\ Return(c)
    /\ UNCHANGED <<id, seen, history_inputs, shown>>

\* Client::Shutdown of an outdated server, and whether WaitServer saw it end.
ShutdownServer(c) ==
    /\ ctl[c].pc = "shutdown"
    /\ \E o \in Call(c, "SHUTDOWN", id[c]) :
          /\ SetSeen(c, o)
          /\ SetStatus(c, o.status)
          /\ ServerAfter(o, "SHUTDOWN")
          /\ Goto(c, IF o.server.up THEN "terminate" ELSE "relaunch")
    /\ UNCHANGED <<id, history_inputs, shown>>

\* ForceTerminateServer: whatever server runs now is killed.
ForceTerminateServer(c) ==
    /\ ctl[c].pc = "terminate"
    /\ \/ /\ server' = Down
          /\ Goto(c, "relaunch")
          /\ UNCHANGED server_status
       \/ /\ LauncherMayFail /\ server.up
          /\ SetStatus(c, "BROKEN_MESSAGE")
          /\ Goto(c, "failed")
          /\ UNCHANGED server
    /\ UNCHANGED <<id, seen, history_inputs, shown, last_id, crashes, lost>>

\* EnsureConnection from SERVER_UNKNOWN, then the second trial.
Relaunch(c) ==
    /\ ctl[c].pc = "relaunch"
    /\ \E o \in EnsureConnection("UNKNOWN") :
          /\ SetStatus(c, IF o.ok THEN o.status ELSE "VERSION_MISMATCH")
          /\ Connect(o)
          /\ ctl' = IF o.ok THEN [ctl EXCEPT ![c].pc = "create", ![c].n = 1]
                            ELSE [ctl EXCEPT ![c].pc = "failed"]
    /\ UNCHANGED <<id, seen, history_inputs, shown>>

-----------------------------------------------------------------------------
\* Whether PushHistory adds an input to a history h.
Remembers_KeysOnly(h, in) == in # "submit" /\ Len(h) < kMaxPlayBackSize
Remembers(h, in) == Len(h) < kMaxPlayBackSize

\* PushHistory: unconsumed inputs are not remembered, and a key with a result
\* is a context boundary.
PushHistory(c, out) ==
    LET in    == ctl[c].input
        h     == history_inputs[c]
        added == IF Remembers(h, in) THEN Append(h, in) ELSE h
        reset == in \in Char \cup {"enter", "partial"} /\ out.result
    IN  /\ history_inputs' =
              [history_inputs EXCEPT ![c] =
                  IF ~out.consumed THEN h ELSE IF reset THEN <<>> ELSE added]
        /\ shown' = [shown EXCEPT ![c] =
              IF out.consumed THEN Apply(@, in) ELSE @]

\* Whether EnsureCallCommand accepts the reply of the first trial.
IdMatches_Unchecked(c, out) == TRUE
IdMatches(c, out) == out.id = id[c]

\* The first trial.
FirstCall(c) ==
    /\ ctl[c].pc = "first"
    /\ \E o \in Call(c, ctl[c].input, id[c]) :
          /\ SetSeen(c, o)
          /\ ServerAfter(o, ctl[c].input)
          /\ \/ /\ o.ok /\ IdMatches(c, o.out)
                /\ SetStatus(c, o.status)
                /\ PushHistory(c, o.out)
                /\ Return(c)
             \/ /\ o.ok /\ ~IdMatches(c, o.out)
                /\ SetStatus(c, "INVALID_SESSION")
                /\ ctl' = [ctl EXCEPT ![c].pc = "ensure", ![c].next = "playback"]
                /\ UNCHANGED <<history_inputs, shown>>
             \/ /\ ~o.ok
                /\ LET st == IF o.seen.proto # "same" THEN "VERSION_MISMATCH"
                                                      ELSE o.status
                   IN  /\ SetStatus(c, st)
                       /\ IF st \in Blocked
                          THEN Return(c)
                          ELSE ctl' = [ctl EXCEPT ![c].pc = "ensure",
                                                  ![c].next = "playback"]
                /\ UNCHANGED <<history_inputs, shown>>
    /\ UNCHANGED id

\* PlaybackHistory gives up a history of the maximal size, of which the rest
\* is not known.
GiveUpHistory(c) ==
    /\ ctl[c].pc = "playback"
    /\ Len(history_inputs[c]) >= kMaxPlayBackSize
    /\ history_inputs' = [history_inputs EXCEPT ![c] = <<>>]
    /\ shown' = [shown EXCEPT ![c] = <<>>]
    /\ Goto(c, "second")
    /\ UNCHANGED <<id, server_status, seen, serverVars>>

\* The loop of PlaybackHistory has inputs left.
Remaining_AllButLast(c) == ctl[c].n + 1 < Len(history_inputs[c])
Remaining(c) == ctl[c].n < Len(history_inputs[c])

\* One call of PlaybackHistory, under the new id.
PlaybackHistory(c) ==
    LET h == history_inputs[c]
        n == ctl[c].n + 1
    IN  /\ ctl[c].pc = "playback"
        /\ Len(h) < kMaxPlayBackSize
        /\ Remaining(c)
        /\ \E o \in Call(c, h[n], id[c]) :
              /\ SetSeen(c, o)
              /\ SetStatus(c, o.status)
              /\ ServerAfter(o, h[n])
              /\ ctl' = IF o.ok THEN [ctl EXCEPT ![c].n = n]
                                ELSE [ctl EXCEPT ![c].pc = "second"]
        /\ UNCHANGED <<id, history_inputs, shown>>

PlaybackDone(c) ==
    /\ ctl[c].pc = "playback"
    /\ Len(history_inputs[c]) < kMaxPlayBackSize
    /\ ~Remaining(c)
    /\ Goto(c, "second")
    /\ UNCHANGED <<id, server_status, seen, history_inputs, shown, serverVars>>

\* The second trial: its failure drops the history (DumpQueryOfDeath).
SecondCall(c) ==
    /\ ctl[c].pc = "second"
    /\ \E o \in Call(c, ctl[c].input, id[c]) :
          /\ SetSeen(c, o)
          /\ ServerAfter(o, ctl[c].input)
          /\ \/ /\ o.ok
                /\ SetStatus(c, o.status)
                /\ PushHistory(c, o.out)
             \/ /\ ~o.ok
                /\ SetStatus(c, IF o.seen.proto # "same" THEN "VERSION_MISMATCH"
                                                         ELSE o.status)
                /\ history_inputs' = [history_inputs EXCEPT ![c] = <<>>]
                /\ shown' = [shown EXCEPT ![c] = <<>>]
    /\ Return(c)
    /\ UNCHANGED id

-----------------------------------------------------------------------------
(***************************************************************************)
(* The other operations of a client.                                       *)
(***************************************************************************)
\* SyncData, GetConfig, Cleanup, NoOperation and the other operations that
\* are a single Call.
CallCommand(c) ==
    /\ OtherCalls
    /\ ctl[c].pc = "idle"
    /\ \E o \in Call(c, "OTHER", id[c]) :
          SetStatus(c, o.status) /\ SetSeen(c, o) /\ ServerAfter(o, "OTHER")
    /\ UNCHANGED <<id, history_inputs, ctl, shown>>

CheckVersionOrRestartServer(c) ==
    /\ VersionChecks
    /\ ctl[c].pc = "idle"
    /\ ctl' = [ctl EXCEPT ![c].pc = "create", ![c].next = "check"]
    /\ UNCHANGED <<id, server_status, seen, history_inputs, shown, serverVars>>

Reset(c) ==
    /\ server_status[c] \in Resets
    /\ ctl[c].pc = "idle"
    /\ SetStatus(c, "UNKNOWN")
    /\ seen' = [seen EXCEPT ![c].proto = "older"]
    /\ UNCHANGED <<id, history_inputs, ctl, shown, serverVars>>

\* ~Client: DeleteSession, whose result nobody looks at.
Destroy(c) ==
    /\ ctl[c].pc = "idle"
    /\ IF id[c] = 0
       THEN UNCHANGED <<server_status, seen, serverVars>>
       ELSE \E o \in Call(c, "DELETE_SESSION", id[c]) :
               /\ SetStatus(c, o.status)
               /\ SetSeen(c, o)
               /\ ServerAfter(o, "DELETE_SESSION")
    /\ ctl' = [ctl EXCEPT ![c].pc = "gone"]
    /\ UNCHANGED <<id, history_inputs, shown>>

\* The server dies between two calls.
Crash ==
    /\ server.up
    /\ crashes < MaxCrash
    /\ server' = Down
    /\ crashes' = crashes + 1
    /\ UNCHANGED <<clientVars, last_id, lost>>

\* A client that is not in Clients starts the server.
StartedByOther ==
    /\ ~server.up
    /\ server' = Fresh
    /\ UNCHANGED <<clientVars, last_id, crashes, lost>>

\* The server drops a session: CreateSession evicts it, or Cleanup does.
DropSession ==
    /\ lost < MaxLost
    /\ \E i \in DOMAIN server.sessions :
          server' = [server EXCEPT !.sessions =
                        [k \in DOMAIN @ \ {i} |-> @[k]]]
    /\ lost' = lost + 1
    /\ UNCHANGED <<clientVars, last_id, crashes>>

\* A client in the middle of an operation goes on.
Step(c) ==
    \/ EnsureSession(c)
    \/ CheckVersion(c)
    \/ Failed(c)
    \/ ShutdownServer(c)
    \/ ForceTerminateServer(c)
    \/ Relaunch(c)
    \/ FirstCall(c)
    \/ GiveUpHistory(c)
    \/ PlaybackHistory(c)
    \/ PlaybackDone(c)
    \/ SecondCall(c)

Next ==
    \/ \E c \in Clients :
          \/ Step(c)
          \/ \E in \in Inputs : EnsureCallCommand(c, in)
          \/ CallCommand(c)
          \/ CheckVersionOrRestartServer(c)
          \/ Reset(c)
          \/ Destroy(c)
    \/ Crash
    \/ StartedByOther
    \/ DropSession

Spec == Init /\ [][Next]_vars

\* An operation is not interrupted for ever, and the user keeps typing.
Fairness ==
    \A c \in Clients : /\ WF_vars(Step(c))
                       /\ WF_vars(\E in \in Inputs : EnsureCallCommand(c, in))

FairSpec == Spec /\ Fairness
-----------------------------------------------------------------------------
(***************************************************************************)
(* Properties                                                              *)
(***************************************************************************)
\* The history a client keeps always reproduces what its user has typed,
\* across every recovery, as long as it has not reached the maximal size.
HistoryReplays ==
    \A c \in Clients :
        ctl[c].pc = "idle" /\ Len(history_inputs[c]) < kMaxPlayBackSize
            => Replay(history_inputs[c]) = shown[c]

\* A playback that no fault cut short leaves the new session with exactly the
\* composition the user had before the old session was lost: no input is
\* missing, repeated or out of order, whatever else was lost before.
PlaybackRestores ==
    \A c \in Clients :
        (/\ ctl[c].pc = "second" /\ server_status[c] = "OK"
         /\ id[c] \in DOMAIN server.sessions)
            => server.sessions[id[c]] = shown[c]

\* EnsureConnection: "once the current status goes into SERVER_FATAL. do
\* nothing"; only Reset leaves it.
FatalStays ==
    [][\A c \in Clients :
          server_status[c] = "FATAL" /\ ~Reset(c)
              => server_status'[c] = "FATAL"]_vars

\* Every operation returns, whatever the server does meanwhile.
OperationsReturn ==
    \A c \in Clients : ctl[c].pc \notin {"idle", "gone"} ~> ctl[c].pc = "idle"

\* If the installed server is not outdated, a client whose user keeps typing
\* gets a working session again and again, or has told its user about a fatal
\* error, or is destroyed.
Recovers ==
    server.disk.proto = "same" =>
      \A c \in Clients :
        []<>(\/ server_status[c] = "FATAL"
             \/ ctl[c].pc = "gone"
             \/ /\ server_status[c] = "OK"
                /\ id[c] \in DOMAIN server.sessions)
=============================================================================
