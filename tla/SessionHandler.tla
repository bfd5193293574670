--------------------------- MODULE SessionHandler ---------------------------
(***************************************************************************)
(* The server's command loop: session/session_handler.cc with the          *)
(* configuration it keeps (config/config_handler.cc), the engine builder   *)
(* (engine/engine_builder.cc) and the learned user data of the engine, of  *)
(* which only "is there something unsaved" is kept.                        *)
(*                                                                         *)
(* One action per command type of EvalCommand.  The server evaluates one   *)
(* command at a time, so a command is one step; what happens beside it is  *)
(* the clock, the death of client processes, the preparator thread of the  *)
(* engine builder and the thread that saves the user history.              *)
(***************************************************************************)
EXTENDS Integers, FiniteSets, LruOrder

CONSTANTS
    SessionID,         \* what Util::GetRandomSequence may return, 0 excluded
    Process,           \* client processes
    NoProcess,         \* a client that sent no application_info
    Field,             \* the fields of config::Config
    PlatformField,     \* fields SetConfigInternal fills in when they are unset
    CommandField,      \* fields a command candidate changes (incognito_mode)
    Value,             \* values of a field
    PlatformDefault,   \* what SetConfigInternal fills in
    Unset,             \* an optional field that is not set
    Request,           \* values of commands::Request
    Word,              \* 2^64: uint64 arithmetic is modulo Word
    FLAGS_timeout,
    FLAGS_max_session_size,
    FLAGS_create_session_min_interval,
    FLAGS_watch_dog_interval,
    FLAGS_last_command_timeout,
    FLAGS_last_create_session_timeout,
    HasEngineBuilder,  \* whether the handler was given an engine builder
    TickSteps,         \* how far the clock may jump between two events
    MaxTime,           \* bound on the clock
    MaxEngine          \* bound on the engines built

ASSUME SessionHandlerAssumptions ==
    /\ IsFiniteSet(SessionID)
    /\ NoProcess \notin Process
    /\ Unset \notin Value
    /\ PlatformField \subseteq Field
    /\ CommandField \subseteq Field
    /\ PlatformField # {} => PlatformDefault \in Value
    /\ Word \in Nat \ {0}
    /\ FLAGS_timeout \in Int
    /\ FLAGS_max_session_size \in Int
    /\ FLAGS_create_session_min_interval \in Int
    /\ FLAGS_watch_dog_interval \in Int
    /\ FLAGS_last_command_timeout \in Int
    /\ FLAGS_last_create_session_timeout \in Int
    /\ HasEngineBuilder \in BOOLEAN
    /\ TickSteps \subseteq Nat \ {0}
    /\ MaxTime \in Nat
    /\ MaxEngine \in Nat

VARIABLES
    now,               \* Clock::GetTime()
    alive,             \* the client processes that have not terminated
    is_available,
    session_map,       \* session_map_: the sessions by id
    lru,               \* the LRU list of session_map_
    last_session_empty_time,
    last_cleanup_time,
    last_create_session_time,
    watch_dog_running,
    engine,            \* which engine engine_ holds, 0 for none
    preparator,        \* engine_builder_->preparator_
    updated,           \* updated_ of the user history, and its syncer
    stored_config,     \* ConfigHandler's stored_config_
    imposed_config,    \* ConfigHandler's imposed_config_
    config,            \* config_
    request            \* request_

clockVars  == <<now, alive>>
mapVars    == <<session_map, lru>>
timeVars   == <<last_session_empty_time, last_cleanup_time,
                last_create_session_time>>
engineVars == <<engine, preparator>>
configVars == <<stored_config, imposed_config, config, request>>

vars == <<clockVars, is_available, mapVars, timeVars, watch_dog_running,
          engineVars, updated, configVars>>

Sessions == DOMAIN session_map

-----------------------------------------------------------------------------
(***************************************************************************)
(* Numbers.  Times are uint64, so a difference of two times wraps.         *)
(***************************************************************************)
Clamp(x, lo, hi) == IF x < lo THEN lo ELSE IF x > hi THEN hi ELSE x

Since(t) == (now - t) % Word

max_session_size == Clamp(FLAGS_max_session_size, 2, 128)

create_session_minimum_interval ==
    Clamp(FLAGS_create_session_min_interval, 0, 10)

\* SessionWatchDog's interval()
interval == Clamp(FLAGS_watch_dog_interval, 1, 600)

-----------------------------------------------------------------------------
(***************************************************************************)
(* Configurations.  A config::Config gives every field a value or leaves   *)
(* it unset.                                                               *)
(***************************************************************************)
Config == [Field -> Value \cup {Unset}]

\* config::Config::MergeFrom: the fields set in other win.
MergeFrom(base, other) ==
    [f \in Field |-> IF other[f] = Unset THEN base[f] ELSE other[f]]

\* ConfigHandlerImpl::SetConfigInternal: what stored_config_ becomes.
SetConfigInternal(c) ==
    [f \in Field |-> IF f \in PlatformField /\ c[f] = Unset
                     THEN PlatformDefault ELSE c[f]]

-----------------------------------------------------------------------------
(***************************************************************************)
(* Sessions.  A session keeps the engine it was made with and, in its      *)
(* composer, converter and key map, what the last SetConfig told it.       *)
(***************************************************************************)
Session == [create_time : Nat, last_command_time : Nat,
            app : Process \cup {NoProcess}, engine : Nat,
            config : Config, request : Request]

SetConfig_ForgetsRequest(sessions, c, r) ==
    [id \in DOMAIN sessions |-> [sessions[id] EXCEPT !.config = c]]

\* SessionHandler::SetConfig: every session in the map is told.
SetConfig(sessions, c, r) ==
    [id \in DOMAIN sessions |->
        [sessions[id] EXCEPT !.config = c, !.request = r]]

IsApplicationAlive(s) == s.app = NoProcess \/ s.app \in alive

\* The user history of the engine: nothing to save, something learned that
\* was not tried to save yet, the syncer running, or a save that failed.
History == {"clean", "dirty", "saving", "failed"}

\* UserHistoryPredictor::Sync: AsyncSave starts a thread if there is
\* something to save and no thread is running.
Sync(u) == IF u \in {"dirty", "failed"} THEN "saving" ELSE u

\* WaitForSyncer: Save clears updated_ unless the file cannot be written.
WaitForSyncer(u) == IF u = "saving" THEN {"clean", "failed"} ELSE {u}

\* UserHistoryPredictor::Finish: dropped while the syncer is running.
Learn(u) == IF u = "saving" THEN u ELSE "dirty"

DeleteSessionID_NoTimestamp(gone) ==
    /\ session_map' = [id \in Sessions \ gone |-> session_map[id]]
    /\ lru' = EvictAll(lru, gone)
    /\ UNCHANGED last_session_empty_time

\* DeleteSessionID for the ids in gone, which are all in the map.
DeleteSessionID(gone) ==
    /\ session_map' = [id \in Sessions \ gone |-> session_map[id]]
    /\ lru' = EvictAll(lru, gone)
    /\ last_session_empty_time' =
          IF gone # {} /\ last_session_empty_time = 0 /\ Sessions \ gone = {}
          THEN now ELSE last_session_empty_time

-----------------------------------------------------------------------------
Init ==
    /\ now \in TickSteps
    /\ alive = Process
    /\ engine \in {0, 1}
    /\ is_available = (engine # 0)
    /\ session_map = [id \in {} |-> 0]
    /\ lru = {}
    /\ last_session_empty_time = now
    /\ last_cleanup_time = 0
    /\ last_create_session_time = 0
    /\ watch_dog_running = FALSE
    /\ preparator = "none"
    /\ updated = "clean"
    /\ stored_config = SetConfigInternal([f \in Field |-> Unset])
    /\ imposed_config = [f \in Field |-> Unset]
    /\ config = stored_config
    /\ request \in Request

-----------------------------------------------------------------------------
(***************************************************************************)
(* What happens beside the command loop.                                   *)
(***************************************************************************)
Tick ==
    /\ \E d \in TickSteps : now + d <= MaxTime /\ now' = now + d
    /\ UNCHANGED <<alive, is_available, mapVars, timeVars, watch_dog_running,
                   engineVars, updated, configVars>>

ProcessExits ==
    /\ \E p \in alive : alive' = alive \ {p}
    /\ UNCHANGED <<now, is_available, mapVars, timeVars, watch_dog_running,
                   engineVars, updated, configVars>>

\* Preparator::Run ends: the data was loaded, or it was missing, broken, of
\* another version, or could not be installed.
PreparatorEnds ==
    /\ preparator = "running"
    /\ preparator' \in {"RELOAD_READY", "FAILURE"}
    /\ UNCHANGED <<clockVars, is_available, mapVars, timeVars,
                   watch_dog_running, engine, updated, configVars>>

\* UserHistoryPredictorSyncer::Run ends.
SaverEnds ==
    /\ updated = "saving"
    /\ updated' \in WaitForSyncer(updated)
    /\ UNCHANGED <<clockVars, is_available, mapVars, timeVars,
                   watch_dog_running, engineVars, configVars>>

\* SessionServer starts the watch dog after it has connected.
StartWatchDog ==
    /\ ~watch_dog_running
    /\ watch_dog_running' = TRUE
    /\ UNCHANGED <<clockVars, is_available, mapVars, timeVars, engineVars,
                   updated, configVars>>

-----------------------------------------------------------------------------
(***************************************************************************)
(* CREATE_SESSION                                                          *)
(***************************************************************************)
\* "prevent DOS attack": CreateSession fails if it comes too early.
TooEarly ==
    /\ last_create_session_time # 0
    /\ Since(last_create_session_time) < create_session_minimum_interval

IsFull == Cardinality(Sessions) >= max_session_size

\* engine_builder_->HasResponse(), looked at only when no session is left.
HasResponse_AnySize(kept) ==
    HasEngineBuilder /\ preparator \notin {"none", "running"}
HasResponse(kept) ==
    /\ HasEngineBuilder
    /\ kept = {}
    /\ preparator \notin {"none", "running"}

CreateSession(app) ==
    LET oldest  == IF IsFull THEN {id \in Sessions : IsTail(lru, Sessions, id)}
                             ELSE {}
        kept    == Sessions \ oldest
        reply   == HasResponse(kept)
        replace == reply /\ preparator = "RELOAD_READY"
        eng     == IF replace THEN engine + 1 ELSE engine
        cfg     == MergeFrom(stored_config, imposed_config)
    IN  /\ is_available
        /\ ~TooEarly
        /\ last_create_session_time' = now
        /\ engine' = eng
        /\ preparator' = IF reply THEN "none" ELSE preparator
           \* ~UserHistoryPredictor waits for the syncer and saves
        /\ updated' = IF replace THEN "clean" ELSE updated
        /\ config' = cfg
        /\ \E id \in SessionID \ kept :
              LET new == [create_time |-> now, last_command_time |-> 0,
                          app |-> app, engine |-> eng,
                          config |-> cfg, request |-> request]
                  all == [k \in kept \cup {id} |->
                             IF k = id THEN new ELSE session_map[k]]
              IN  /\ session_map' = SetConfig(all, cfg, request)
                  /\ lru' = PushLRUHead(EvictAll(lru, oldest), kept, id)
        /\ last_session_empty_time' = 0
        /\ UNCHANGED <<clockVars, is_available, last_cleanup_time,
                       watch_dog_running, stored_config, imposed_config,
                       request>>

\* BuildFromPreparedData returned no engine: LOG(FATAL) ends the process
\* after the old engine is gone.
EngineReplaceFails ==
    /\ is_available
    /\ ~TooEarly
    /\ HasResponse(Sessions) /\ preparator = "RELOAD_READY"
    /\ last_create_session_time' = now
    /\ engine' = 0
    /\ updated' = "clean"
    /\ is_available' = FALSE
    /\ UNCHANGED <<clockVars, mapVars, last_session_empty_time,
                   last_cleanup_time, watch_dog_running, preparator,
                   configVars>>

-----------------------------------------------------------------------------
(***************************************************************************)
(* DELETE_SESSION, CLEANUP, SHUTDOWN, SYNC_DATA                            *)
(***************************************************************************)
DeleteSession_NoSync(id) ==
    /\ is_available
    /\ DeleteSessionID({id} \cap Sessions)
    /\ UNCHANGED <<clockVars, is_available, last_cleanup_time, updated,
                   last_create_session_time, watch_dog_running, engineVars,
                   configVars>>

DeleteSession(id) ==
    /\ is_available
    /\ DeleteSessionID({id} \cap Sessions)
    /\ updated' = Sync(updated)
    /\ UNCHANGED <<clockVars, is_available, last_cleanup_time,
                   last_create_session_time, watch_dog_running, engineVars,
                   configVars>>

suspend_time_Ignored == 0

\* The time the machine was suspended, as Cleanup guesses it.
suspend_time ==
    IF /\ last_cleanup_time # 0
       /\ watch_dog_running
       /\ Since(last_cleanup_time) > 2 * interval
    THEN (Since(last_cleanup_time) - interval) % Word
    ELSE 0

create_session_timeout ==
    (suspend_time + Clamp(FLAGS_last_create_session_timeout, 1, 600)) % Word

last_command_timeout ==
    (suspend_time + Clamp(FLAGS_last_command_timeout, 10, 7200)) % Word

ToBeRemoved_ByCreateTime(s) ==
    \/ ~IsApplicationAlive(s)
    \/ Since(s.create_time) >= create_session_timeout

\* Whether Cleanup puts the session into remove_ids.
ToBeRemoved(s) ==
    \/ ~IsApplicationAlive(s)
    \/ /\ s.last_command_time = 0
       /\ Since(s.create_time) >= create_session_timeout
    \/ /\ s.last_command_time # 0
       /\ Since(s.last_command_time) >= last_command_timeout

TimeoutPassed_NoEmptyCheck(empty_time) ==
    /\ FLAGS_timeout > 0
    /\ Since(empty_time) >= (suspend_time + FLAGS_timeout) % Word

\* Whether Cleanup calls Shutdown.
TimeoutPassed(empty_time) ==
    /\ FLAGS_timeout > 0
    /\ empty_time # 0
    /\ Since(empty_time) >= (suspend_time + FLAGS_timeout) % Word

Cleanup ==
    /\ is_available
    /\ DeleteSessionID({id \in Sessions : ToBeRemoved(session_map[id])})
    /\ updated' = Sync(updated)
    /\ is_available' = ~TimeoutPassed(last_session_empty_time')
    /\ last_cleanup_time' = now
    /\ UNCHANGED <<clockVars, last_create_session_time, watch_dog_running,
                   engineVars, configVars>>

SyncData ==
    /\ is_available
    /\ updated' = Sync(updated)
    /\ UNCHANGED <<clockVars, is_available, mapVars, timeVars,
                   watch_dog_running, engineVars, configVars>>

Shutdown ==
    /\ is_available
    /\ updated' = Sync(updated)
    /\ is_available' = FALSE
    /\ UNCHANGED <<clockVars, mapVars, timeVars, watch_dog_running,
                   engineVars, configVars>>

\* ClearAllHistory waits for the syncer, empties the history and saves it.
ClearUserPrediction ==
    /\ is_available
    /\ updated' = "saving"
    /\ UNCHANGED <<clockVars, is_available, mapVars, timeVars,
                   watch_dog_running, engineVars, configVars>>

\* ClearUnusedHistory waits for the syncer, does nothing more if there is no
\* history at all, and saves otherwise.
ClearUnusedUserPrediction ==
    /\ is_available
    /\ updated' \in {"saving"} \cup WaitForSyncer(updated)
    /\ UNCHANGED <<clockVars, is_available, mapVars, timeVars,
                   watch_dog_running, engineVars, configVars>>

-----------------------------------------------------------------------------
(***************************************************************************)
(* SEND_KEY, TEST_SEND_KEY, SEND_COMMAND.  A command for an id that is not *)
(* in the map fails and changes nothing.                                   *)
(***************************************************************************)
\* MutableLookup moves the session to the head, Session::UpdateTime.
Used(id) == [session_map EXCEPT ![id].last_command_time = now]

\* MaybeUpdateStoredConfig: the output carries a whole config only when a
\* command candidate was committed: the session's config with one field
\* changed.  It is stored, and Reload reads back the merged config.
MaybeUpdateStoredConfig(sessions) ==
    \/ /\ session_map' = sessions
       /\ UNCHANGED <<stored_config, config>>
    \/ \E f \in CommandField, v \in Value :
          LET stored == SetConfigInternal([config EXCEPT ![f] = v])
              merged == MergeFrom(stored, imposed_config)
          IN  /\ stored_config' = stored
              /\ config' = merged
              /\ session_map' = SetConfig(sessions, merged, request)

SendKey(id) ==
    /\ is_available
    /\ id \in Sessions
    /\ MaybeUpdateStoredConfig(Used(id))
    /\ lru' = PushLRUHead(lru, Sessions, id)
    /\ updated' \in {updated, Learn(updated)}
    /\ UNCHANGED <<clockVars, is_available, timeVars, watch_dog_running,
                   engineVars, imposed_config, request>>

TestSendKey(id) ==
    /\ is_available
    /\ id \in Sessions
    /\ session_map' = Used(id)
    /\ lru' = PushLRUHead(lru, Sessions, id)
    /\ UNCHANGED <<clockVars, is_available, timeVars, watch_dog_running,
                   engineVars, updated, configVars>>

SendCommand(id) ==
    /\ is_available
    /\ id \in Sessions
    /\ MaybeUpdateStoredConfig(Used(id))
    /\ lru' = PushLRUHead(lru, Sessions, id)
    /\ updated' \in {updated, Learn(updated)}
    /\ UNCHANGED <<clockVars, is_available, timeVars, watch_dog_running,
                   engineVars, imposed_config, request>>

-----------------------------------------------------------------------------
(***************************************************************************)
(* GET_CONFIG, SET_CONFIG, SET_IMPOSED_CONFIG, SET_REQUEST, RELOAD         *)
(***************************************************************************)
\* SetConfig(c) once stored, imposed and r are in place.
Reconfigure(c, r) ==
    /\ config' = c
    /\ request' = r
    /\ session_map' = SetConfig(session_map, c, r)
    /\ UNCHANGED <<clockVars, is_available, lru, timeVars, watch_dog_running,
                   engineVars, updated>>

GetStoredConfig ==
    /\ is_available
    /\ Reconfigure(stored_config, request)
    /\ UNCHANGED <<stored_config, imposed_config>>

SetStoredConfig(c) ==
    /\ is_available
    /\ stored_config' = SetConfigInternal(c)
    /\ Reconfigure(MergeFrom(stored_config', imposed_config), request)
    /\ UNCHANGED imposed_config

SetImposedConfig_NoReload(c) ==
    /\ is_available
    /\ imposed_config' = c
    /\ UNCHANGED <<clockVars, is_available, mapVars, timeVars,
                   watch_dog_running, engineVars, updated, stored_config,
                   config, request>>

SetImposedConfig(c) ==
    /\ is_available
    /\ imposed_config' = c
    /\ Reconfigure(MergeFrom(stored_config, imposed_config'), request)
    /\ UNCHANGED stored_config

SetRequest(r) ==
    /\ is_available
    /\ Reconfigure(MergeFrom(stored_config, imposed_config), r)
    /\ UNCHANGED <<stored_config, imposed_config>>

Reload ==
    /\ is_available
    /\ Reconfigure(MergeFrom(stored_config, imposed_config), request)
    /\ UNCHANGED <<stored_config, imposed_config>>

-----------------------------------------------------------------------------
(***************************************************************************)
(* SEND_ENGINE_RELOAD_REQUEST.  PrepareAsync refuses while the previous    *)
(* preparator runs (ALREADY_RUNNING) and discards what it left otherwise.  *)
(***************************************************************************)
SendEngineReloadRequest ==
    /\ is_available
    /\ HasEngineBuilder
    /\ engine < MaxEngine
    /\ preparator # "running"
    /\ preparator' = "running"
    /\ UNCHANGED <<clockVars, is_available, mapVars, timeVars,
                   watch_dog_running, engine, updated, configVars>>

-----------------------------------------------------------------------------
EvalCommand ==
    \/ \E app \in alive \cup {NoProcess} : CreateSession(app)
    \/ EngineReplaceFails
    \/ \E id \in SessionID : DeleteSession(id)
    \/ Cleanup
    \/ SyncData
    \/ Shutdown
    \/ ClearUserPrediction
    \/ ClearUnusedUserPrediction
    \/ \E id \in SessionID : SendKey(id)
    \/ \E id \in SessionID : TestSendKey(id)
    \/ \E id \in SessionID : SendCommand(id)
    \/ GetStoredConfig
    \/ \E c \in Config : SetStoredConfig(c)
    \/ \E c \in Config : SetImposedConfig(c)
    \/ \E r \in Request : SetRequest(r)
    \/ Reload
    \/ SendEngineReloadRequest

Environment == Tick \/ ProcessExits \/ PreparatorEnds \/ SaverEnds
               \/ StartWatchDog

Next == EvalCommand \/ Environment

Spec == Init /\ [][Next]_vars
-----------------------------------------------------------------------------
(***************************************************************************)
(* Properties                                                              *)
(***************************************************************************)
\* The variables have the types of the members of SessionHandler.
TypeOK ==
    /\ now \in Nat \ {0}
    /\ alive \subseteq Process
    /\ is_available \in BOOLEAN
    /\ Sessions \subseteq SessionID
    /\ session_map \in [Sessions -> Session]
    /\ IsLruOrder(lru, Sessions)
    /\ last_session_empty_time \in Nat
    /\ last_cleanup_time \in Nat
    /\ last_create_session_time \in Nat
    /\ watch_dog_running \in BOOLEAN
    /\ engine \in Nat
    /\ preparator \in {"none", "running", "RELOAD_READY", "FAILURE"}
    /\ updated \in History
    /\ stored_config \in Config
    /\ imposed_config \in Config
    /\ config \in Config
    /\ request \in Request

\* last_session_empty_time_, from which Cleanup decides to shut the server
\* down, is set exactly while there is no session: CreateSession clears it,
\* the deletion of the last session (by a client or by Cleanup) sets it, and
\* the eviction in CreateSession needs not to.
EmptyTimeMatchesMap == (last_session_empty_time # 0) <=> (Sessions = {})

\* No session outlives the engine it points to: CreateSession replaces
\* engine_ only when no session is left, whatever the preparator thread does
\* meanwhile.
EngineInUse == \A id \in Sessions : session_map[id].engine = engine

\* Whenever there is no session, or the server has stopped serving, nothing
\* the engine learned waits for a first attempt to save it: every way to lose
\* the last session syncs after it, and so does Shutdown.
NothingUnsaved == (Sessions = {} \/ ~is_available) => updated # "dirty"

\* Every session works with the current config_ and request_: each command
\* that changes one of them, and CreateSession, tells all sessions.
SessionsTold ==
    \A id \in Sessions : /\ session_map[id].config = config
                         /\ session_map[id].request = request

\* config_ is never out of date: it is what ConfigHandler stores, or that
\* merged with the imposed config, whichever command came last.
ConfigCurrent ==
    config \in {stored_config, MergeFrom(stored_config, imposed_config)}

LastUse(s) == IF s.last_command_time = 0 THEN s.create_time
                                         ELSE s.last_command_time

EvictsOldest ==
    (\E app \in alive \cup {NoProcess} : CreateSession(app)) =>
        /\ Cardinality(DOMAIN session_map') <= max_session_size
        /\ \A a \in Sessions \ DOMAIN session_map', b \in Sessions :
              LastUse(session_map[a]) <= LastUse(session_map[b])

\* The session CreateSession evicts from a full map is one that no other
\* session was idle longer than, and the map then has room for the new one:
\* Insert never evicts an element whose session would leak.
EvictsLeastRecentlyUsed == [][EvictsOldest]_vars

RemovedByRule(s) ==
    \/ s.app \in Process \ alive
    \/ /\ s.last_command_time = 0
       /\ now - s.create_time >= Clamp(FLAGS_last_create_session_timeout, 1, 600)
    \/ /\ s.last_command_time # 0
       /\ now - s.last_command_time >= Clamp(FLAGS_last_command_timeout, 10, 7200)

RemovesByRules ==
    Cleanup => \A id \in Sessions \ DOMAIN session_map' : RemovedByRule(session_map[id])

\* Cleanup removes a session only by its rules (a), (b) and (c): idle for
\* the command timeout, never used for the creation timeout, or its
\* application is gone.
CleanupRules == [][RemovesByRules]_vars

ShutsDownIdle ==
    Cleanup /\ ~is_available' =>
        /\ Sessions = {}
        /\ FLAGS_timeout > 0
        /\ now - last_session_empty_time >= FLAGS_timeout

\* Cleanup shuts the server down only after FLAGS_timeout seconds without a
\* session.
CleanupShutdown == [][ShutsDownIdle]_vars

\* Stated by config/config_handler.h: the imposed config is never saved.  A
\* command candidate, which only sets fields of its own, leaves the other
\* stored fields alone.  MaybeUpdateStoredConfig breaks it.
ImposedNeverSaved ==
    [][(\E id \in SessionID : SendKey(id) \/ SendCommand(id)) =>
          \A f \in Field \ CommandField :
              stored_config'[f] = stored_config[f]]_vars
=============================================================================
