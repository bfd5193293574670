------------------------ MODULE SessionHandlerProofs ------------------------
(***************************************************************************)
(* Proofs about SessionHandler, for every number of sessions, processes,   *)
(* fields and requests, every setting of the flags and every bound; then   *)
(* about SessionWatchDog, which calls it and relies on its invariants.     *)
(***************************************************************************)
EXTENDS SessionWatchDog, FiniteSetTheorems, TLAPS

\* Nearly every leaf is first-order reasoning about named facts; the ones with
\* arithmetic or records to compute cite SMT.
USE ZenonT(30)

\* What SetConfigInternal, MergeFrom and a changed field make of configs.
LEMMA ConfigTypes ==
    /\ \A c \in Config : SetConfigInternal(c) \in Config
    /\ \A c, d \in Config : MergeFrom(c, d) \in Config
    /\ \A c \in Config, f \in Field, v \in Value : [c EXCEPT ![f] = v] \in Config
BY SessionHandlerAssumptions DEF Config, SetConfigInternal, MergeFrom

\* SetConfig tells every session and changes nothing else.
LEMMA SetConfigFacts ==
    ASSUME NEW S, NEW sessions \in [S -> Session], NEW c \in Config,
           NEW r \in Request
    PROVE  /\ SetConfig(sessions, c, r) \in [S -> Session]
           /\ \A id \in S :
                 LET t == SetConfig(sessions, c, r)[id]
                 IN  /\ t.engine = sessions[id].engine
                     /\ t.app = sessions[id].app
                     /\ t.create_time = sessions[id].create_time
                     /\ t.last_command_time = sessions[id].last_command_time
                     /\ t.config = c
                     /\ t.request = r
BY DEF SetConfig, Session

\* The operations on the LRU list keep it a strict total order on the keys.
LEMMA PushLRUHeadOrder ==
    ASSUME NEW keys, NEW order, NEW key, IsLruOrder(order, keys)
    PROVE  IsLruOrder(PushLRUHead(order, keys, key), keys \cup {key})
BY SMT DEF IsLruOrder, PushLRUHead

\* Eviction keeps the order of the rest.
LEMMA EvictAllOrder ==
    ASSUME NEW keys, NEW order, NEW gone, IsLruOrder(order, keys)
    PROVE  IsLruOrder(EvictAll(order, gone), keys \ gone)
BY DEF IsLruOrder, EvictAll

-----------------------------------------------------------------------------
(***************************************************************************)
(* The inductive invariant.  EmptyTimeMatchesMap needs only TypeOK;        *)
(* NothingUnsaved needs the same case analysis on who removed the last     *)
(* session; SessionsTold and EngineInUse need TypeOK for the shape of the  *)
(* sessions.                                                               *)
(***************************************************************************)
Inv == TypeOK /\ EmptyTimeMatchesMap /\ EngineInUse /\ NothingUnsaved
       /\ SessionsTold /\ ConfigCurrent

\* A server starts without sessions and with the config of the file.
LEMMA InvInit == Init => Inv
<1> SUFFICES ASSUME Init PROVE Inv
  OBVIOUS
<1>1. [f \in Field |-> Unset] \in Config
  BY DEF Config
<1>2. stored_config \in Config
  BY <1>1, ConfigTypes DEF Init
<1>3. Sessions = {}
  BY DEF Init, Sessions
<1>4. IsLruOrder(lru, Sessions)
  BY <1>3 DEF Init, IsLruOrder
<1>5. session_map \in [Sessions -> Session]
  BY <1>3 DEF Init, Sessions
<1>6. is_available \in BOOLEAN /\ watch_dog_running \in BOOLEAN
  BY DEF Init
<1>7. TypeOK
  BY SMT, <1>1, <1>2, <1>3, <1>4, <1>5, <1>6, SessionHandlerAssumptions
  DEF Init, TypeOK, History
<1> QED
  BY <1>3, <1>7, SessionHandlerAssumptions
  DEF Init, Inv, TypeOK, EmptyTimeMatchesMap, EngineInUse, NothingUnsaved,
      SessionsTold, ConfigCurrent

\* DeleteSessionID keeps what the map, its order and the empty time have in
\* common.
LEMMA DeleteSessionIDStep ==
    ASSUME Inv, NEW gone \in SUBSET Sessions, DeleteSessionID(gone)
    PROVE  /\ Sessions' = Sessions \ gone
           /\ session_map' \in [Sessions' -> Session]
           /\ \A id \in Sessions' : session_map'[id] = session_map[id]
           /\ IsLruOrder(lru', Sessions')
           /\ last_session_empty_time' \in Nat
           /\ EmptyTimeMatchesMap'
<1>1. Sessions' = Sessions \ gone
  BY DEF DeleteSessionID, Sessions
<1>2. /\ session_map' \in [Sessions' -> Session]
      /\ \A id \in Sessions' : session_map'[id] = session_map[id]
  BY <1>1 DEF DeleteSessionID, Inv, TypeOK
<1>3. IsLruOrder(lru', Sessions')
  BY <1>1, EvictAllOrder DEF DeleteSessionID, Inv, TypeOK
<1>4. last_session_empty_time' \in Nat
  BY DEF DeleteSessionID, Inv, TypeOK
<1>5. EmptyTimeMatchesMap'
  <2>1. last_session_empty_time' =
          IF gone # {} /\ last_session_empty_time = 0 /\ Sessions \ gone = {}
          THEN now ELSE last_session_empty_time
    BY DEF DeleteSessionID
  <2>2. now # 0 /\ (last_session_empty_time # 0 <=> Sessions = {})
    BY DEF Inv, TypeOK, EmptyTimeMatchesMap
  <2>3. last_session_empty_time' # 0 <=> Sessions \ gone = {}
    BY <2>1, <2>2
  <2> QED
    BY <2>3, <1>1 DEF EmptyTimeMatchesMap
<1> QED
  BY <1>1, <1>2, <1>3, <1>4, <1>5

\* A step that leaves the sessions, the engine and the configs alone.
LEMMA QuietStep ==
    ASSUME Inv,
           UNCHANGED <<mapVars, last_session_empty_time, engine, configVars>>,
           now' \in Nat \ {0}, alive' \subseteq Process,
           is_available' \in BOOLEAN, watch_dog_running' \in BOOLEAN,
           last_cleanup_time' \in Nat, last_create_session_time' \in Nat,
           preparator' \in {"none", "running", "RELOAD_READY", "FAILURE"},
           updated' \in History,
           (Sessions = {} \/ ~is_available') => updated' # "dirty"
    PROVE  Inv'
<1>1. Sessions' = Sessions
  BY DEF mapVars, Sessions
<1>2. TypeOK'
  BY <1>1 DEF Inv, TypeOK, mapVars, configVars, Config, Session
<1>3. EmptyTimeMatchesMap' /\ EngineInUse' /\ SessionsTold' /\ ConfigCurrent'
  BY <1>1 DEF Inv, mapVars, configVars, EmptyTimeMatchesMap, EngineInUse,
              SessionsTold, ConfigCurrent, MergeFrom
<1>4. NothingUnsaved'
  BY <1>1 DEF NothingUnsaved
<1> QED
  BY <1>2, <1>3, <1>4 DEF Inv

\* A step after which all sessions have been told the config c and the
\* request r, and which leaves the ids, the engine and the times alone.
LEMMA ToldStep ==
    ASSUME Inv,
           NEW sessions \in [Sessions -> Session],
           \A id \in Sessions : sessions[id].engine = session_map[id].engine,
           NEW c \in Config, NEW r \in Request,
           session_map' = SetConfig(sessions, c, r),
           IsLruOrder(lru', Sessions),
           config' = c, request' = r,
           stored_config' \in Config, imposed_config' \in Config,
           c \in {stored_config', MergeFrom(stored_config', imposed_config')},
           updated' \in History, is_available,
           Sessions = {} => updated' # "dirty",
           UNCHANGED <<clockVars, is_available, timeVars, watch_dog_running,
                       engineVars>>
    PROVE  Inv'
<1>1. Sessions' = Sessions
  BY DEF SetConfig, Sessions
<1>2. /\ session_map' \in [Sessions -> Session]
      /\ \A id \in Sessions : /\ session_map'[id].engine = session_map[id].engine
                              /\ session_map'[id].config = c
                              /\ session_map'[id].request = r
  BY SMT, SetConfigFacts
<1>3. TypeOK'
  BY <1>1, <1>2
  DEF Inv, TypeOK, clockVars, timeVars, engineVars, Config, Session
<1>4. EmptyTimeMatchesMap' /\ EngineInUse' /\ SessionsTold'
  BY <1>1, <1>2
  DEF Inv, timeVars, engineVars, EmptyTimeMatchesMap, EngineInUse, SessionsTold
<1>5. ConfigCurrent'
  BY DEF ConfigCurrent, MergeFrom
<1>6. NothingUnsaved'
  BY <1>1 DEF NothingUnsaved
<1> QED
  BY <1>3, <1>4, <1>5, <1>6 DEF Inv

\* CREATE_SESSION keeps the invariant, with and without an eviction and a
\* replacement of the engine.
LEMMA CreateSessionStep ==
    ASSUME Inv, NEW app \in Process \cup {NoProcess}, CreateSession(app)
    PROVE  Inv'
<1> DEFINE oldest  == IF IsFull
                      THEN {id \in Sessions : IsTail(lru, Sessions, id)} ELSE {}
           kept    == Sessions \ oldest
           replace == HasResponse(kept) /\ preparator = "RELOAD_READY"
           eng     == IF replace THEN engine + 1 ELSE engine
           cfg     == MergeFrom(stored_config, imposed_config)
<1>1. /\ engine' = eng
      /\ preparator' = IF HasResponse(kept) THEN "none" ELSE preparator
      /\ updated' = IF replace THEN "clean" ELSE updated
      /\ config' = cfg
      /\ last_create_session_time' = now
      /\ last_session_empty_time' = 0
      /\ is_available
      /\ UNCHANGED <<clockVars, is_available, last_cleanup_time,
                     watch_dog_running, stored_config, imposed_config, request>>
  BY DEF CreateSession
<1>2. PICK id \in SessionID \ kept :
         LET new == [create_time |-> now, last_command_time |-> 0,
                     app |-> app, engine |-> eng,
                     config |-> cfg, request |-> request]
             all == [k \in kept \cup {id} |->
                        IF k = id THEN new ELSE session_map[k]]
         IN  /\ session_map' = SetConfig(all, cfg, request)
             /\ lru' = PushLRUHead(EvictAll(lru, oldest), kept, id)
  BY DEF CreateSession
<1> DEFINE new == [create_time |-> now, last_command_time |-> 0,
                   app |-> app, engine |-> eng,
                   config |-> cfg, request |-> request]
           all == [k \in kept \cup {id} |->
                      IF k = id THEN new ELSE session_map[k]]
<1>3. cfg \in Config /\ request \in Request /\ eng \in Nat
  BY SMT, ConfigTypes DEF Inv, TypeOK
<1>4. new \in Session
  BY <1>3 DEF Inv, TypeOK, Session
<1>5. all \in [kept \cup {id} -> Session]
  <2>1. \A k \in kept : session_map[k] \in Session
    BY DEF Inv, TypeOK
  <2> QED
    BY <1>4, <2>1
<1>6. \A k \in kept \cup {id} : all[k].engine = eng
  <2>1. all[id].engine = eng
    OBVIOUS
  <2>2. ASSUME NEW k \in kept PROVE all[k].engine = eng
    <3>1. k # id /\ all[k] = session_map[k]
      BY <1>2, <2>2
    <3>2. ~replace
      BY <2>2 DEF HasResponse
    <3> QED
      BY <3>1, <3>2 DEF Inv, EngineInUse
  <2> QED
    BY <2>1, <2>2
<1>7. Sessions' = kept \cup {id}
  BY <1>2 DEF SetConfig, Sessions
<1>8. /\ session_map' \in [Sessions' -> Session]
      /\ \A k \in Sessions' : /\ session_map'[k].engine = eng
                              /\ session_map'[k].config = cfg
                              /\ session_map'[k].request = request
  <2>1. session_map' = SetConfig(all, cfg, request)
    BY <1>2
  <2> HIDE DEF all, cfg, eng, kept
  <2> QED
    BY SMT, <2>1, <1>3, <1>5, <1>6, <1>7, SetConfigFacts
<1>9. IsLruOrder(lru', Sessions')
  BY <1>2, <1>7, EvictAllOrder, PushLRUHeadOrder DEF Inv, TypeOK
<1>10. TypeOK'
  <2>1. alive' \subseteq Process /\ Sessions' \subseteq SessionID
    BY <1>1, <1>7 DEF Inv, TypeOK, clockVars
  <2>2. is_available' \in BOOLEAN /\ watch_dog_running' \in BOOLEAN
    BY <1>1 DEF Inv, TypeOK
  <2>3. engine' \in Nat /\ config' \in Config
    BY <1>1, <1>3
  <2> HIDE DEF kept, eng, cfg, replace
  <2> QED
    BY <1>1, <1>8, <1>9, <2>1, <2>2, <2>3
    DEF Inv, TypeOK, clockVars, Config, Session, History
<1>11. EmptyTimeMatchesMap'
  BY <1>1, <1>7 DEF EmptyTimeMatchesMap
<1>12. EngineInUse' /\ SessionsTold'
  BY <1>1, <1>8 DEF EngineInUse, SessionsTold
<1>13. NothingUnsaved'
  BY <1>1, <1>7 DEF NothingUnsaved
<1>14. ConfigCurrent'
  BY <1>1 DEF ConfigCurrent, MergeFrom
<1> QED
  BY <1>10, <1>11, <1>12, <1>13, <1>14 DEF Inv

\* DELETE_SESSION and CLEANUP delete sessions and then sync the user data.
LEMMA DeletionStep ==
    ASSUME Inv, NEW gone \in SUBSET Sessions, DeleteSessionID(gone),
           updated' = Sync(updated),
           is_available' \in BOOLEAN,
           last_cleanup_time' \in Nat,
           UNCHANGED <<clockVars, last_create_session_time, watch_dog_running,
                       engineVars, configVars>>
    PROVE  Inv'
<1>1. /\ Sessions' = Sessions \ gone
      /\ session_map' \in [Sessions' -> Session]
      /\ \A id \in Sessions' : session_map'[id] = session_map[id]
      /\ IsLruOrder(lru', Sessions')
      /\ last_session_empty_time' \in Nat
      /\ EmptyTimeMatchesMap'
  BY DeleteSessionIDStep
<1>2. updated' \in {"clean", "saving"}
  BY DEF Inv, TypeOK, Sync, History
<1>3. TypeOK'
  BY <1>1, <1>2
  DEF Inv, TypeOK, clockVars, engineVars, configVars, Config, Session, History
<1>4. EngineInUse' /\ SessionsTold'
  BY <1>1 DEF Inv, EngineInUse, SessionsTold, engineVars, configVars
<1>5. NothingUnsaved'
  BY <1>2 DEF NothingUnsaved
<1>6. ConfigCurrent'
  BY DEF Inv, ConfigCurrent, MergeFrom, configVars
<1> QED
  BY <1>1, <1>3, <1>4, <1>5, <1>6 DEF Inv

\* SEND_KEY and SEND_COMMAND keep the invariant, whether or not they end in
\* a changed config.
LEMMA UseStep ==
    ASSUME Inv, NEW id \in Sessions, is_available,
           MaybeUpdateStoredConfig(Used(id)),
           lru' = PushLRUHead(lru, Sessions, id),
           updated' \in {updated, Learn(updated)},
           UNCHANGED <<clockVars, is_available, timeVars, watch_dog_running,
                       engineVars, imposed_config, request>>
    PROVE  Inv'
<1>1. /\ Used(id) \in [Sessions -> Session]
      /\ \A k \in Sessions : /\ Used(id)[k].engine = session_map[k].engine
                             /\ Used(id)[k].config = session_map[k].config
                             /\ Used(id)[k].request = session_map[k].request
  BY DEF Used, Inv, TypeOK, Session
<1>2. IsLruOrder(lru', Sessions)
  <2>1. Sessions \cup {id} = Sessions
    OBVIOUS
  <2> QED
    BY SMT, <2>1, PushLRUHeadOrder DEF Inv, TypeOK
<1>3. updated' \in History
  BY DEF Learn, Inv, TypeOK, History
<1>4. Sessions # {}
  OBVIOUS
<1>5. CASE session_map' = Used(id) /\ UNCHANGED <<stored_config, config>>
  <2>1. Sessions' = Sessions
    BY <1>1, <1>5 DEF Sessions
  <2>2. TypeOK'
    BY <1>1, <1>2, <1>3, <1>5, <2>1
    DEF Inv, TypeOK, clockVars, timeVars, engineVars, Config, Session
  <2>3. EmptyTimeMatchesMap' /\ EngineInUse' /\ SessionsTold'
    BY <1>1, <1>5, <2>1
    DEF Inv, timeVars, engineVars, EmptyTimeMatchesMap, EngineInUse, SessionsTold
  <2>4. ConfigCurrent'
    BY <1>5 DEF Inv, ConfigCurrent, MergeFrom
  <2>5. NothingUnsaved'
    BY <1>4, <2>1 DEF NothingUnsaved
  <2> QED
    BY <2>2, <2>3, <2>4, <2>5 DEF Inv
<1>6. ASSUME NEW f \in CommandField, NEW v \in Value,
             LET stored == SetConfigInternal([config EXCEPT ![f] = v])
                 merged == MergeFrom(stored, imposed_config)
             IN  /\ stored_config' = stored
                 /\ config' = merged
                 /\ session_map' = SetConfig(Used(id), merged, request)
      PROVE  Inv'
  <2> DEFINE merged == MergeFrom(stored_config', imposed_config)
  <2>1. stored_config' \in Config
    BY <1>6, ConfigTypes, SessionHandlerAssumptions DEF Inv, TypeOK
  <2>2. merged \in Config
    BY <2>1, ConfigTypes DEF Inv, TypeOK
  <2>3. /\ config' = merged
        /\ session_map' = SetConfig(Used(id), merged, request)
        /\ imposed_config' = imposed_config
        /\ request' = request
    BY <1>6
  <2>4. merged = MergeFrom(stored_config', imposed_config')
    BY <2>3
  <2>5. request \in Request /\ imposed_config' \in Config
    BY <2>3 DEF Inv, TypeOK
  <2> HIDE DEF merged
  <2> QED
    BY <1>1, <1>2, <1>3, <1>4, <2>1, <2>2, <2>3, <2>4, <2>5, ToldStep
<1> QED
  BY <1>5, <1>6 DEF MaybeUpdateStoredConfig

\* The config commands keep the invariant.
LEMMA ReconfigureStep ==
    ASSUME Inv, is_available, NEW c \in Config, NEW r \in Request,
           Reconfigure(c, r),
           stored_config' \in Config, imposed_config' \in Config,
           c \in {stored_config', MergeFrom(stored_config', imposed_config')}
    PROVE  Inv'
<1>1. IsLruOrder(lru', Sessions) /\ updated' = updated
  BY DEF Reconfigure, Inv, TypeOK
<1>2. Sessions = {} => updated' # "dirty"
  BY <1>1 DEF Inv, NothingUnsaved
<1>3. session_map \in [Sessions -> Session] /\ updated' \in History
  BY <1>1 DEF Inv, TypeOK
<1> QED
  BY <1>1, <1>2, <1>3, ToldStep DEF Reconfigure

\* Every command, and every step of a thread beside it, keeps the invariant.
LEMMA InvNext == Inv /\ [Next]_vars => Inv'
<1> SUFFICES ASSUME Inv, [Next]_vars PROVE Inv'
  OBVIOUS
<1> USE DEF clockVars, timeVars, engineVars
<1>1. ASSUME NEW app \in alive \cup {NoProcess}, CreateSession(app) PROVE Inv'
  BY <1>1, CreateSessionStep DEF Inv, TypeOK
<1>2. CASE EngineReplaceFails
  <2>1. Sessions = {} /\ Sessions' = Sessions
    BY <1>2 DEF EngineReplaceFails, HasResponse, mapVars, Sessions
  <2>2. TypeOK'
    BY <1>2, <2>1
    DEF EngineReplaceFails, Inv, TypeOK, mapVars, configVars, Config, Session, History
  <2>3. EmptyTimeMatchesMap' /\ EngineInUse' /\ SessionsTold'
    BY <1>2, <2>1
    DEF EngineReplaceFails, Inv, EmptyTimeMatchesMap, EngineInUse, SessionsTold
  <2>4. NothingUnsaved' /\ ConfigCurrent'
    BY <1>2
    DEF EngineReplaceFails, Inv, NothingUnsaved, ConfigCurrent, MergeFrom,
        configVars
  <2> QED
    BY <2>2, <2>3, <2>4 DEF Inv
<1>3. ASSUME NEW id \in SessionID, DeleteSession(id) PROVE Inv'
  <2>1. /\ {id} \cap Sessions \in SUBSET Sessions
        /\ last_cleanup_time' \in Nat /\ is_available' \in BOOLEAN
    BY <1>3 DEF DeleteSession, Inv, TypeOK
  <2> QED
    BY <1>3, <2>1, DeletionStep DEF DeleteSession
<1>4. CASE Cleanup
  <2> DEFINE gone == {id \in Sessions : ToBeRemoved(session_map[id])}
  <2>1. last_cleanup_time' \in Nat
    BY <1>4 DEF Cleanup, Inv, TypeOK
  <2>2. is_available' \in BOOLEAN
    BY <1>4 DEF Cleanup
  <2>3. DeleteSessionID(gone) /\ gone \in SUBSET Sessions
    BY <1>4 DEF Cleanup
  <2> HIDE DEF gone
  <2> QED
    BY <1>4, <2>1, <2>2, <2>3, DeletionStep DEF Cleanup
<1>5. CASE SyncData
  BY <1>5, QuietStep DEF SyncData, Sync, Inv, TypeOK, History
<1>6. CASE Shutdown
  BY <1>6, QuietStep DEF Shutdown, Sync, Inv, TypeOK, History
<1>7. CASE ClearUserPrediction
  BY <1>7, QuietStep DEF ClearUserPrediction, Inv, TypeOK, History
<1>8. CASE ClearUnusedUserPrediction
  <2>1. updated' \in History \ {"dirty"} \/ updated' = updated
    BY <1>8 DEF ClearUnusedUserPrediction, WaitForSyncer, History
  <2>2. (Sessions = {} \/ ~is_available') => updated' # "dirty"
    BY <1>8, <2>1 DEF ClearUnusedUserPrediction, Inv, NothingUnsaved
  <2> QED
    BY <1>8, <2>1, <2>2, QuietStep DEF ClearUnusedUserPrediction, Inv, TypeOK
<1>9. ASSUME NEW id \in SessionID, SendKey(id) PROVE Inv'
  BY <1>9, UseStep DEF SendKey
<1>10. ASSUME NEW id \in SessionID, TestSendKey(id) PROVE Inv'
  <2>1. MaybeUpdateStoredConfig(Used(id))
    BY <1>10 DEF TestSendKey, MaybeUpdateStoredConfig, configVars
  <2> QED
    BY <1>10, <2>1, UseStep DEF TestSendKey, configVars
<1>11. ASSUME NEW id \in SessionID, SendCommand(id) PROVE Inv'
  BY <1>11, UseStep DEF SendCommand
<1>12. CASE GetStoredConfig
  BY <1>12, ReconfigureStep DEF GetStoredConfig, Inv, TypeOK
<1>13. ASSUME NEW c \in Config, SetStoredConfig(c) PROVE Inv'
  BY <1>13, ReconfigureStep, ConfigTypes DEF SetStoredConfig, Inv, TypeOK
<1>14. ASSUME NEW c \in Config, SetImposedConfig(c) PROVE Inv'
  BY <1>14, ReconfigureStep, ConfigTypes DEF SetImposedConfig, Inv, TypeOK
<1>15. ASSUME NEW r \in Request, SetRequest(r) PROVE Inv'
  BY <1>15, ReconfigureStep, ConfigTypes DEF SetRequest, Inv, TypeOK
<1>16. CASE Reload
  BY <1>16, ReconfigureStep, ConfigTypes DEF Reload, Inv, TypeOK
<1>17. CASE SendEngineReloadRequest
  BY <1>17, QuietStep DEF SendEngineReloadRequest, Inv, TypeOK, NothingUnsaved
<1>18. CASE Tick
  BY SMT, <1>18, QuietStep, SessionHandlerAssumptions
  DEF Tick, Inv, TypeOK, NothingUnsaved
<1>19. CASE ProcessExits
  BY <1>19, QuietStep DEF ProcessExits, Inv, TypeOK, NothingUnsaved
<1>20. CASE PreparatorEnds
  BY <1>20, QuietStep DEF PreparatorEnds, Inv, TypeOK, NothingUnsaved
<1>21. CASE SaverEnds
  BY <1>21, QuietStep DEF SaverEnds, WaitForSyncer, Inv, TypeOK, History
<1>22. CASE StartWatchDog
  BY <1>22, QuietStep DEF StartWatchDog, Inv, TypeOK, NothingUnsaved
<1>23. CASE UNCHANGED vars
  BY <1>23, QuietStep DEF vars, Inv, TypeOK, NothingUnsaved
<1> QED
  BY <1>1, <1>2, <1>3, <1>4, <1>5, <1>6, <1>7, <1>8, <1>9, <1>10, <1>11,
     <1>12, <1>13, <1>14, <1>15, <1>16, <1>17, <1>18, <1>19, <1>20, <1>21,
     <1>22, <1>23
  DEF Next, EvalCommand, Environment

\* In every state the session handler can reach, the variables are well
\* typed, last_session_empty_time_ is set exactly when there is no session,
\* no session points to a replaced engine, no user history is left unsaved
\* once the last session is gone, and every session knows the current config.
THEOREM Safety == Spec => []Inv
<1>1. Inv /\ UNCHANGED vars => Inv'
  BY InvNext
<1> QED
  BY InvInit, InvNext, PTL DEF Spec

\* TypeOK: the members of SessionHandler keep their types, and lru is an order
\* of exactly the sessions in the map.
THEOREM TypeCorrect == Spec => []TypeOK
BY Safety, PTL DEF Inv

\* EmptyTimeMatchesMap, which decides about the shutdown in Cleanup.
THEOREM EmptyTimeAlwaysMatches == Spec => []EmptyTimeMatchesMap
BY Safety, PTL DEF Inv

\* EngineInUse: no session outlives its engine.
THEOREM EngineAlwaysInUse == Spec => []EngineInUse
BY Safety, PTL DEF Inv

\* NothingUnsaved: the deletion of the last session and Shutdown save the user
\* history, whatever the saving thread was doing.
THEOREM HistoryIsSaved == Spec => []NothingUnsaved
BY Safety, PTL DEF Inv

\* SessionsTold: every command that changes config_ or request_ reaches every
\* session.
THEOREM SessionsAreTold == Spec => []SessionsTold
BY Safety, PTL DEF Inv

\* ConfigCurrent: config_ is made from what is stored and imposed now.
THEOREM ConfigIsCurrent == Spec => []ConfigCurrent
BY Safety, PTL DEF Inv

-----------------------------------------------------------------------------
(***************************************************************************)
(* The action properties of SessionHandler: which session CreateSession    *)
(* evicts, which ones Cleanup removes, and when it shuts the server down.  *)
(*                                                                         *)
(* They need to know that the LRU list is ordered by the last use of the   *)
(* sessions, that every set of sessions has a last one in it (finite sets  *)
(* do; as an invariant it needs no induction over sets), that the map has  *)
(* room, and that no time is later than now.                               *)
(***************************************************************************)

Past(s) == s.create_time <= now /\ s.last_command_time <= now

TimesInv ==
    /\ \A id \in Sessions : Past(session_map[id])
    /\ last_session_empty_time <= now
    /\ last_cleanup_time <= now
    /\ \A a, b \in Sessions :
          <<a, b>> \in lru => LastUse(session_map[b]) <= LastUse(session_map[a])

HasTails(order, keys) ==
    \A T \in SUBSET keys : T # {} => \E t \in T : IsTail(order, T, t)

RoomInv ==
    /\ HasTails(lru, Sessions)
    /\ Cardinality(Sessions) <= max_session_size

-----------------------------------------------------------------------------
(***************************************************************************)
(* The LRU list.                                                           *)
(***************************************************************************)
\* A key pushed to the head precedes the last of the others.
LEMMA PushLRUHeadTails ==
    ASSUME NEW keys, NEW order, NEW key, HasTails(order, keys)
    PROVE  HasTails(PushLRUHead(order, keys, key), keys \cup {key})
<1> DEFINE new == PushLRUHead(order, keys, key)
<1> SUFFICES ASSUME NEW T \in SUBSET (keys \cup {key}), T # {}
             PROVE  \E t \in T : IsTail(new, T, t)
    BY DEF HasTails
<1>1. CASE T \ {key} = {}
    <2>1. T = {key}
        BY <1>1
    <2> QED BY <2>1 DEF IsTail
<1>2. CASE T \ {key} # {}
    <2>1. PICK t \in T \ {key} : IsTail(order, T \ {key}, t)
        BY <1>2 DEF HasTails
    <2>2. ASSUME NEW k \in T \ {t} PROVE <<k, t>> \in new
        <3>1. CASE k = key
            BY <3>1 DEF PushLRUHead
        <3>2. CASE k # key
            <4>1. <<k, t>> \in order /\ <<k, t>>[2] # key
                BY <2>1, <3>2 DEF IsTail
            <4> QED BY <4>1 DEF PushLRUHead
        <3> QED BY <3>1, <3>2
    <2> QED BY <2>1, <2>2 DEF IsTail
<1> QED BY <1>1, <1>2

\* Eviction keeps the places of the others.
LEMMA EvictAllTails ==
    ASSUME NEW keys, NEW order, NEW gone, HasTails(order, keys)
    PROVE  HasTails(EvictAll(order, gone), keys \ gone)
BY DEF HasTails, EvictAll, IsTail

\* The last key is one.
LEMMA OneTail ==
    ASSUME NEW keys, NEW order, IsLruOrder(order, keys),
           NEW a, NEW b, IsTail(order, keys, a), IsTail(order, keys, b)
    PROVE  a = b
BY DEF IsLruOrder, IsTail

-----------------------------------------------------------------------------
(***************************************************************************)
(* The steps.                                                              *)
(***************************************************************************)
SameTimes(s, t) ==
    /\ s.create_time = t.create_time
    /\ s.last_command_time = t.last_command_time

\* Times and sizes are natural numbers.
LEMMA Numbers ==
    ASSUME Inv
    PROVE  /\ now \in Nat \ {0} /\ last_session_empty_time \in Nat
           /\ last_cleanup_time \in Nat
           /\ \A id \in Sessions : /\ session_map[id].create_time \in Nat
                                   /\ session_map[id].last_command_time \in Nat
                                   /\ LastUse(session_map[id]) \in Nat
           /\ max_session_size \in Nat \ {0}
           /\ IsFiniteSet(Sessions) /\ Cardinality(Sessions) \in Nat
<1>1. IsFiniteSet(Sessions)
    BY SessionHandlerAssumptions, FS_Subset DEF Inv, TypeOK
<1>2. Cardinality(Sessions) \in Nat
    BY <1>1, FS_CardinalityType
<1>3. max_session_size \in Nat \ {0}
    BY SMT, SessionHandlerAssumptions DEF max_session_size, Clamp
<1>4. \A id \in Sessions : session_map[id] \in Session
    BY DEF Inv, TypeOK
<1> QED BY <1>1, <1>2, <1>3, <1>4 DEF Inv, TypeOK, Session, LastUse

\* A step that uses no session: some may go, and the clock may go on.
LEMMA UnusedStep ==
    ASSUME Inv, Inv', TimesInv, now <= now', Sessions' \subseteq Sessions,
           \A id \in Sessions' : SameTimes(session_map'[id], session_map[id]),
           lru' \subseteq lru,
           last_session_empty_time' \in {last_session_empty_time, now},
           last_cleanup_time' \in {last_cleanup_time, now}
    PROVE  TimesInv'
<1>1. now \in Nat /\ now' \in Nat
    BY DEF Inv, TypeOK
<1>2. last_session_empty_time' <= now' /\ last_cleanup_time' <= now'
    BY SMT, <1>1, Numbers DEF TimesInv
<1>3. ASSUME NEW id \in Sessions' PROVE Past(session_map[id])'
    <2>1. session_map'[id].create_time <= now /\ session_map'[id].last_command_time <= now
        BY <1>3 DEF TimesInv, Past, SameTimes
    <2>2. session_map'[id].create_time \in Nat /\ session_map'[id].last_command_time \in Nat
        BY <1>3, Numbers DEF SameTimes
    <2> QED BY SMT, <1>1, <2>1, <2>2 DEF Past
<1>4. ASSUME NEW a \in Sessions', NEW b \in Sessions', <<a, b>> \in lru'
      PROVE  LastUse(session_map'[b]) <= LastUse(session_map'[a])
    <2>1. /\ LastUse(session_map'[a]) = LastUse(session_map[a])
          /\ LastUse(session_map'[b]) = LastUse(session_map[b])
        BY <1>4 DEF SameTimes, LastUse
    <2> QED BY <1>4, <2>1 DEF TimesInv
<1> QED BY <1>2, <1>3, <1>4 DEF TimesInv

\* The sessions of the map and their places stay, as far as they are kept.
LEMMA QuietRoom ==
    ASSUME RoomInv, UNCHANGED <<Sessions, lru>>
    PROVE  RoomInv'
BY DEF RoomInv, HasTails, IsTail

\* Deletions leave room, and a last session among the rest.
LEMMA DeletionRoom ==
    ASSUME Inv, RoomInv, NEW gone \in SUBSET Sessions, DeleteSessionID(gone)
    PROVE  RoomInv'
<1>1. Sessions' = Sessions \ gone /\ lru' = EvictAll(lru, gone)
    BY DEF DeleteSessionID, Sessions
<1>2. Cardinality(Sessions') <= Cardinality(Sessions) /\ IsFiniteSet(Sessions')
    BY <1>1, Numbers, FS_Subset
<1>3. Cardinality(Sessions') \in Nat
    BY <1>2, FS_CardinalityType
<1>4. Cardinality(Sessions') <= max_session_size
    BY SMT, <1>2, <1>3, Numbers DEF RoomInv
<1> QED BY <1>1, <1>4, EvictAllTails DEF RoomInv

\* The session a command is for becomes the one used last.
LEMMA UsedStep ==
    ASSUME Inv, TimesInv, RoomInv, NEW id \in Sessions,
           MaybeUpdateStoredConfig(Used(id)),
           lru' = PushLRUHead(lru, Sessions, id),
           UNCHANGED <<now, last_session_empty_time, last_cleanup_time, imposed_config,
                       request>>
    PROVE  TimesInv' /\ RoomInv'
<1>1. Used(id) \in [Sessions -> Session]
    BY DEF Used, Inv, TypeOK, Session
<1>2. /\ Sessions' = Sessions
      /\ \A k \in Sessions : SameTimes(session_map'[k], Used(id)[k])
    <2>1. CASE session_map' = Used(id)
        BY <1>1, <2>1 DEF Sessions, SameTimes
    <2>2. ASSUME NEW f \in CommandField, NEW v \in Value, NEW c,
                 c = MergeFrom(SetConfigInternal([config EXCEPT ![f] = v]),
                               imposed_config),
                 session_map' = SetConfig(Used(id), c, request)
          PROVE  /\ Sessions' = Sessions
                 /\ \A k \in Sessions : SameTimes(session_map'[k], Used(id)[k])
        <3>1. c \in Config /\ request \in Request
            BY <2>2, ConfigTypes, SessionHandlerAssumptions DEF Inv, TypeOK
        <3>2. DOMAIN session_map' = Sessions
            BY <1>1, <2>2 DEF SetConfig
        <3>3. \A k \in Sessions : SameTimes(session_map'[k], Used(id)[k])
            BY SMTT(30), <1>1, <2>2, <3>1, SetConfigFacts DEF SameTimes
        <3> QED BY <3>2, <3>3 DEF Sessions
    <2> QED BY <2>1, <2>2 DEF MaybeUpdateStoredConfig
<1>3. LastUse(session_map'[id]) = now /\ Past(session_map[id])'
    <2>1. /\ session_map'[id].last_command_time = now
          /\ session_map'[id].create_time = session_map[id].create_time
        BY <1>2 DEF SameTimes, Used, Inv, TypeOK, Session
    <2> QED BY SMT, <2>1, Numbers DEF LastUse, Past, TimesInv
<1>4. ASSUME NEW k \in Sessions, k # id
      PROVE  LastUse(session_map'[k]) = LastUse(session_map[k]) /\ Past(session_map[k])'
    <2>1. SameTimes(session_map'[k], session_map[k])
        BY SMT, <1>2, <1>4 DEF SameTimes, Used
    <2> QED BY <2>1 DEF SameTimes, LastUse, Past, TimesInv
<1>5. ASSUME NEW k \in Sessions PROVE LastUse(session_map[k]) <= now
    BY <1>5, Numbers DEF TimesInv, Past, LastUse
<1>6. ASSUME NEW a \in Sessions, NEW b \in Sessions, <<a, b>> \in lru'
      PROVE  LastUse(session_map'[b]) <= LastUse(session_map'[a])
    <2>1. b # id /\ (a = id \/ <<a, b>> \in lru)
        BY <1>6 DEF PushLRUHead
    <2>2. CASE a = id
        BY <2>1, <2>2, <1>3, <1>4, <1>5
    <2>3. CASE a # id
        BY <2>1, <2>3, <1>4 DEF TimesInv
    <2> QED BY <2>2, <2>3
<1>7. TimesInv'
    BY <1>2, <1>3, <1>4, <1>6 DEF TimesInv
<1>8. HasTails(lru', Sessions')
    <2>1. Sessions \cup {id} = Sessions
        OBVIOUS
    <2> QED BY <1>2, <2>1, PushLRUHeadTails DEF RoomInv
<1> QED BY <1>2, <1>7, <1>8 DEF RoomInv

\* CREATE_SESSION makes room by evicting the session used least recently.
LEMMA CreatedStep ==
    ASSUME Inv, TimesInv, RoomInv, NEW app \in Process \cup {NoProcess},
           CreateSession(app)
    PROVE  /\ TimesInv' /\ RoomInv'
           /\ \A a \in Sessions \ Sessions', b \in Sessions :
                 LastUse(session_map[a]) <= LastUse(session_map[b])
<1> DEFINE oldest == IF IsFull
                     THEN {id \in Sessions : IsTail(lru, Sessions, id)} ELSE {}
           kept   == Sessions \ oldest
<1>1. /\ last_session_empty_time' = 0
      /\ UNCHANGED <<now, last_cleanup_time>>
    BY DEF CreateSession, clockVars
<1>2. PICK id \in SessionID \ kept :
         /\ Sessions' = kept \cup {id}
         /\ session_map'[id].create_time = now
         /\ session_map'[id].last_command_time = 0
         /\ \A k \in kept : SameTimes(session_map'[k], session_map[k])
         /\ lru' = PushLRUHead(EvictAll(lru, oldest), kept, id)
    <2> DEFINE replace == HasResponse(kept) /\ preparator = "RELOAD_READY"
               eng     == IF replace THEN engine + 1 ELSE engine
               cfg     == MergeFrom(stored_config, imposed_config)
               new     == [create_time |-> now, last_command_time |-> 0,
                           app |-> app, engine |-> eng,
                           config |-> cfg, request |-> request]
               all(id) == [k \in kept \cup {id} |->
                              IF k = id THEN new ELSE session_map[k]]
    <2>1. PICK id \in SessionID \ kept :
             /\ session_map' = SetConfig(all(id), cfg, request)
             /\ lru' = PushLRUHead(EvictAll(lru, oldest), kept, id)
        BY DEF CreateSession
    <2>2. cfg \in Config /\ request \in Request /\ eng \in Nat
        BY SMT, ConfigTypes DEF Inv, TypeOK
    <2>3. new \in Session
        BY <2>2 DEF Inv, TypeOK, Session
    <2>4. \A k \in kept : session_map[k] \in Session /\ k # id
        BY <2>1 DEF Inv, TypeOK
    <2>5. all(id) \in [kept \cup {id} -> Session]
        BY <2>3, <2>4
    <2>6. all(id)[id] = new /\ \A k \in kept : all(id)[k] = session_map[k]
        BY <2>4
    <2>7. new.create_time = now /\ new.last_command_time = 0
        OBVIOUS
    <2> HIDE DEF all, new, cfg, kept, oldest
    <2>8. Sessions' = kept \cup {id}
        BY <2>1, <2>5 DEF SetConfig, Sessions
    <2>9. \A k \in kept \cup {id} : SameTimes(session_map'[k], all(id)[k])
        BY SMT, <2>1, <2>2, <2>5, SetConfigFacts DEF SameTimes
    <2> QED BY <2>1, <2>6, <2>7, <2>8, <2>9 DEF SameTimes
<1>3. ASSUME NEW a \in oldest, NEW b \in Sessions
      PROVE  LastUse(session_map[a]) <= LastUse(session_map[b])
    <2>1. a \in Sessions /\ IsTail(lru, Sessions, a)
        BY <1>3
    <2>2. CASE a = b
        BY SMT, <2>1, <2>2, Numbers
    <2>3. CASE a # b
        BY <2>1, <2>3 DEF IsTail, TimesInv
    <2> QED BY <2>2, <2>3
<1>4. Cardinality(Sessions') <= max_session_size
    <2>1. IsFiniteSet(kept) /\ id \notin kept
        BY Numbers, FS_Subset, <1>2
    <2>2. Cardinality(Sessions') = Cardinality(kept) + 1 /\ Cardinality(kept) \in Nat
        BY <1>2, <2>1, FS_AddElement, FS_CardinalityType
    <2>3. CASE ~IsFull
        <3>1. kept = Sessions
            BY <2>3
        <3> QED BY SMT, <2>2, <2>3, <3>1, Numbers DEF IsFull
    <2>4. CASE IsFull
        <3>1. Sessions # {}
            BY SMT, <2>4, Numbers, FS_EmptySet DEF IsFull
        <3>2. PICK t \in Sessions : IsTail(lru, Sessions, t)
            BY <3>1 DEF RoomInv, HasTails
        <3>3. oldest = {t}
            BY <2>4, <3>2, OneTail DEF Inv, TypeOK
        <3>4. Cardinality(kept) = Cardinality(Sessions) - 1
            BY <3>2, <3>3, Numbers, FS_RemoveElement
        <3> QED BY SMT, <2>2, <3>4, Numbers DEF RoomInv
    <2> QED BY <2>3, <2>4
<1>5. HasTails(lru', Sessions')
    BY <1>2, EvictAllTails, PushLRUHeadTails DEF RoomInv
<1>6. ASSUME NEW k \in Sessions' PROVE Past(session_map[k])'
    <2>1. CASE k = id
        BY SMT, <1>1, <1>2, <2>1, Numbers DEF Past
    <2>2. CASE k # id
        BY <1>1, <1>2, <1>6, <2>2 DEF Past, SameTimes, TimesInv
    <2> QED BY <2>1, <2>2
<1>7. ASSUME NEW a \in Sessions', NEW b \in Sessions', <<a, b>> \in lru'
      PROVE  LastUse(session_map'[b]) <= LastUse(session_map'[a])
    <2> HIDE DEF oldest
    <2>1. b # id /\ (a = id \/ <<a, b>> \in lru)
        BY <1>7, <1>2 DEF PushLRUHead, EvictAll
    <2>2. ASSUME NEW k \in kept PROVE LastUse(session_map'[k]) = LastUse(session_map[k])
        BY <1>2, <2>2 DEF SameTimes, LastUse
    <2>3. b \in kept
        BY <1>2, <1>7, <2>1
    <2>4. CASE a = id
        <3>1. LastUse(session_map'[a]) = now
            BY <1>2, <2>4 DEF LastUse
        <3>2. LastUse(session_map[b]) <= now
            BY <2>3, Numbers DEF TimesInv, Past, LastUse
        <3> QED BY <2>2, <2>3, <3>1, <3>2
    <2>5. CASE a # id
        <3>1. a \in kept
            BY <1>2, <1>7, <2>5
        <3> QED BY <2>1, <2>2, <2>3, <2>5, <3>1 DEF TimesInv
    <2> QED BY <2>4, <2>5
<1>8. last_session_empty_time' <= now' /\ last_cleanup_time' <= now'
    BY SMT, <1>1, Numbers DEF TimesInv
<1>9. TimesInv' /\ RoomInv'
    BY <1>4, <1>5, <1>6, <1>7, <1>8 DEF TimesInv, RoomInv
<1>10. Sessions \ Sessions' \subseteq oldest
    BY <1>2
<1> QED BY <1>3, <1>9, <1>10

\* A step that leaves the map and its times alone.
LEMMA QuietTimes ==
    ASSUME Inv, Inv', TimesInv, RoomInv, UNCHANGED mapVars, now <= now',
           UNCHANGED <<last_session_empty_time, last_cleanup_time>>
    PROVE  TimesInv' /\ RoomInv'
<1>1. UNCHANGED <<Sessions, lru, session_map>>
    BY DEF mapVars, Sessions
<1> QED BY <1>1, UnusedStep, QuietRoom DEF SameTimes

\* A config command leaves the times and the places of the sessions alone.
LEMMA ReconfigureTimes ==
    ASSUME Inv, Inv', TimesInv, RoomInv, NEW c \in Config, NEW r \in Request,
           Reconfigure(c, r)
    PROVE  TimesInv' /\ RoomInv'
<1>1. session_map \in [Sessions -> Session] /\ now <= now'
    BY SMT, Numbers DEF Inv, TypeOK, Reconfigure, clockVars
<1>2. Sessions' = Sessions
    BY <1>1 DEF Reconfigure, SetConfig, Sessions
<1>3. \A id \in Sessions : SameTimes(session_map'[id], session_map[id])
    BY SMT, <1>1, SetConfigFacts DEF Reconfigure, SameTimes
<1> QED BY <1>1, <1>2, <1>3, UnusedStep, QuietRoom DEF Reconfigure, timeVars

\* DELETE_SESSION and CLEANUP.
LEMMA DeletionTimes ==
    ASSUME Inv, Inv', TimesInv, RoomInv, NEW gone \in SUBSET Sessions,
           DeleteSessionID(gone), UNCHANGED now,
           last_cleanup_time' \in {last_cleanup_time, now}
    PROVE  TimesInv' /\ RoomInv'
<1>1. /\ Sessions' \subseteq Sessions
      /\ \A id \in Sessions' : session_map'[id] = session_map[id]
    BY DeleteSessionIDStep
<1>2. lru' \subseteq lru /\ last_session_empty_time' \in {last_session_empty_time, now}
    BY DEF DeleteSessionID, EvictAll
<1>3. now <= now'
    BY SMT, Numbers
<1> QED BY <1>1, <1>2, <1>3, UnusedStep, DeletionRoom DEF SameTimes

\* Every step keeps the times and the room.
LEMMA TimesNext == Inv /\ TimesInv /\ RoomInv /\ [Next]_vars => TimesInv' /\ RoomInv'
<1> SUFFICES ASSUME Inv, TimesInv, RoomInv, [Next]_vars PROVE TimesInv' /\ RoomInv'
    OBVIOUS
<1>a. Inv'
    BY InvNext
<1>b. now \in Nat /\ now <= now
    BY SMT, Numbers
<1>1. ASSUME NEW app \in alive \cup {NoProcess}, CreateSession(app)
      PROVE  TimesInv' /\ RoomInv'
    BY <1>1, CreatedStep DEF Inv, TypeOK
<1>2. ASSUME NEW id \in SessionID, DeleteSession(id) PROVE TimesInv' /\ RoomInv'
    <2>1. {id} \cap Sessions \in SUBSET Sessions
        OBVIOUS
    <2> QED BY <1>a, <1>2, <2>1, DeletionTimes DEF DeleteSession, clockVars
<1>3. CASE Cleanup
    <2> DEFINE gone == {id \in Sessions : ToBeRemoved(session_map[id])}
    <2>1. DeleteSessionID(gone) /\ gone \in SUBSET Sessions
        BY <1>3 DEF Cleanup
    <2> HIDE DEF gone
    <2> QED BY <1>a, <1>3, <2>1, DeletionTimes DEF Cleanup, clockVars
<1>4. ASSUME NEW id \in SessionID, SendKey(id) PROVE TimesInv' /\ RoomInv'
    BY <1>4, UsedStep DEF SendKey, clockVars, timeVars
<1>5. ASSUME NEW id \in SessionID, TestSendKey(id) PROVE TimesInv' /\ RoomInv'
    <2>1. MaybeUpdateStoredConfig(Used(id))
        BY <1>5 DEF TestSendKey, MaybeUpdateStoredConfig, configVars
    <2> QED BY <1>5, <2>1, UsedStep DEF TestSendKey, clockVars, timeVars, configVars
<1>6. ASSUME NEW id \in SessionID, SendCommand(id) PROVE TimesInv' /\ RoomInv'
    BY <1>6, UsedStep DEF SendCommand, clockVars, timeVars
<1>7. CASE GetStoredConfig
    BY <1>a, <1>7, ReconfigureTimes DEF GetStoredConfig, Inv, TypeOK
<1>8. ASSUME NEW c \in Config, SetStoredConfig(c) PROVE TimesInv' /\ RoomInv'
    BY <1>a, <1>8, ReconfigureTimes, ConfigTypes DEF SetStoredConfig, Inv, TypeOK
<1>9. ASSUME NEW c \in Config, SetImposedConfig(c) PROVE TimesInv' /\ RoomInv'
    BY <1>a, <1>9, ReconfigureTimes, ConfigTypes DEF SetImposedConfig, Inv, TypeOK
<1>10. ASSUME NEW r \in Request, SetRequest(r) PROVE TimesInv' /\ RoomInv'
    BY <1>a, <1>10, ReconfigureTimes, ConfigTypes DEF SetRequest, Inv, TypeOK
<1>11. CASE Reload
    BY <1>a, <1>11, ReconfigureTimes, ConfigTypes DEF Reload, Inv, TypeOK
<1>12. CASE Tick
    <2>1. now <= now'
        BY SMT, <1>b, <1>12, SessionHandlerAssumptions DEF Tick
    <2> QED BY <1>a, <1>12, <2>1, QuietTimes DEF Tick, timeVars
<1>13. CASE EngineReplaceFails
    BY <1>a, <1>b, <1>13, QuietTimes DEF EngineReplaceFails, clockVars
<1>14. CASE SyncData \/ Shutdown \/ ClearUserPrediction \/ ClearUnusedUserPrediction
    BY <1>a, <1>b, <1>14, QuietTimes
    DEF SyncData, Shutdown, ClearUserPrediction, ClearUnusedUserPrediction,
        clockVars, timeVars
<1>15. CASE SendEngineReloadRequest
    BY <1>a, <1>b, <1>15, QuietTimes DEF SendEngineReloadRequest, clockVars, timeVars
<1>16. CASE ProcessExits \/ PreparatorEnds \/ SaverEnds \/ StartWatchDog
    BY <1>a, <1>b, <1>16, QuietTimes
    DEF ProcessExits, PreparatorEnds, SaverEnds, StartWatchDog, clockVars, timeVars
<1>17. CASE UNCHANGED vars
    BY <1>a, <1>b, <1>17, QuietTimes DEF vars, clockVars, timeVars
<1> QED BY <1>1, <1>2, <1>3, <1>4, <1>5, <1>6, <1>7, <1>8, <1>9, <1>10, <1>11,
           <1>12, <1>13, <1>14, <1>15, <1>16, <1>17
        DEF Next, EvalCommand, Environment

\* No session is there at first.
LEMMA TimesInit == Init => TimesInv /\ RoomInv
<1> SUFFICES ASSUME Init PROVE TimesInv /\ RoomInv
    OBVIOUS
<1>1. Inv /\ Sessions = {}
    BY InvInit DEF Init, Sessions
<1>2. TimesInv
    BY SMT, <1>1, Numbers DEF Init, TimesInv
<1>3. Cardinality({}) = 0
    BY FS_EmptySet
<1>4. RoomInv
    BY SMT, <1>1, <1>3, Numbers DEF RoomInv, HasTails
<1> QED BY <1>2, <1>4

\* The LRU list is ordered by the last use, has room and has a last session.
THEOREM TimesAlways == Spec => [](Inv /\ TimesInv /\ RoomInv)
<1>1. Inv /\ TimesInv /\ RoomInv /\ [Next]_vars => (Inv /\ TimesInv /\ RoomInv)'
    BY InvNext, TimesNext
<1>2. Init => Inv /\ TimesInv /\ RoomInv
    BY InvInit, TimesInit
<1> QED BY <1>1, <1>2, PTL DEF Spec

\* CreateSession evicts a session that no other was idle longer than, and
\* leaves no more sessions than max_session_size_, for any number of sessions.
THEOREM EvictionIsLRU == Spec => EvictsLeastRecentlyUsed
<1>1. Inv /\ TimesInv /\ RoomInv => EvictsOldest
    <2> SUFFICES ASSUME Inv, TimesInv, RoomInv,
                        NEW app \in alive \cup {NoProcess}, CreateSession(app)
                 PROVE  /\ Cardinality(DOMAIN session_map') <= max_session_size
                        /\ \A a \in Sessions \ DOMAIN session_map', b \in Sessions :
                              LastUse(session_map[a]) <= LastUse(session_map[b])
        BY DEF EvictsOldest
    <2>1. app \in Process \cup {NoProcess}
        BY DEF Inv, TypeOK
    <2>2. /\ RoomInv'
          /\ \A a \in Sessions \ Sessions', b \in Sessions :
                LastUse(session_map[a]) <= LastUse(session_map[b])
        BY <2>1, CreatedStep
    <2> QED BY <2>2 DEF RoomInv, Sessions
<1> QED BY <1>1, TimesAlways, PTL DEF EvictsLeastRecentlyUsed

-----------------------------------------------------------------------------
(***************************************************************************)
(* Cleanup.  Its differences of times are those of numbers as long as the  *)
(* clock is far from 2^64 seconds.                                         *)
(***************************************************************************)
CreateTimeout == Clamp(FLAGS_last_create_session_timeout, 1, 600)
CommandTimeout == Clamp(FLAGS_last_command_timeout, 10, 7200)

ClockFits ==
    /\ TickSteps \subseteq 0..MaxTime
    /\ MaxTime + CreateTimeout < Word
    /\ MaxTime + CommandTimeout < Word
    /\ MaxTime + FLAGS_timeout < Word

\* A number below Word is its own remainder.
LEMMA SmallRemainder ==
    ASSUME NEW n \in Nat, n < Word
    PROVE  n % Word = n
BY SMT, SessionHandlerAssumptions

\* The timeouts are numbers.
LEMMA TimeoutTypes ==
    /\ CreateTimeout \in Nat /\ CommandTimeout \in Nat /\ FLAGS_timeout \in Int
    /\ interval \in Nat /\ MaxTime \in Nat /\ Word \in Nat
BY SMT, SessionHandlerAssumptions
DEF CreateTimeout, CommandTimeout, interval, Clamp

\* The time since an earlier one, and the guess of a suspend, do not wrap.
LEMMA NoWrap ==
    ASSUME Inv, TimesInv, now <= MaxTime, MaxTime < Word
    PROVE  /\ \A t \in Nat : t <= now => Since(t) = now - t
           /\ suspend_time \in 0..now
<1>1. ASSUME NEW t \in Nat, t <= now PROVE Since(t) = now - t
    <2>1. now - t \in Nat /\ now - t < Word
        BY SMT, <1>1, Numbers, TimeoutTypes
    <2> QED BY <2>1, SmallRemainder DEF Since
<1>2. Since(last_cleanup_time) = now - last_cleanup_time
    BY <1>1, Numbers DEF TimesInv
<1>3. CASE /\ last_cleanup_time # 0 /\ watch_dog_running
           /\ Since(last_cleanup_time) > 2 * interval
    <2>1. /\ Since(last_cleanup_time) - interval \in 0..now
          /\ Since(last_cleanup_time) - interval < Word
        BY SMTT(30), <1>2, <1>3, Numbers, TimeoutTypes
    <2>2. suspend_time = Since(last_cleanup_time) - interval
        BY SMTT(30), <1>3, <2>1, SmallRemainder, Numbers DEF suspend_time
    <2> QED BY <1>1, <2>1, <2>2
<1>4. CASE ~(/\ last_cleanup_time # 0 /\ watch_dog_running
             /\ Since(last_cleanup_time) > 2 * interval)
    <2>1. suspend_time = 0
        BY <1>4 DEF suspend_time
    <2> QED BY SMT, <1>1, <2>1, Numbers
<1> QED BY <1>3, <1>4

\* So a suspend only lengthens a timeout.
LEMMA LongerTimeout ==
    ASSUME Inv, TimesInv, now <= MaxTime, NEW d \in Nat, MaxTime + d < Word
    PROVE  (suspend_time + d) % Word \in Nat /\ (suspend_time + d) % Word >= d
<1>1. MaxTime < Word
    BY SMT, TimeoutTypes
<1>2. suspend_time \in 0..now
    BY <1>1, NoWrap
<1>3. suspend_time + d \in Nat /\ suspend_time + d < Word
    BY SMT, <1>2, Numbers, TimeoutTypes
<1>4. (suspend_time + d) % Word = suspend_time + d
    BY <1>3, SmallRemainder
<1> QED BY SMT, <1>2, <1>3, <1>4, Numbers

\* Only Tick moves the clock.
LEMMA ClockBound ==
    ASSUME ClockFits
    PROVE  Spec => [](now <= MaxTime)
<1>1. Init => now <= MaxTime
    BY SMT, TimeoutTypes DEF Init, ClockFits
<1>2. [Next]_vars => now' = now \/ now' <= MaxTime
    BY DEF Next, EvalCommand, Environment, CreateSession, EngineReplaceFails,
       DeleteSession, Cleanup, SyncData, Shutdown, ClearUserPrediction,
       ClearUnusedUserPrediction, SendKey, TestSendKey, SendCommand,
       GetStoredConfig, SetStoredConfig, SetImposedConfig, SetRequest, Reload,
       Reconfigure, SendEngineReloadRequest, Tick, ProcessExits, PreparatorEnds,
       SaverEnds, StartWatchDog, vars, clockVars
<1>3. now <= MaxTime /\ [Next]_vars => (now <= MaxTime)'
    BY <1>2
<1> QED BY <1>1, <1>3, PTL DEF Spec

\* Cleanup removes only sessions whose application is gone or that were not
\* used for their timeout, for any timeouts and any number of sessions, as
\* long as the clock is far from overflow and is not set back.
THEOREM CleanupFollowsRules ==
    ASSUME ClockFits
    PROVE  Spec => CleanupRules
<1>1. Inv /\ TimesInv /\ now <= MaxTime => RemovesByRules
    <2> SUFFICES ASSUME Inv, TimesInv, now <= MaxTime, Cleanup,
                        NEW id \in Sessions \ DOMAIN session_map'
                 PROVE  RemovedByRule(session_map[id])
        BY DEF RemovesByRules
    <2> DEFINE s == session_map[id]
    <2>1. s \in Session /\ Past(s)
        BY DEF Inv, TypeOK, TimesInv
    <2>2. ToBeRemoved(s)
        BY DEF Cleanup, DeleteSessionID, Sessions
    <2> HIDE DEF s
    <2>3. s.create_time \in Nat /\ s.last_command_time \in Nat
        BY <2>1 DEF Session
    <2>4. MaxTime < Word
        BY SMT, TimeoutTypes DEF ClockFits
    <2>5. /\ Since(s.create_time) = now - s.create_time
          /\ Since(s.last_command_time) = now - s.last_command_time
        BY <2>1, <2>3, <2>4, NoWrap DEF Past
    <2>6. /\ create_session_timeout \in Nat /\ create_session_timeout >= CreateTimeout
          /\ last_command_timeout \in Nat /\ last_command_timeout >= CommandTimeout
        BY SMTT(30), LongerTimeout, TimeoutTypes
        DEF create_session_timeout, last_command_timeout, ClockFits, CreateTimeout,
            CommandTimeout
    <2>7. CASE ~IsApplicationAlive(s)
        BY SMTT(30), <2>1, <2>7 DEF IsApplicationAlive, RemovedByRule, Session, s
    <2>8. CASE s.last_command_time = 0 /\ Since(s.create_time) >= create_session_timeout
        <3>1. now - s.create_time >= CreateTimeout
            BY SMTT(30), <2>3, <2>5, <2>6, <2>8, Numbers, TimeoutTypes
        <3> QED BY <2>8, <3>1 DEF RemovedByRule, CreateTimeout, s
    <2>9. CASE /\ s.last_command_time # 0
               /\ Since(s.last_command_time) >= last_command_timeout
        <3>1. now - s.last_command_time >= CommandTimeout
            BY SMTT(30), <2>3, <2>5, <2>6, <2>9, Numbers, TimeoutTypes
        <3> QED BY SMTT(30), <2>9, <3>1 DEF RemovedByRule, CommandTimeout, s
    <2> QED BY <2>2, <2>7, <2>8, <2>9 DEF ToBeRemoved
<1> QED BY <1>1, TimesAlways, ClockBound, PTL DEF CleanupRules

\* Cleanup shuts the server down only when it has had no session for
\* FLAGS_timeout, in particular not when it has just removed the last one.
THEOREM CleanupShutsIdleDown ==
    ASSUME ClockFits
    PROVE  Spec => CleanupShutdown
<1>1. Inv /\ TimesInv /\ now <= MaxTime => ShutsDownIdle
    <2> SUFFICES ASSUME Inv, TimesInv, now <= MaxTime, Cleanup, ~is_available'
                 PROVE  /\ Sessions = {}
                        /\ FLAGS_timeout > 0
                        /\ now - last_session_empty_time >= FLAGS_timeout
        BY DEF ShutsDownIdle
    <2> DEFINE e == last_session_empty_time'
    <2>1. TimeoutPassed(e)
        BY DEF Cleanup
    <2>2. e \in {last_session_empty_time, now}
        BY DEF Cleanup, DeleteSessionID
    <2> HIDE DEF e
    <2>3. FLAGS_timeout > 0 /\ e # 0 /\ Since(e) >= (suspend_time + FLAGS_timeout) % Word
        BY <2>1 DEF TimeoutPassed
    <2>4. MaxTime < Word
        BY SMT, TimeoutTypes DEF ClockFits
    <2>5. e \in Nat /\ e <= now
        BY SMT, <2>2, Numbers DEF TimesInv
    <2>6. Since(e) = now - e
        BY <2>4, <2>5, NoWrap
    <2>7. FLAGS_timeout \in Nat
        BY SMT, <2>3, TimeoutTypes
    <2>8. /\ (suspend_time + FLAGS_timeout) % Word \in Nat
          /\ (suspend_time + FLAGS_timeout) % Word >= FLAGS_timeout
        BY <2>7, LongerTimeout DEF ClockFits
    <2>9. now - e >= FLAGS_timeout
        BY SMTT(30), <2>3, <2>5, <2>6, <2>7, <2>8, Numbers
    <2>10. e = last_session_empty_time /\ e # now
        BY SMTT(30), <2>2, <2>3, <2>5, <2>7, <2>9
    <2>11. Sessions = {}
        BY <2>3, <2>10 DEF Inv, EmptyTimeMatchesMap
    <2> QED BY <2>3, <2>9, <2>10, <2>11
<1> QED BY <1>1, TimesAlways, ClockBound, PTL DEF CleanupShutdown

-----------------------------------------------------------------------------
(***************************************************************************)
(* OneCleanupWaiting of SessionWatchDog for any interval, any loads and    *)
(* suspends, any faults of the calls, and every number of sessions; and    *)
(* SuspendForgiven for a clock that is not set back.                       *)
(*                                                                         *)
(* IInv says when no Cleanup is waiting at all: before Run decides to send *)
(* one.  A call that timed out leaves one behind, and Run gets back to its *)
(* sleep only by a ping, which the server answers after the Cleanup.       *)
(*                                                                         *)
(* SleepInv says that the time slept since the last Cleanup is part of the *)
(* time since then, and that whoever sends a Cleanup has been started, so  *)
(* Cleanup does look for a suspend.  What it takes for a suspend is then   *)
(* at least the time slept, less one interval.                             *)
(***************************************************************************)
IInv ==
    /\ queue \in {0, 1}
    /\ wd \in {"off", "idle", "sampling", "check"} => queue = 0

\* Steps of the thread.
LEMMA ThreadIInv ==
    ASSUME IInv, WDStep
    PROVE  IInv'
<1>1. CASE ReceivedStop
    BY <1>1, SMT DEF ReceivedStop, IInv
<1>2. CASE IdleEnds
    BY <1>2, SMT DEF IdleEnds, StartWait, IInv
<1>3. CASE Sample
    BY <1>3, SMT DEF Sample, StartWait, IInv
<1>4. CASE CheckLoads
    BY <1>4, SMT DEF CheckLoads, StartIdle, StartWait, IInv
<1>5. CASE CallSucceeds
    BY <1>5, SMT DEF CallSucceeds, StartIdle, StartWait, IInv
<1>6. CASE CallFails
    BY <1>6, SMT DEF CallFails, StartWait, IInv
<1>7. CASE PingWaitEnds
    BY <1>7, SMT DEF PingWaitEnds, IInv
<1>8. CASE PingSucceeds
    BY <1>8, SMT DEF PingSucceeds, StartIdle, StartWait, IInv
<1>9. CASE PingFails
    BY <1>9, SMT DEF PingFails, StartWait, IInv
<1>10. CASE Fatal
    BY <1>10, SMT DEF Fatal, IInv
<1> QED BY <1>1, <1>2, <1>3, <1>4, <1>5, <1>6, <1>7, <1>8, <1>9, <1>10 DEF WDStep

\* Steps of the server, of its main thread and of the machine: none of them
\* sends a Cleanup or moves the thread, except to start it.
LEMMA OtherIInv ==
    ASSUME IInv, RunStarts \/ Terminate \/ EvalCleanup \/ Others
                 \/ Suspend \/ SetBack \/ Passes
    PROVE  IInv'
<1>1. CASE RunStarts
    BY <1>1, SMT DEF RunStarts, StartWait, IInv
<1>2. CASE EvalCleanup
    BY <1>2, SMT DEF EvalCleanup, wdVars, IInv
<1>3. CASE Terminate \/ Others \/ Suspend \/ SetBack \/ Passes
    <2>1. UNCHANGED <<wd, queue>>
        BY <1>3 DEF Terminate, Others, EvalOther, Suspend, SetBack, Passes, Clock, wdVars
    <2> QED BY <2>1 DEF IInv
<1> QED BY <1>1, <1>2, <1>3

\* At most one Cleanup waits in the server, whatever calls time out and
\* however long the server blocks (SessionWatchDog::Run).
THEOREM OneCleanup == WDSpec => []OneCleanupWaiting
<1>1. WDInit => IInv
    BY SMT DEF WDInit, IInv
<1>2. IInv /\ [WDNext]_allVars => IInv'
    <2> SUFFICES ASSUME IInv, [WDNext]_allVars PROVE IInv'
        OBVIOUS
    <2>1. CASE UNCHANGED allVars
        BY <2>1 DEF allVars, wdVars, IInv
    <2> QED BY <2>1, ThreadIInv, OtherIInv DEF WDNext
<1>3. IInv => OneCleanupWaiting
    BY SMT DEF IInv, OneCleanupWaiting
<1> QED BY <1>1, <1>2, <1>3, PTL DEF WDSpec

-----------------------------------------------------------------------------
SleepInv ==
    /\ Inv /\ TimesInv /\ RoomInv
    /\ now <= MaxTime
    /\ slept \in Nat
    /\ last_cleanup_time # 0 => slept <= now - last_cleanup_time
    /\ queue > 0 => wd # "off"
    /\ wd # "off" => watch_dog_running

\* The clock moves: no time gets later than it, and no more is slept than
\* passes.
LEMMA ClockSleep ==
    ASSUME SleepInv, NEW d \in Nat, NEW asleep \in {0, d}, Clock(now + d, asleep)
    PROVE  SleepInv'
<1>1. now' = now + d /\ now' \in Nat \ {0} /\ now' <= MaxTime /\ now <= now'
    BY Numbers, TimeoutTypes, SMT DEF Clock, SleepInv
<1>2. Inv'
    BY <1>1, QuietStep DEF Clock, SleepInv, Inv, TypeOK, NothingUnsaved, timeVars,
       engineVars
<1>3. TimesInv' /\ RoomInv'
    BY <1>1, <1>2, QuietTimes DEF Clock, SleepInv, timeVars
<1>4. slept' \in Nat /\ (last_cleanup_time' # 0 => slept' <= now' - last_cleanup_time')
    BY <1>1, Numbers, SMT DEF Clock, SleepInv, timeVars
<1> QED BY <1>1, <1>2, <1>3, <1>4 DEF SleepInv, Clock, wdVars

\* A step that leaves the clock, the count and the last Cleanup alone.
LEMMA AwakeSleep ==
    ASSUME SleepInv, [Next]_vars, UNCHANGED <<now, slept, last_cleanup_time>>,
           queue' > 0 => wd' # "off", wd' # "off" => watch_dog_running'
    PROVE  SleepInv'
<1>1. Inv' /\ TimesInv' /\ RoomInv'
    BY InvNext, TimesNext DEF SleepInv
<1> QED BY <1>1 DEF SleepInv

\* Every step keeps SleepInv, and Cleanup starts a new count.
LEMMA SleepNext ==
    ASSUME SleepInv, [WDNext]_allVars, BackSteps = {}
    PROVE  SleepInv'
<1> USE DEF clockVars, timeVars
<1>1. CASE RunStarts
    BY <1>1, AwakeSleep DEF RunStarts, StartWait, StartWatchDog, Next, Environment
<1>2. CASE WDStep
    <2>1. UNCHANGED <<vars, slept>> /\ wd # "off" /\ wd' # "off"
        BY <1>2 DEF WDStep, ReceivedStop, Waiting, IdleEnds, Sample, CheckLoads,
           CallSucceeds, CallFails, PingWaitEnds, PingSucceeds, PingFails, Fatal,
           StartIdle, StartWait
    <2> QED BY <2>1, AwakeSleep DEF vars, SleepInv
<1>3. CASE Terminate \/ UNCHANGED allVars
    <2>1. UNCHANGED <<vars, slept, wd, queue>>
        BY <1>3 DEF Terminate, allVars, wdVars
    <2> QED BY <2>1, AwakeSleep DEF vars, SleepInv
<1>4. CASE EvalCleanup
    <2>1. Cleanup /\ slept' = 0 /\ UNCHANGED wd /\ queue > 0
        BY <1>4 DEF EvalCleanup, wdVars
    <2>2. Inv' /\ TimesInv' /\ RoomInv'
        BY <2>1, InvNext, TimesNext DEF SleepInv, Next, EvalCommand
    <2>3. UNCHANGED <<now, watch_dog_running>> /\ last_cleanup_time' = now
        BY <2>1 DEF Cleanup
    <2>4. slept' \in Nat /\ slept' <= now' - last_cleanup_time'
        BY <2>1, <2>3, Numbers, SMT DEF SleepInv
    <2> QED BY <2>1, <2>2, <2>3, <2>4 DEF SleepInv
<1>5. CASE Others
    <2>1. Next
        BY <1>5 DEF Others, EvalOther, Next, EvalCommand, Environment
    <2>2. UNCHANGED <<now, slept, last_cleanup_time, watch_dog_running, wd, queue>>
        BY <1>5 DEF Others, EvalOther, CreateSession, SendKey, DeleteSession, Shutdown,
           ProcessExits, SaverEnds, wdVars
    <2> QED BY <2>1, <2>2, AwakeSleep DEF SleepInv
<1>6. ASSUME NEW d \in SuspendSteps, Clock(now + d, d) PROVE SleepInv'
    BY <1>6, ClockSleep, WatchDogAssumptions
<1>7. ASSUME NEW d \in TickSteps, Clock(now + d, 0) PROVE SleepInv'
    BY <1>7, ClockSleep, SessionHandlerAssumptions
<1> QED BY <1>1, <1>2, <1>3, <1>4, <1>5, <1>6, <1>7
        DEF WDNext, Suspend, SetBack, Passes

\* The Cleanup that finds a suspend takes a living session away only if it was
\* unused for its timeout, less one interval, while the machine was awake, for
\* any timeouts, intervals and suspends (SessionHandler::Cleanup).
THEOREM SuspendIsForgiven ==
    ASSUME ClockFits, BackSteps = {}
    PROVE  WDSpec => SuspendForgiven
<1>1. WDInit => SleepInv
    <2> SUFFICES ASSUME WDInit PROVE SleepInv
        OBVIOUS
    <2>1. Inv /\ TimesInv /\ RoomInv
        BY InvInit, TimesInit DEF WDInit
    <2>2. now <= MaxTime
        BY TimeoutTypes, SMT DEF WDInit, Init, ClockFits
    <2>3. slept = 0 /\ last_cleanup_time = 0 /\ queue = 0 /\ wd = "off"
        BY DEF WDInit, Init
    <2> QED BY <2>1, <2>2, <2>3, SMT DEF SleepInv
<1>2. SleepInv /\ [WDNext]_allVars => SleepInv'
    BY SleepNext
<1>3. SleepInv => ForgivesSuspend
    <2> SUFFICES ASSUME SleepInv, EvalCleanup, FindsSuspend,
                        NEW id \in Sessions \ DOMAIN session_map',
                        IsApplicationAlive(session_map[id])
                 PROVE  UnusedAwake(session_map[id])
        BY DEF ForgivesSuspend
    <2> DEFINE s == session_map[id]
    <2>1. Inv /\ TimesInv /\ now <= MaxTime /\ watch_dog_running
        BY DEF SleepInv, EvalCleanup
    <2>2. /\ s.create_time \in Nat /\ s.last_command_time \in Nat
          /\ s.create_time <= now /\ s.last_command_time <= now
        BY <2>1, Numbers DEF TimesInv, Past
    <2>3. ToBeRemoved(s)
        BY DEF EvalCleanup, Cleanup, DeleteSessionID, Sessions
    <2>4. IsApplicationAlive(s)
        OBVIOUS
    <2> HIDE DEF s
    <2>5. MaxTime < Word
        BY TimeoutTypes, SMT DEF ClockFits
    <2>6. /\ Since(s.create_time) = now - s.create_time
          /\ Since(s.last_command_time) = now - s.last_command_time
          /\ Since(last_cleanup_time) = now - last_cleanup_time
        BY <2>1, <2>2, <2>5, NoWrap, Numbers DEF TimesInv
    <2>7. now - last_cleanup_time - interval \in 0..now
        BY <2>1, Numbers, TimeoutTypes, SMT DEF FindsSuspend, TimesInv
    <2>8. suspend_time = now - last_cleanup_time - interval
        <3>1. now - last_cleanup_time - interval \in Nat
              /\ now - last_cleanup_time - interval < Word
            BY <2>1, <2>5, <2>7, Numbers, TimeoutTypes, SMTT(30)
        <3>2. (now - last_cleanup_time - interval) % Word
              = now - last_cleanup_time - interval
            BY <3>1, SmallRemainder
        <3> QED BY <2>1, <2>6, <3>2 DEF suspend_time, FindsSuspend
    <2>9. slept \in Nat /\ slept - interval <= suspend_time /\ suspend_time \in 0..now
        BY <2>1, <2>7, <2>8, Numbers, TimeoutTypes, SMTT(30) DEF SleepInv, FindsSuspend
    <2>10. ASSUME NEW t \in Nat, MaxTime + t < Word
           PROVE  (suspend_time + t) % Word = suspend_time + t
        <3>1. suspend_time + t \in Nat /\ suspend_time + t < Word
            BY <2>1, <2>9, <2>10, Numbers, TimeoutTypes, SMTT(30)
        <3> QED BY <3>1, SmallRemainder
    <2>11. /\ create_session_timeout = suspend_time + CreateTimeout
           /\ last_command_timeout = suspend_time + CommandTimeout
        BY SMTT(30), <2>10, TimeoutTypes
        DEF create_session_timeout, last_command_timeout, ClockFits, CreateTimeout,
            CommandTimeout
    <2>12. CASE s.last_command_time = 0
        <3>1. now - s.create_time >= suspend_time + CreateTimeout
            BY <2>3, <2>4, <2>6, <2>11, <2>12 DEF ToBeRemoved
        <3>2. now - s.create_time - slept >= CreateTimeout - interval
            BY <2>2, <2>9, <3>1, Numbers, <2>1, TimeoutTypes, SMTT(30)
        <3> QED BY SMT, <2>12, <3>2 DEF UnusedAwake, LastUse, CreateTimeout, s
    <2>13. CASE s.last_command_time # 0
        <3>1. now - s.last_command_time >= suspend_time + CommandTimeout
            BY <2>3, <2>4, <2>6, <2>11, <2>13 DEF ToBeRemoved
        <3>2. now - s.last_command_time - slept >= CommandTimeout - interval
            BY <2>2, <2>9, <3>1, Numbers, <2>1, TimeoutTypes, SMT
        <3> QED BY SMT, <2>13, <3>2 DEF UnusedAwake, LastUse, CommandTimeout, s
    <2> QED BY <2>12, <2>13
<1> QED BY <1>1, <1>2, <1>3, PTL DEF WDSpec, SuspendForgiven
=============================================================================
