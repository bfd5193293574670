----------------------------- MODULE MCProcesses -----------------------------
(***************************************************************************)
(* Four parts that wait for a thread or a process of their own: the        *)
(* reloader of the user dictionary (UserDictionary), the launcher of the   *)
(* renderer (RendererClient), server processes and their clients           *)
(* (ServerProcess), and the watch dog that a stopping server joins         *)
(* (SessionWatchDog).  They share no state, so a behaviour is one of one   *)
(* part, which the first state picks; the variables of the others keep the *)
(* values they have before anything happens.                               *)
(***************************************************************************)
EXTENDS UserDictionary

CONSTANTS Processes, c1, None

VARIABLES
    part,
    \* RendererClient
    r_pc, cmd, version_mismatch_nums, is_window_visible, renderer_status,
    error_times, retry_interval_passed, pending_command, mutex, thread,
    renderer, window, crashes, r_latest, parked, missed,
    \* ServerProcess
    seconds, sp, lock_name, lock_fd, lock_owner, key_name, key_fd, key_owner,
    key_content, key_mtime, cp, trials, key, last_modified, connected,
    \* SessionWatchDog
    now, alive, is_available, session_map, lru, last_session_empty_time,
    last_cleanup_time, last_create_session_time, watch_dog_running, engine,
    preparator, updated, stored_config, imposed_config, config, request,
    wd, notified, deadline, cpu_loads, wd_last_cleanup, trial, queue,
    terminating, slept

R == INSTANCE RendererClient
        WITH pc <- r_pc, latest <- r_latest,
             kMaxErrorTimes <- 1, MaxUpdates <- 1, MaxCrashes <- 1

S == INSTANCE ServerProcess
        WITH now <- seconds, mtime <- key_mtime, trial <- trials,
             Servers <- Processes, Clients <- {c1}, NoOverlap <- TRUE,
             MaxTime <- 1

\* No session: the end of the server against a blocked or pinging watch dog,
\* with a clock that is set back.
W == INSTANCE SessionWatchDog
        WITH SessionID <- {}, Process <- {}, NoProcess <- "no process",
             Field <- {"incognito"}, PlatformField <- {}, CommandField <- {},
             Value <- {}, PlatformDefault <- "on", Unset <- "unset",
             Request <- {"desktop"}, Word <- 65536,
             FLAGS_timeout <- 2, FLAGS_max_session_size <- 2,
             FLAGS_create_session_min_interval <- 0,
             FLAGS_watch_dog_interval <- 1, FLAGS_last_command_timeout <- 10,
             FLAGS_last_create_session_timeout <- 3,
             HasEngineBuilder <- FALSE, MaxEngine <- 1, Load <- {0, 70},
             SuspendSteps <- {}, BackSteps <- {2}, CallsMayFail <- TRUE,
             TickSteps <- {1}, MaxTime <- 5

rendererVars ==
    <<r_pc, cmd, version_mismatch_nums, is_window_visible, renderer_status,
      error_times, retry_interval_passed, pending_command, mutex, thread,
      renderer, window, crashes, r_latest, parked, missed>>
serverVars ==
    <<seconds, sp, lock_name, lock_fd, lock_owner, key_name, key_fd, key_owner,
      key_content, key_mtime, cp, trials, key, last_modified, connected>>
watchDogVars ==
    <<now, alive, is_available, session_map, lru, last_session_empty_time,
      last_cleanup_time, last_create_session_time, watch_dog_running, engine,
      preparator, updated, stored_config, imposed_config, config, request,
      wd, notified, deadline, cpu_loads, wd_last_cleanup, trial, queue,
      terminating, slept>>

all == <<part, vars, rendererVars, serverVars, watchDogVars>>

Reloader == part = "reloader" /\ UNCHANGED <<part, rendererVars, serverVars, watchDogVars>>
Renderer == part = "renderer" /\ UNCHANGED <<part, vars, serverVars, watchDogVars>>
Server   == part = "server" /\ UNCHANGED <<part, vars, rendererVars, watchDogVars>>
WatchDog ==
    part = "watch dog" /\ wd # "fatal" /\ UNCHANGED <<part, vars, rendererVars, serverVars>>

AnyInit ==
    /\ part \in {"reloader", "renderer", "server", "watch dog"}
    /\ Init /\ (part # "reloader" => file = NoFile)
    /\ R!Init /\ (part # "renderer" => renderer = "none")
    /\ S!Init
    /\ W!WDInit /\ (part # "watch dog" => is_available)

AnyNext ==
    \* UserDictionary
    \/ \E who \in {"session", "tool"} : Reloader /\ Save(who)
    \/ Reloader /\ Lock
    \/ Reloader /\ UnLock
    \/ Reloader /\ Reload
    \/ Reloader /\ SuppressEntry
    \/ Reloader /\ Find
    \/ Reloader /\ LoadStorage
    \/ Reloader /\ ConvertSyncDictionaries
    \/ Reloader /\ DropBigDictionary
    \/ Reloader /\ ClearSuppression
    \/ Reloader /\ FillSuppression
    \/ Reloader /\ Swap
    \* RendererClient
    \/ \E visible \in BOOLEAN : Renderer /\ R!IssueUpdate(visible)
    \/ Renderer /\ R!Activate
    \/ Renderer /\ R!Shutdown
    \/ Renderer /\ R!ForceShutdown
    \/ Renderer /\ R!Park
    \/ Renderer /\ R!Recheck
    \/ Renderer /\ R!SendDropped
    \/ Renderer /\ R!SendNotConnected
    \/ Renderer /\ R!SendToOldProtocol
    \/ Renderer /\ R!Stash
    \/ Renderer /\ R!SendToNewProtocol
    \/ Renderer /\ R!SendToOldProduct
    \/ Renderer /\ R!SendToCurrent
    \/ Renderer /\ R!PendBeforeStart
    \/ Renderer /\ R!StartRenderer
    \/ Renderer /\ R!ThreadStart
    \/ Renderer /\ R!SpawnFails
    \/ Renderer /\ R!Spawn
    \/ Renderer /\ R!LaunchFails
    \/ Renderer /\ R!CountError
    \/ Renderer /\ R!FlushBegins
    \/ Renderer /\ R!FlushPendingCommand
    \/ Renderer /\ R!SetReady
    \/ Renderer /\ R!ThreadEnds
    \/ Renderer /\ R!RendererListens
    \/ Renderer /\ R!RendererCrashes
    \/ Renderer /\ R!TimePasses
    \* ServerProcess
    \/ \E p \in Processes : Server /\ S!Launch(p)
    \/ \E p \in Processes : Server /\ S!OpenLock(p)
    \/ \E p \in Processes : Server /\ S!LockServer(p)
    \/ \E p \in Processes : Server /\ S!Listen(p)
    \/ \E p \in Processes : Server /\ S!OpenKey(p)
    \/ \E p \in Processes : Server /\ S!LockKey(p)
    \/ \E p \in Processes : Server /\ S!WriteKey(p)
    \/ \E p \in Processes : Server /\ S!Shutdown(p)
    \/ \E p \in Processes : Server /\ S!CloseLock(p)
    \/ \E p \in Processes : Server /\ S!UnlinkLock(p)
    \/ \E p \in Processes : Server /\ S!CloseKey(p)
    \/ \E p \in Processes : Server /\ S!UnlinkKey(p)
    \/ \E p \in Processes : Server /\ S!Crash(p)
    \/ Server /\ S!NewClient(c1)
    \/ Server /\ S!LoadPathName(c1)
    \/ Server /\ S!StampPathName(c1)
    \/ Server /\ S!Connect(c1)
    \/ Server /\ S!Tick
    \* SessionWatchDog
    \/ WatchDog /\ W!RunStarts
    \/ WatchDog /\ W!ReceivedStop
    \/ WatchDog /\ W!IdleEnds
    \/ WatchDog /\ W!Sample
    \/ WatchDog /\ W!CheckLoads
    \/ WatchDog /\ W!CallSucceeds
    \/ WatchDog /\ W!CallFails
    \/ WatchDog /\ W!PingWaitEnds
    \/ WatchDog /\ W!PingSucceeds
    \/ WatchDog /\ W!PingFails
    \/ WatchDog /\ W!Fatal
    \/ WatchDog /\ W!Terminate
    \/ WatchDog /\ W!EvalCleanup
    \/ WatchDog /\ W!Others
    \/ WatchDog /\ W!SetBack
    \/ WatchDog /\ W!Passes

AnySpec ==
    /\ AnyInit /\ [][AnyNext]_all
    \* Fairness of the modules
    /\ WF_vars(part = "reloader" /\ Run)
    /\ WF_vars(part = "reloader" /\ Find)
    /\ SF_vars(part = "reloader" /\ Reload)
    /\ WF_rendererVars(part = "renderer" /\ R!ClientStep)
    /\ WF_rendererVars(part = "renderer" /\ R!LauncherStep)
    /\ \A p \in Processes : WF_serverVars(part = "server" /\ S!ServerStep(p))
    /\ WF_serverVars(part = "server" /\ S!ClientStep(c1))
    /\ WF_watchDogVars(part = "watch dog" /\ W!WDStep)

-----------------------------------------------------------------------------
(***************************************************************************)
(* The properties of the parts.                                            *)
(***************************************************************************)
\* ParkedIsFlushed of RendererClient: an UPDATE left to the launcher thread
\* is shown, replaced, or its launch fails.
ParkedIsFlushed == R!ParkedIsFlushed

\* AtMostOneServer of ServerProcess: one process is inside the mutex.
AtMostOneServer == S!AtMostOneServer

\* ClientsConnect of ServerProcess: clients find a server that keeps serving.
ClientsConnect == S!ClientsConnect

\* JoinReturns of SessionWatchDog: Terminate returns.
JoinReturns == W!JoinReturns
=============================================================================
