--------------------------- MODULE RendererClient ---------------------------
(***************************************************************************)
(* The client of the candidate window (renderer/renderer_client.cc): the   *)
(* thread that calls RendererClient, the thread RendererLauncher runs to   *)
(* start the renderer process, and that process.                           *)
(*                                                                         *)
(* While a renderer is being launched an UPDATE is parked in               *)
(* pending_command_, and the launcher thread sends it when the renderer    *)
(* has signalled that it is ready.  renderer_status_ and error_times_ are  *)
(* volatile and read without the mutex, so every read and write of them is *)
(* a step of its own; pending_command_mutex_ protects pending_command_.    *)
(*                                                                         *)
(* An UPDATE is its number and whether it shows the window (visible with   *)
(* an output).  A call over IPC may be lost, and nobody looks at its       *)
(* result.                                                                 *)
(***************************************************************************)
EXTENDS Naturals

CONSTANTS
    kMaxErrorTimes,    \* launches that may fail before the client gives up
    MaxUpdates,        \* bound: UPDATEs issued
    MaxCrashes         \* bound: renderers that crash

VARIABLES
    \* the caller's thread
    pc, cmd,                 \* where ExecCommand is, and its command
    version_mismatch_nums,
    is_window_visible,
    \* RendererLauncher
    renderer_status, error_times,
    retry_interval_passed,   \* kRetryIntervalTime since last_launch_time_
    pending_command,
    mutex,                   \* whether FlushPendingCommand holds the mutex
    thread,                  \* where Run is; "stopped": is_running is false
    \* the renderer process
    renderer, window,
    crashes,
    \* history
    latest,                  \* the last UPDATE given to ExecCommand
    parked,                  \* an UPDATE left to the launcher thread
    missed                   \* Thread::Start found the old thread running

clientVars == <<pc, cmd, version_mismatch_nums, is_window_visible>>
launcherVars == <<renderer_status, error_times, retry_interval_passed,
                  pending_command, mutex, thread>>
rendererVars == <<renderer, window, crashes>>
history == <<latest, parked, missed>>
vars == <<clientVars, launcherVars, rendererVars, history>>

kMaxVersionMismatchNums == 3
Update(n, visible) == [type |-> "UPDATE", visible |-> visible, n |-> n]
Noop == [type |-> "NOOP", visible |-> FALSE, n |-> 0]
SHUTDOWN == [type |-> "SHUTDOWN", visible |-> FALSE, n |-> 0]
NULL == [type |-> "NULL", visible |-> FALSE, n |-> 0]

\* What may answer on the renderer's name: nothing, a process that does not
\* listen yet, or a renderer of this or of another version.
Connected == renderer \in {"current", "old_protocol", "new_protocol", "old_product"}

Init ==
    /\ pc = "idle" /\ cmd = Noop
    /\ version_mismatch_nums = 0
    /\ is_window_visible = FALSE
    /\ renderer_status = "UNKNOWN" /\ error_times = 0
    /\ retry_interval_passed = FALSE
    /\ pending_command = NULL /\ mutex = FALSE
    /\ thread = "stopped"
    /\ renderer \in {"none", "current", "old_protocol", "new_protocol", "old_product"}
    /\ window = NULL
    /\ crashes = 0
    /\ latest = NULL /\ parked = NULL /\ missed = FALSE

-----------------------------------------------------------------------------
(***************************************************************************)
(* The caller's thread.                                                    *)
(***************************************************************************)
CanConnect ==
    \/ renderer_status \in {"UNKNOWN", "READY"}
    \/ /\ renderer_status \in {"TIMEOUT", "TERMINATED"}
       /\ error_times <= kMaxErrorTimes
       /\ retry_interval_passed

IsAvailable == renderer_status = "READY"

SetPendingCommand ==
    IF cmd.type = "UPDATE" THEN ~mutex /\ pending_command' = cmd
    ELSE UNCHANGED pending_command

ExecCommand(c) ==
    /\ pc = "idle"
    /\ cmd' = c
    /\ pc' = IF CanConnect THEN "send" ELSE "park"
    /\ latest' = IF c.type = "UPDATE" THEN c ELSE latest
    /\ parked' = IF c.type = "UPDATE" THEN NULL ELSE parked
    /\ UNCHANGED <<version_mismatch_nums, is_window_visible, launcherVars,
                   rendererVars, missed>>

IssueUpdate(visible) ==
    /\ latest.n < MaxUpdates
    /\ ExecCommand(Update(latest.n + 1, visible))

Activate == ~IsAvailable /\ ExecCommand(Noop)

Shutdown == Connected /\ ExecCommand(SHUTDOWN)

\* What the end of the process does to its window.
RendererEnds == renderer' = "none" /\ window' = NULL

ForceShutdown ==
    /\ pc = "idle" /\ Connected
    /\ RendererEnds
    /\ UNCHANGED <<clientVars, launcherVars, crashes, history>>

\* Checks CanConnect again, the status may have changed meanwhile.
Park ==
    /\ pc = "park"
    /\ SetPendingCommand
    /\ pc' = "recheck"
    /\ UNCHANGED <<cmd, version_mismatch_nums, is_window_visible,
                   renderer_status, error_times, retry_interval_passed, mutex,
                   thread, rendererVars, history>>

Recheck_Omitted ==
    /\ pc = "recheck"
    /\ pc' = "idle"
    /\ parked' = IF cmd.type = "UPDATE" THEN cmd ELSE parked
    /\ UNCHANGED <<cmd, version_mismatch_nums, is_window_visible, launcherVars,
                   rendererVars, latest, missed>>

Recheck ==
    /\ pc = "recheck"
    /\ IF CanConnect
       THEN pc' = "send" /\ UNCHANGED parked
       ELSE /\ pc' = "idle"
            /\ parked' = IF cmd.type = "UPDATE" THEN cmd ELSE parked
    /\ UNCHANGED <<cmd, version_mismatch_nums, is_window_visible, launcherVars,
                   rendererVars, latest, missed>>

Sending == pc = "send" /\ version_mismatch_nums < kMaxVersionMismatchNums

\* Too many mismatches, or IPCClient::Init timed out: the command is dropped.
SendDropped ==
    /\ pc = "send"
    /\ pc' = "idle"
    /\ UNCHANGED <<cmd, version_mismatch_nums, is_window_visible, launcherVars,
                   rendererVars, history>>

\* Nobody is listening: a HIDE needs no renderer, everything else starts one.
SendNotConnected ==
    /\ Sending /\ ~Connected
    /\ is_window_visible' = cmd.visible
    /\ pc' = IF cmd.type = "UPDATE" /\ ~cmd.visible THEN "idle" ELSE "start"
    /\ UNCHANGED <<cmd, version_mismatch_nums, launcherVars, rendererVars, history>>

\* ForceTerminateRenderer, which may fail; the command waits for a launch.
SendToOldProtocol ==
    /\ Sending /\ renderer = "old_protocol"
    /\ is_window_visible' = cmd.visible
    /\ version_mismatch_nums' = version_mismatch_nums + 1
    /\ RendererEnds \/ UNCHANGED <<renderer, window>>
    /\ pc' = "stash"
    /\ UNCHANGED <<cmd, launcherVars, crashes, history>>

Stash ==
    /\ pc = "stash"
    /\ SetPendingCommand
    /\ pc' = "idle"
    /\ UNCHANGED <<cmd, version_mismatch_nums, is_window_visible,
                   renderer_status, error_times, retry_interval_passed, mutex,
                   thread, rendererVars, history>>

\* OnFatal; the client never sends again.
SendToNewProtocol ==
    /\ Sending /\ renderer = "new_protocol"
    /\ is_window_visible' = cmd.visible
    /\ version_mismatch_nums' = kMaxVersionMismatchNums
    /\ pc' = "idle"
    /\ UNCHANGED <<cmd, launcherVars, rendererVars, history>>

\* The command waits for a launch, and the old renderer is told to end.
SendToOldProduct ==
    /\ Sending /\ renderer = "old_product"
    /\ SetPendingCommand
    /\ is_window_visible' = cmd.visible
    /\ version_mismatch_nums' = version_mismatch_nums + 1
    /\ RendererEnds \/ UNCHANGED <<renderer, window>>
    /\ pc' = "idle"
    /\ UNCHANGED <<cmd, renderer_status, error_times, retry_interval_passed,
                   mutex, thread, crashes, history>>

\* CallCommand: what the renderer does with c, unless the call is lost.
CallCommand(c) ==
    \/ UNCHANGED <<renderer, window>>
    \/ /\ c.type = "UPDATE"
       /\ window' = c /\ UNCHANGED renderer
    \/ /\ c.type = "SHUTDOWN"
       /\ RendererEnds

SendToCurrent ==
    /\ Sending /\ renderer = "current"
    /\ is_window_visible' = cmd.visible
    /\ CallCommand(cmd)
    /\ pc' = "idle"
    /\ UNCHANGED <<cmd, version_mismatch_nums, launcherVars, crashes, history>>

\* SetPendingCommand, and then StartRenderer: the status is set, and the
\* thread is started unless it is still running.
PendBeforeStart ==
    /\ pc = "start"
    /\ SetPendingCommand
    /\ pc' = "launch"
    /\ UNCHANGED <<cmd, version_mismatch_nums, is_window_visible,
                   renderer_status, error_times, retry_interval_passed, mutex,
                   thread, rendererVars, history>>

StartRenderer ==
    /\ pc = "launch"
    /\ renderer_status' = "LAUNCHING"
    /\ pc' = "thread"
    /\ UNCHANGED <<cmd, version_mismatch_nums, is_window_visible, error_times,
                   retry_interval_passed, pending_command, mutex, thread,
                   rendererVars, history>>

ThreadStart ==
    /\ pc = "thread"
    /\ thread' = IF thread = "stopped" THEN "run" ELSE thread
    /\ missed' = (thread # "stopped")
    /\ parked' = IF cmd.type = "UPDATE" THEN cmd ELSE parked
    /\ pc' = "idle"
    /\ UNCHANGED <<cmd, version_mismatch_nums, is_window_visible,
                   renderer_status, error_times, retry_interval_passed,
                   pending_command, mutex, rendererVars, latest>>

ClientStep ==
    \/ Park \/ Recheck
    \/ SendDropped \/ SendNotConnected \/ SendToOldProtocol \/ Stash
    \/ SendToNewProtocol \/ SendToOldProduct \/ SendToCurrent
    \/ PendBeforeStart \/ StartRenderer \/ ThreadStart

-----------------------------------------------------------------------------
(***************************************************************************)
(* The launcher thread: RendererLauncher::Run.                             *)
(***************************************************************************)
\* SpawnProcess fails: FATAL, and no more launches.
SpawnFails ==
    /\ thread = "run"
    /\ retry_interval_passed' = FALSE
    /\ renderer_status' = "FATAL"
    /\ thread' = "end"
    /\ UNCHANGED <<clientVars, error_times, pending_command, mutex,
                   rendererVars, history>>

\* The process is started, and the thread waits, or sleeps when it has no
\* listener.  A second renderer finds the name taken and ends.
Spawn ==
    /\ thread = "run"
    /\ retry_interval_passed' = FALSE
    /\ renderer' = IF renderer = "none" THEN "starting" ELSE renderer
    /\ thread' \in {IF renderer = "none" THEN "wait" ELSE "wait_second", "sleep"}
    /\ UNCHANGED <<clientVars, renderer_status, error_times, pending_command,
                   mutex, window, crashes, history>>

\* WaitEventOrProcess: the process has ended, or kRendererWaitTimeout is over,
\* which is no shorter than kRetryIntervalTime.
LaunchFails ==
    /\ thread \in {"wait", "wait_second"}
    /\ \/ /\ renderer = "none" \/ thread = "wait_second"
          /\ renderer_status' = "TERMINATED"
          /\ UNCHANGED retry_interval_passed
       \/ /\ renderer_status' = "TIMEOUT"
          /\ retry_interval_passed' = TRUE
    /\ thread' = "count"
    /\ UNCHANGED <<clientVars, error_times, pending_command, mutex,
                   rendererVars, history>>

CountError ==
    /\ thread = "count"
    /\ error_times' = error_times + 1
    /\ thread' = "end"
    /\ UNCHANGED <<clientVars, renderer_status, retry_interval_passed,
                   pending_command, mutex, rendererVars, history>>

\* The renderer has signalled, or there is no listener and the sleep is over.
\* FlushPendingCommand takes the mutex ...
FlushBegins ==
    /\ \/ thread \in {"wait", "wait_second"} /\ renderer = "current"
       \/ thread = "sleep"
    /\ mutex' = TRUE
    /\ thread' = "flush"
    /\ UNCHANGED <<clientVars, renderer_status, error_times,
                   retry_interval_passed, pending_command, rendererVars, history>>

\* ... and before it gives it back the status is READY.
FlushPendingCommand ==
    /\ thread = "flush"
    /\ IF Connected THEN CallCommand(pending_command)
       ELSE UNCHANGED <<renderer, window>>
    /\ pending_command' = NULL
    /\ parked' = NULL
    /\ renderer_status' = "READY"
    /\ error_times' = 0
    /\ mutex' = FALSE
    /\ thread' = "ready"
    /\ UNCHANGED <<clientVars, retry_interval_passed, crashes, latest, missed>>

\* Run sets them once more after FlushPendingCommand.
SetReady ==
    /\ thread = "ready"
    /\ renderer_status' = "READY"
    /\ error_times' = 0
    /\ thread' = "end"
    /\ UNCHANGED <<clientVars, retry_interval_passed, pending_command, mutex,
                   rendererVars, history>>

\* PThreadCleanupRoutine: is_running is false from here on.
ThreadEnds ==
    /\ thread = "end"
    /\ thread' = "stopped"
    /\ UNCHANGED <<clientVars, renderer_status, error_times,
                   retry_interval_passed, pending_command, mutex,
                   rendererVars, history>>

LauncherStep ==
    \/ SpawnFails \/ Spawn \/ LaunchFails \/ CountError \/ FlushBegins
    \/ FlushPendingCommand \/ SetReady \/ ThreadEnds

-----------------------------------------------------------------------------
(***************************************************************************)
(* The renderer process and the clock.                                     *)
(***************************************************************************)
RendererListens ==
    /\ renderer = "starting"
    /\ renderer' = "current"
    /\ UNCHANGED <<clientVars, launcherVars, window, crashes, history>>

RendererCrashes ==
    /\ renderer # "none" /\ crashes < MaxCrashes
    /\ RendererEnds
    /\ crashes' = crashes + 1
    /\ UNCHANGED <<clientVars, launcherVars, history>>

TimePasses ==
    /\ ~retry_interval_passed /\ thread = "stopped"
    /\ retry_interval_passed' = TRUE
    /\ UNCHANGED <<clientVars, renderer_status, error_times, pending_command,
                   mutex, thread, rendererVars, history>>

Next ==
    \/ \E visible \in BOOLEAN : IssueUpdate(visible)
    \/ Activate \/ Shutdown \/ ForceShutdown
    \/ ClientStep
    \/ LauncherStep
    \/ RendererListens \/ RendererCrashes \/ TimePasses

Spec == Init /\ [][Next]_vars

(***************************************************************************)
(* Both threads are scheduled, and the waits of Run are bounded by         *)
(* kRendererWaitTimeout and kRendererWaitSleepTime.  Nothing is assumed of *)
(* the caller's next command, of the renderer or of the clock.             *)
(***************************************************************************)
Fairness == WF_vars(ClientStep) /\ WF_vars(LauncherStep)
FairSpec == Spec /\ Fairness

-----------------------------------------------------------------------------
(***************************************************************************)
(* An UPDATE that ExecCommand leaves to the launcher thread (parked while  *)
(* a launch is under way, or given with the launch it starts) is flushed,  *)
(* or a later UPDATE replaces it, or the launch fails.  It is never left   *)
(* behind by a launch that has just finished: the check of CanConnect      *)
(* after SetPendingCommand in ExecCommand is there for that.  The one      *)
(* exception is a StartRenderer whose Thread::Start does nothing, because  *)
(* the thread of the launch before has set the status and not yet ended.   *)
(***************************************************************************)
GaveUp == renderer_status \in {"TIMEOUT", "TERMINATED", "FATAL"}
ParkedIsFlushed == (parked # NULL) ~> (parked = NULL \/ GaveUp \/ missed)

(***************************************************************************)
(* Activate launches the renderer and "must not have any visible change"   *)
(* (renderer/renderer_interface.h:53): while no command is under way, a    *)
(* window that appears is the one of the latest UPDATE, so it does not     *)
(* come back after the client has hidden it.                               *)
(***************************************************************************)
ActivateShowsNothing ==
    [][pc = "idle" /\ window' # window /\ window'.visible => window' = latest]_vars
=============================================================================
