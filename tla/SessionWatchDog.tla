--------------------------- MODULE SessionWatchDog ---------------------------
(***************************************************************************)
(* The watch dog thread of the server (session/session_watch_dog.cc)       *)
(* composed with the session handler it sends Cleanup to.                  *)
(*                                                                         *)
(* The thread waits, samples the CPU load, and sends Cleanup over IPC to   *)
(* its own process; when the call fails it pings, and when nothing answers *)
(* it ends the process.  The server evaluates commands one after the other *)
(* (queue holds the Cleanups it has not got to), and when it stops serving *)
(* its main thread terminates the watch dog and joins it.                  *)
(*                                                                         *)
(* UnnamedEvent::Wait waits for a reading of the wall clock, so a suspend  *)
(* ends a wait, and setting the clock back prolongs it.  Of the commands   *)
(* of SessionHandler the module takes the ones that touch what Cleanup     *)
(* looks at.                                                               *)
(***************************************************************************)
EXTENDS SessionHandler, Sequences

CONSTANTS
    Load,              \* CPU loads in percent
    SuspendSteps,      \* how long the machine may be suspended
    BackSteps,         \* how far the clock may be set back
    CallsMayFail       \* whether calls to a serving server may time out

ASSUME WatchDogAssumptions ==
    /\ Load \subseteq 0..100
    /\ SuspendSteps \subseteq Nat /\ BackSteps \subseteq Nat
    /\ CallsMayFail \in BOOLEAN

VARIABLES
    wd,                \* where Run is
    notified,          \* event_: notified_
    deadline,          \* when the current Wait times out
    cpu_loads,         \* cpu_loads, up to cpu_loads_index
    wd_last_cleanup,   \* the last_cleanup_time of Run
    trial,             \* pings that failed in a row
    queue,             \* Cleanups sent that the server has not evaluated
    terminating,       \* whether the main thread is in Terminate
    slept              \* seconds suspended since the last Cleanup (history)

wdVars == <<wd, notified, deadline, cpu_loads, wd_last_cleanup, trial>>
allVars == <<vars, wdVars, queue, terminating, slept>>

kPingTrial == 3
kPingInterval == 1
idle_interval == IF interval > 60 THEN interval - 60 ELSE 0
cpu_check_interval == IF interval < 60 THEN interval ELSE 60
cpu_check_duration == IF interval < 5 THEN interval ELSE 5

WDInit ==
    /\ Init
    /\ wd = "off"
    /\ notified = FALSE
    /\ deadline = 0
    /\ cpu_loads = <<>>
    /\ wd_last_cleanup = 0
    /\ trial = 0
    /\ queue = 0
    /\ terminating = FALSE
    /\ slept = 0

-----------------------------------------------------------------------------
(***************************************************************************)
(* UnnamedEvent.  A Wait that begins after Notify returns at once, so it   *)
(* has no deadline.  One that times out leaves notified_ alone, even when  *)
(* Notify came at the same moment: the next Wait will see it.              *)
(***************************************************************************)
Never == MaxTime + 1

StartWait(at, seconds) ==
    /\ wd' = at
    /\ deadline' = IF notified' THEN Never ELSE now + seconds

WaitTimesOut_Clears == now >= deadline /\ notified' = FALSE
WaitTimesOut == now >= deadline /\ UNCHANGED notified

Waiting == wd \in {"idle", "sampling", "ping_wait", "last_wait"}

\* A Wait that was notified ends Run.
ReceivedStop ==
    /\ Waiting
    /\ notified
    /\ wd' = "exited"
    /\ notified' = FALSE
    /\ UNCHANGED <<vars, deadline, cpu_loads, wd_last_cleanup, trial, queue,
                   terminating, slept>>

-----------------------------------------------------------------------------
(***************************************************************************)
(* SessionWatchDog::Run                                                    *)
(***************************************************************************)
RunStarts ==
    /\ StartWatchDog
    /\ wd = "off"
    /\ UNCHANGED notified
    /\ StartWait("idle", idle_interval)
    /\ wd_last_cleanup' = now
    /\ UNCHANGED <<cpu_loads, trial, queue, terminating, slept>>

IdleEnds ==
    /\ wd = "idle"
    /\ WaitTimesOut
    /\ StartWait("sampling", cpu_check_duration)
    /\ UNCHANGED <<vars, cpu_loads, wd_last_cleanup, trial, queue, terminating, slept>>

Sample ==
    /\ wd = "sampling"
    /\ WaitTimesOut
    /\ \E load \in Load : cpu_loads' = Append(cpu_loads, load)
    /\ IF Len(cpu_loads') * cpu_check_duration < cpu_check_interval
       THEN StartWait("sampling", cpu_check_duration)
       ELSE wd' = "check" /\ deadline' = 0
    /\ UNCHANGED <<vars, wd_last_cleanup, trial, queue, terminating, slept>>

\* The sum of the loads i..j.
SumOf(loads, i, j) ==
    LET sum[n \in (i - 1)..j] == IF n < i THEN 0 ELSE sum[n - 1] + loads[n]
    IN  sum[j]

CanSendCleanupCommand ==
    LET n      == Len(cpu_loads)
        latest == IF n < 2 THEN n ELSE 2
    IN  /\ now > wd_last_cleanup
        /\ SumOf(cpu_loads, 1, n) <= 33 * n
        /\ SumOf(cpu_loads, 1, latest) <= 66 * latest
        /\ now - wd_last_cleanup <= 2 * interval

StartIdle == StartWait("idle", idle_interval)

CheckLoads ==
    /\ wd = "check"
    /\ UNCHANGED notified
    /\ wd_last_cleanup' = now
    /\ cpu_loads' = <<>>
    /\ \/ /\ CanSendCleanupCommand
          /\ wd' = "call"
          /\ queue' = queue + 1
          /\ UNCHANGED deadline
       \/ /\ ~CanSendCleanupCommand
          /\ StartIdle
          /\ UNCHANGED queue
    /\ UNCHANGED <<vars, trial, terminating, slept>>

CallSucceeds ==
    /\ wd = "call"
    /\ queue = 0
    /\ UNCHANGED notified
    /\ StartIdle
    /\ UNCHANGED <<vars, cpu_loads, wd_last_cleanup, trial, queue, terminating, slept>>

CallFails_NoPing ==
    /\ wd = "call"
    /\ queue > 0
    /\ is_available => CallsMayFail
    /\ UNCHANGED notified
    /\ StartIdle
    /\ UNCHANGED <<vars, cpu_loads, wd_last_cleanup, trial, queue, terminating, slept>>

\* The call timed out.  The server still finds it when it gets there.
CallFails ==
    /\ wd = "call"
    /\ queue > 0
    /\ is_available => CallsMayFail
    /\ UNCHANGED notified
    /\ StartWait("ping_wait", kPingInterval)
    /\ UNCHANGED <<vars, cpu_loads, wd_last_cleanup, trial, queue, terminating, slept>>

PingWaitEnds ==
    /\ wd = "ping_wait"
    /\ WaitTimesOut
    /\ wd' = "ping"
    /\ UNCHANGED <<vars, deadline, cpu_loads, wd_last_cleanup, trial, queue,
                   terminating, slept>>

\* The server answers in the order of the calls.
PingSucceeds ==
    /\ wd = "ping"
    /\ is_available /\ queue = 0
    /\ UNCHANGED notified
    /\ StartIdle
    /\ trial' = 0
    /\ UNCHANGED <<vars, cpu_loads, wd_last_cleanup, queue, terminating, slept>>

PingFails ==
    /\ wd = "ping"
    /\ is_available => CallsMayFail
    /\ UNCHANGED notified
    /\ trial' = trial + 1
    /\ IF trial' < kPingTrial
       THEN StartWait("ping_wait", kPingInterval)
       ELSE StartWait("last_wait", 0)
    /\ UNCHANGED <<vars, cpu_loads, wd_last_cleanup, queue, terminating, slept>>

\* LOG(FATAL)
Fatal ==
    /\ wd = "last_wait"
    /\ WaitTimesOut
    /\ wd' = "fatal"
    /\ UNCHANGED <<vars, deadline, cpu_loads, wd_last_cleanup, trial, queue,
                   terminating, slept>>

-----------------------------------------------------------------------------
(***************************************************************************)
(* The main thread, the server loop and the machine.                       *)
(***************************************************************************)
\* Terminate, from ~SessionHandler once the server stopped serving.
Terminate ==
    /\ ~is_available
    /\ watch_dog_running
    /\ ~terminating
    /\ terminating' = TRUE
    /\ notified' = TRUE
    /\ UNCHANGED <<vars, wd, deadline, cpu_loads, wd_last_cleanup, trial,
                   queue, slept>>

EvalCleanup ==
    /\ queue > 0
    /\ Cleanup
    /\ queue' = queue - 1
    /\ slept' = 0
    /\ UNCHANGED <<wdVars, terminating>>

EvalOther ==
    /\ \/ \E app \in alive \cup {NoProcess} : CreateSession(app)
       \/ \E id \in SessionID : SendKey(id)
       \/ \E id \in SessionID : DeleteSession(id)
       \/ Shutdown
    /\ UNCHANGED <<wdVars, queue, terminating, slept>>

Clock(t, asleep) ==
    /\ t \in 1..MaxTime
    /\ now' = t
    /\ slept' = slept + asleep
    /\ UNCHANGED <<alive, is_available, mapVars, timeVars, watch_dog_running,
                   engineVars, updated, configVars, wdVars, queue, terminating>>

Suspend == \E d \in SuspendSteps : Clock(now + d, d)
SetBack == \E d \in BackSteps : Clock(now - d, 0)
Passes  == \E d \in TickSteps : Clock(now + d, 0)

Others ==
    \/ EvalOther
    \/ (ProcessExits \/ SaverEnds) /\ UNCHANGED <<wdVars, queue, terminating, slept>>

WDStep ==
    \/ ReceivedStop \/ IdleEnds \/ Sample \/ CheckLoads
    \/ CallSucceeds \/ CallFails
    \/ PingWaitEnds \/ PingSucceeds \/ PingFails \/ Fatal

WDNext ==
    /\ wd # "fatal"
    /\ RunStarts \/ WDStep \/ Terminate \/ EvalCleanup \/ Others
       \/ Suspend \/ SetBack \/ Passes

WDSpec == WDInit /\ [][WDNext]_allVars

\* The watch dog thread is scheduled, and its calls time out.
WDFairSpec == WDSpec /\ WF_allVars(WDStep)
-----------------------------------------------------------------------------
(***************************************************************************)
(* Properties                                                              *)
(***************************************************************************)
\* There is never a second Cleanup waiting in the server: Run goes on after a
\* call that timed out only when a ping was answered, and the server answers
\* in order.  (A server that blocks is not flooded, and the Cleanup after a
\* suspend is not evaluated twice.)
OneCleanupWaiting == queue <= 1

\* Cleanup sees that more than its interval has passed.
FindsSuspend == last_cleanup_time # 0 /\ now - last_cleanup_time > 2 * interval

\* Unused for its timeout, less one interval, while the machine was awake.
UnusedAwake(s) ==
    LET t == IF s.last_command_time = 0
             THEN Clamp(FLAGS_last_create_session_timeout, 1, 600)
             ELSE Clamp(FLAGS_last_command_timeout, 10, 7200)
    IN  now - LastUse(s) - slept >= t - interval

ForgivesSuspend ==
    EvalCleanup /\ FindsSuspend =>
        \A id \in Sessions \ DOMAIN session_map' :
            IsApplicationAlive(session_map[id]) => UnusedAwake(session_map[id])

\* The Cleanup that finds a suspend takes a living session away only if it
\* was unused for its timeout, less one interval, without counting the time
\* the machine slept since the last Cleanup.
SuspendForgiven == [][ForgivesSuspend]_allVars

\* Terminate returns: once the event is notified Run ends, wherever it was,
\* or the process is gone.
JoinReturns == terminating ~> wd \in {"exited", "fatal"}
=============================================================================
