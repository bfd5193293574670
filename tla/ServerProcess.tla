---------------------------- MODULE ServerProcess ----------------------------
(***************************************************************************)
(* How the one server process of a user is kept single and is found: the   *)
(* lock file of MozcServer::Run (base/process_mutex.cc), the key file that *)
(* tells the clients its socket (ipc/ipc_path_manager.cc), and the socket  *)
(* itself (ipc/unix_ipc.cc), as they are on Linux.                         *)
(*                                                                         *)
(* A file is an inode under a name: unlink takes the name away and leaves  *)
(* the inode, with its fcntl lock, to whoever has it open.  Every process  *)
(* creates at most one inode per name and one key, so the inode and the    *)
(* key are named by the process.  A file descriptor is closed, and its     *)
(* lock given up, by close or by the end of the process.                   *)
(***************************************************************************)
EXTENDS Integers

CONSTANTS
    Servers,        \* server processes, each launched at most once
    Clients,
    None,
    NoOverlap,      \* no server starts while another one exits
    MaxTime         \* bound: seconds

VARIABLES
    now,
    \* server processes
    sp,             \* where MozcServer::Run is
    \* the lock file and the key file: name, descriptors, locks, contents
    lock_name, lock_fd, lock_owner,
    key_name, key_fd, key_owner, key_content, mtime,
    \* client processes: IPCClient::Init and the IPCPathManager of the process
    cp, trial, key, last_modified, connected

lockVars == <<lock_name, lock_fd, lock_owner>>
keyVars == <<key_name, key_fd, key_owner, key_content, mtime>>
clientVars == <<cp, trial, key, last_modified, connected>>
vars == <<now, sp, lockVars, keyVars, clientVars>>

Init ==
    /\ now = 0
    /\ sp = [p \in Servers |-> "none"]
    /\ lock_name = None
    /\ lock_fd = [p \in Servers |-> None]
    /\ lock_owner = [i \in Servers |-> None]
    /\ key_name = None
    /\ key_fd = [p \in Servers |-> None]
    /\ key_owner = [i \in Servers |-> None]
    /\ key_content = [i \in Servers |-> None]
    /\ mtime = [i \in Servers |-> 0]
    /\ cp = [c \in Clients |-> "idle"]
    /\ trial = [c \in Clients |-> 0]
    /\ key = [c \in Clients |-> None]
    /\ last_modified = [c \in Clients |-> -1]
    /\ connected = [c \in Clients |-> None]

-----------------------------------------------------------------------------
(***************************************************************************)
(* Server processes.                                                       *)
(***************************************************************************)
Starting == {"started", "lock_open", "locked", "listening", "key_open", "key_locked"}
Exiting == {"shut", "lock_closed", "unlocked", "key_closed"}
Listening(p) == sp[p] \in {"listening", "key_open", "key_locked", "serving"}
Serving(p) == sp[p] = "serving"

\* Between Lock and UnLock of the mutex "server".
Inside(p) == sp[p] \in {"locked", "listening", "key_open", "key_locked", "serving", "shut"}

Launch(p) ==
    /\ sp[p] = "none"
    /\ NoOverlap => \A q \in Servers : sp[q] \notin Exiting
    /\ sp' = [sp EXCEPT ![p] = "started"]
    /\ UNCHANGED <<now, lockVars, keyVars, clientVars>>

OpenLock_RemovesOld(p) ==
    /\ sp[p] = "started"
    /\ lock_name' = p
    /\ lock_fd' = [lock_fd EXCEPT ![p] = p]
    /\ sp' = [sp EXCEPT ![p] = "lock_open"]
    /\ UNCHANGED <<now, lock_owner, keyVars, clientVars>>

\* FileLockManager::Lock: open(O_CREAT | O_TRUNC) ...
OpenLock(p) ==
    /\ sp[p] = "started"
    /\ lock_name' = IF lock_name = None THEN p ELSE lock_name
    /\ lock_fd' = [lock_fd EXCEPT ![p] = lock_name']
    /\ sp' = [sp EXCEPT ![p] = "lock_open"]
    /\ UNCHANGED <<now, lock_owner, keyVars, clientVars>>

\* ... and fcntl(F_SETLK).  A process that does not get it ends, and its
\* ProcessMutex was never locked_, so it leaves the file alone.
LockServer(p) ==
    /\ sp[p] = "lock_open"
    /\ IF lock_owner[lock_fd[p]] = None
       THEN /\ lock_owner' = [lock_owner EXCEPT ![lock_fd[p]] = p]
            /\ sp' = [sp EXCEPT ![p] = "locked"]
            /\ UNCHANGED lock_fd
       ELSE /\ lock_fd' = [lock_fd EXCEPT ![p] = None]
            /\ sp' = [sp EXCEPT ![p] = "gone"]
            /\ UNCHANGED lock_owner
    /\ UNCHANGED <<now, lock_name, keyVars, clientVars>>

\* IPCServer: CreateNewPathName, a key of its own; bind and listen.
Listen(p) ==
    /\ sp[p] = "locked"
    /\ sp' = [sp EXCEPT ![p] = "listening"]
    /\ UNCHANGED <<now, lockVars, keyVars, clientVars>>

\* SavePathName: LockAndWrite on the key file.  The file is truncated when it
\* is opened, before it is locked.
OpenKey(p) ==
    /\ sp[p] = "listening"
    /\ key_name' = IF key_name = None THEN p ELSE key_name
    /\ key_fd' = [key_fd EXCEPT ![p] = key_name']
    /\ key_content' = [key_content EXCEPT ![key_name'] = None]
    /\ mtime' = [mtime EXCEPT ![key_name'] = now]
    /\ sp' = [sp EXCEPT ![p] = "key_open"]
    /\ UNCHANGED <<now, lockVars, key_owner, clientVars>>

\* Without the lock the server is not Connected, and Run returns.
LockKey(p) ==
    /\ sp[p] = "key_open"
    /\ IF key_owner[key_fd[p]] = None
       THEN /\ key_owner' = [key_owner EXCEPT ![key_fd[p]] = p]
            /\ sp' = [sp EXCEPT ![p] = "key_locked"]
            /\ UNCHANGED key_fd
       ELSE /\ key_fd' = [key_fd EXCEPT ![p] = None]
            /\ sp' = [sp EXCEPT ![p] = "shut"]
            /\ UNCHANGED key_owner
    /\ UNCHANGED <<now, lockVars, key_name, key_content, mtime, clientVars>>

WriteKey(p) ==
    /\ sp[p] = "key_locked"
    /\ key_content' = [key_content EXCEPT ![key_fd[p]] = p]
    /\ mtime' = [mtime EXCEPT ![key_fd[p]] = now]
    /\ sp' = [sp EXCEPT ![p] = "serving"]
    /\ UNCHANGED <<now, lockVars, key_name, key_fd, key_owner, clientVars>>

\* SHUTDOWN: the loop ends and the socket is closed.
Shutdown(p) ==
    /\ Serving(p)
    /\ NoOverlap => \A q \in Servers : sp[q] \notin Starting
    /\ sp' = [sp EXCEPT ![p] = "shut"]
    /\ UNCHANGED <<now, lockVars, keyVars, clientVars>>

\* FileLockManager::UnLock of "server": close, which gives the lock up ...
CloseLock(p) ==
    /\ sp[p] = "shut"
    /\ lock_owner' = [lock_owner EXCEPT ![lock_fd[p]] = None]
    /\ lock_fd' = [lock_fd EXCEPT ![p] = None]
    /\ sp' = [sp EXCEPT ![p] = "lock_closed"]
    /\ UNCHANGED <<now, lock_name, keyVars, clientVars>>

\* ... and Unlink of whatever has the name now.
UnlinkLock(p) ==
    /\ sp[p] = "lock_closed"
    /\ lock_name' = None
    /\ sp' = [sp EXCEPT ![p] = "unlocked"]
    /\ UNCHANGED <<now, lock_fd, lock_owner, keyVars, clientVars>>

\* MozcServer::Finalize destroys the IPCPathManager, and with it path_mutex_:
\* the same for the key file, when the server had locked it.
CloseKey(p) ==
    /\ sp[p] = "unlocked"
    /\ IF key_fd[p] = None
       THEN sp' = [sp EXCEPT ![p] = "gone"] /\ UNCHANGED <<key_fd, key_owner>>
       ELSE /\ key_owner' = [key_owner EXCEPT ![key_fd[p]] = None]
            /\ key_fd' = [key_fd EXCEPT ![p] = None]
            /\ sp' = [sp EXCEPT ![p] = "key_closed"]
    /\ UNCHANGED <<now, lockVars, key_name, key_content, mtime, clientVars>>

UnlinkKey(p) ==
    /\ sp[p] = "key_closed"
    /\ key_name' = None
    /\ sp' = [sp EXCEPT ![p] = "gone"]
    /\ UNCHANGED <<now, lockVars, key_fd, key_owner, key_content, mtime, clientVars>>

\* The process crashes or is killed: its descriptors close, the files stay.
Crash(p) ==
    /\ sp[p] \notin {"none", "gone"}
    /\ lock_owner' = [i \in Servers |-> IF lock_owner[i] = p THEN None ELSE lock_owner[i]]
    /\ lock_fd' = [lock_fd EXCEPT ![p] = None]
    /\ key_owner' = [i \in Servers |-> IF key_owner[i] = p THEN None ELSE key_owner[i]]
    /\ key_fd' = [key_fd EXCEPT ![p] = None]
    /\ sp' = [sp EXCEPT ![p] = "gone"]
    /\ UNCHANGED <<now, lock_name, key_name, key_content, mtime, clientVars>>

ServerStep(p) ==
    \/ OpenLock(p) \/ LockServer(p) \/ Listen(p) \/ OpenKey(p) \/ LockKey(p)
    \/ WriteKey(p) \/ CloseLock(p) \/ UnlinkLock(p) \/ CloseKey(p) \/ UnlinkKey(p)

-----------------------------------------------------------------------------
(***************************************************************************)
(* Client processes: IPCClient::Init makes two trials.                     *)
(***************************************************************************)
GetIPCFileTimeStamp == IF key_name = None THEN -1 ELSE mtime[key_name]

NewClient(c) ==
    /\ cp[c] = "idle"
    /\ cp' = [cp EXCEPT ![c] = "load"]
    /\ trial' = [trial EXCEPT ![c] = 1]
    /\ connected' = [connected EXCEPT ![c] = None]
    /\ UNCHANGED <<now, sp, lockVars, keyVars, key, last_modified>>

\* `continue`: the second trial, or the end of Init.
NextTrial(c) ==
    /\ cp' = [cp EXCEPT ![c] = IF trial[c] = 1 THEN "load" ELSE "idle"]
    /\ trial' = [trial EXCEPT ![c] = 2]

\* LoadPathName: the file is read when its time differs from the one read
\* last, or there is no key.  A file without a valid key leaves no key.
LoadPathName(c) ==
    /\ cp[c] = "load"
    /\ IF last_modified[c] = GetIPCFileTimeStamp /\ key[c] # None
       THEN cp' = [cp EXCEPT ![c] = "connect"] /\ UNCHANGED <<trial, key>>
       ELSE IF key_name = None
       THEN NextTrial(c) /\ UNCHANGED key
       ELSE /\ key' = [key EXCEPT ![c] = key_content[key_name]]
            /\ IF key_content[key_name] = None THEN NextTrial(c)
               ELSE cp' = [cp EXCEPT ![c] = "stamp"] /\ UNCHANGED trial
    /\ UNCHANGED <<now, sp, lockVars, keyVars, last_modified, connected>>

\* The time is read after the contents.
StampPathName(c) ==
    /\ cp[c] = "stamp"
    /\ last_modified' = [last_modified EXCEPT ![c] = GetIPCFileTimeStamp]
    /\ cp' = [cp EXCEPT ![c] = "connect"]
    /\ UNCHANGED <<now, sp, lockVars, keyVars, trial, key, connected>>

Connect_KeepsKey(c) ==
    /\ cp[c] = "connect"
    /\ IF Listening(key[c])
       THEN /\ connected' = [connected EXCEPT ![c] = key[c]]
            /\ cp' = [cp EXCEPT ![c] = "idle"]
            /\ UNCHANGED <<trial, key>>
       ELSE /\ NextTrial(c)
            /\ UNCHANGED <<key, connected>>
    /\ UNCHANGED <<now, sp, lockVars, keyVars, last_modified>>

\* A key nobody listens on is forgotten (Clear).
Connect(c) ==
    /\ cp[c] = "connect"
    /\ IF Listening(key[c])
       THEN /\ connected' = [connected EXCEPT ![c] = key[c]]
            /\ cp' = [cp EXCEPT ![c] = "idle"]
            /\ UNCHANGED <<trial, key>>
       ELSE /\ key' = [key EXCEPT ![c] = None]
            /\ NextTrial(c)
            /\ UNCHANGED connected
    /\ UNCHANGED <<now, sp, lockVars, keyVars, last_modified>>

ClientStep(c) == NewClient(c) \/ LoadPathName(c) \/ StampPathName(c) \/ Connect(c)

Tick ==
    /\ now < MaxTime
    /\ now' = now + 1
    /\ UNCHANGED <<sp, lockVars, keyVars, clientVars>>

Next ==
    \/ \E p \in Servers : Launch(p) \/ ServerStep(p) \/ Shutdown(p) \/ Crash(p)
    \/ \E c \in Clients : ClientStep(c)
    \/ Tick

Spec == Init /\ [][Next]_vars

(***************************************************************************)
(* A process that has been started goes on, and a client tries again (it   *)
(* does so at the next key).  Nothing is assumed of launches, shutdowns    *)
(* and crashes.                                                            *)
(***************************************************************************)
Fairness ==
    /\ \A p \in Servers : WF_vars(ServerStep(p))
    /\ \A c \in Clients : WF_vars(ClientStep(c))

FairSpec == Spec /\ Fairness

-----------------------------------------------------------------------------
(***************************************************************************)
(* "process named "foo" is never instatiated inside this block"            *)
(* (base/process_mutex.h:53): at most one process is between Lock and      *)
(* UnLock of the mutex "server" in MozcServer::Run.                        *)
(***************************************************************************)
AtMostOneServer == \A p, q \in Servers : Inside(p) /\ Inside(q) => p = q

(***************************************************************************)
(* When a server goes on serving, a client that keeps trying keeps         *)
(* connecting to it, although its process remembers the key of an earlier  *)
(* server and the time of the file, in seconds, need not tell the two      *)
(* apart (IPCClient::Init).                                                *)
(***************************************************************************)
ClientsConnect ==
    \A c \in Clients :
        <>[](\E p \in Servers : Serving(p)) => []<>(connected[c] # None)
=============================================================================
