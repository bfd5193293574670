-------------------------- MODULE ServerProcessProofs --------------------------
(***************************************************************************)
(* AtMostOneServer of ServerProcess, for any number of server processes    *)
(* and clients and with crashes at any step, if no server starts while     *)
(* another one exits (NoOverlap); without that the lock does not exclude,  *)
(* which the run server_overlap shows.                                     *)
(*                                                                         *)
(* The lock excludes only processes that have opened the same inode.  So   *)
(* the strengthening says that whoever is inside, or about to lock, has    *)
(* opened the inode that has the name now, and that an exiting server,     *)
(* which will take the name away, is alone.  A server that cannot lock the *)
(* key file would exit beside the others; that no server meets this rests  *)
(* on the owners of the key file, the last three conjuncts.                *)
(***************************************************************************)
EXTENDS ServerProcess, TLAPS

Process == Servers \cup {None}
Holding == {"locked", "listening", "key_open", "key_locked", "serving", "shut"}

Types ==
    /\ sp \in [Servers -> {"none", "gone", "serving"} \cup Starting \cup Exiting]
    /\ lock_name \in Process
    /\ lock_fd \in [Servers -> Process]
    /\ lock_owner \in [Servers -> Process]
    /\ key_name \in Process
    /\ key_fd \in [Servers -> Process]
    /\ key_owner \in [Servers -> Process]

IInv ==
    /\ Types
    /\ \A p, q \in Servers :
          sp[p] \in Exiting /\ p # q => sp[q] \in {"none", "gone"}
    /\ \A p \in Servers :
          sp[p] \in Holding \cup {"lock_open"}
              => lock_name \in Servers /\ lock_fd[p] = lock_name
    /\ \A p \in Servers : sp[p] \in Holding => lock_owner[lock_name] = p
    /\ \A p \in Servers : sp[p] = "key_open" => key_fd[p] \in Servers
    /\ \A i, q \in Servers : key_owner[i] = q => key_fd[q] = i
    /\ \A i, q \in Servers :
          key_owner[i] = q =>
              sp[q] \in {"key_locked", "serving", "shut", "lock_closed", "unlocked"}

\* No server runs at first, and no file is there.
LEMMA InitIInv ==
    ASSUME None \notin Servers, Init
    PROVE  IInv
BY SMT DEF Init, IInv, Types, Process, Starting, Exiting, Holding

\* Whoever is inside owns the inode that has the name, so it is alone.
LEMMA HolderIsAlone ==
    ASSUME IInv
    PROVE  AtMostOneServer
BY SMT DEF IInv, AtMostOneServer, Inside, Holding

\* A server that is about to lock the key file finds it unlocked: an owner
\* would be inside as well, or exit beside it.
LEMMA KeyIsFree ==
    ASSUME None \notin Servers, IInv, NEW p \in Servers, sp[p] = "key_open"
    PROVE  key_owner[key_fd[p]] = None
<1>1. key_fd[p] \in Servers /\ key_owner[key_fd[p]] \in Process
    BY SMT DEF IInv, Types
<1>2. ASSUME NEW q \in Servers, key_owner[key_fd[p]] = q PROVE FALSE
    <2>1. sp[q] \in {"key_locked", "serving", "shut", "lock_closed", "unlocked"}
        BY <1>1, <1>2, SMT DEF IInv
    <2>2. CASE sp[q] \in Exiting
        BY <2>1, <2>2, SMT DEF IInv, Exiting
    <2>3. CASE sp[q] \in {"key_locked", "serving"}
        BY <2>3, HolderIsAlone, SMT DEF AtMostOneServer, Inside
    <2> QED BY <2>1, <2>2, <2>3 DEF Exiting
<1> QED BY <1>1, <1>2 DEF Process

\* The start of a server, up to its lock.
LEMMA StartIInv ==
    ASSUME None \notin Servers, NoOverlap, IInv, NEW p \in Servers,
           Launch(p) \/ OpenLock(p) \/ LockServer(p) \/ Listen(p)
    PROVE  IInv'
<1>1. CASE Launch(p)
    BY <1>1, SMT DEF Launch, IInv, Types, Process, Starting, Exiting, Holding,
       lockVars, keyVars
<1>2. CASE OpenLock(p)
    BY <1>2, SMT DEF OpenLock, IInv, Types, Process, Starting, Exiting, Holding,
       keyVars
<1>3. CASE LockServer(p)
    BY <1>3, SMT DEF LockServer, IInv, Types, Process, Starting, Exiting, Holding,
       keyVars
<1>4. CASE Listen(p)
    BY <1>4, SMT DEF Listen, IInv, Types, Process, Starting, Exiting, Holding,
       lockVars, keyVars
<1> QED BY <1>1, <1>2, <1>3, <1>4

\* The key file, up to the end of the main loop.
LEMMA ServeIInv ==
    ASSUME None \notin Servers, NoOverlap, IInv, NEW p \in Servers,
           OpenKey(p) \/ LockKey(p) \/ WriteKey(p) \/ Shutdown(p)
    PROVE  IInv'
<1>1. CASE OpenKey(p)
    BY <1>1, SMT DEF OpenKey, IInv, Types, Process, Starting, Exiting, Holding,
       lockVars
<1>2. CASE LockKey(p)
    BY <1>2, KeyIsFree, SMT DEF LockKey, IInv, Types, Process, Starting, Exiting,
       Holding, lockVars
<1>3. CASE WriteKey(p)
    BY <1>3, SMT DEF WriteKey, IInv, Types, Process, Starting, Exiting, Holding,
       lockVars
<1>4. CASE Shutdown(p)
    <2>1. ASSUME NEW q \in Servers, q # p PROVE sp[q] \in {"none", "gone"}
        <3>1. sp[q] \notin Starting /\ sp[q] \notin Exiting
            BY <1>4, <2>1, SMT DEF Shutdown, Serving, IInv, Exiting
        <3>2. sp[q] # "serving"
            BY <1>4, <2>1, HolderIsAlone, SMT DEF Shutdown, Serving,
               AtMostOneServer, Inside
        <3> QED BY <3>1, <3>2, SMT DEF IInv, Types
    <2> QED BY <1>4, <2>1, SMT DEF Shutdown, Serving, IInv, Types, Process,
               Starting, Exiting, Holding, lockVars, keyVars
<1> QED BY <1>1, <1>2, <1>3, <1>4

\* The exit of a server, in order or by a crash.
LEMMA ExitIInv ==
    ASSUME None \notin Servers, IInv, NEW p \in Servers,
           CloseLock(p) \/ UnlinkLock(p) \/ CloseKey(p) \/ UnlinkKey(p) \/ Crash(p)
    PROVE  IInv'
<1>1. CASE CloseLock(p)
    BY <1>1, SMT DEF CloseLock, IInv, Types, Process, Starting, Exiting, Holding,
       keyVars
<1>2. CASE UnlinkLock(p)
    BY <1>2, SMT DEF UnlinkLock, IInv, Types, Process, Starting, Exiting, Holding,
       keyVars
<1>3. CASE CloseKey(p)
    BY <1>3, SMT DEF CloseKey, IInv, Types, Process, Starting, Exiting, Holding,
       lockVars
<1>4. CASE UnlinkKey(p)
    BY <1>4, SMT DEF UnlinkKey, IInv, Types, Process, Starting, Exiting, Holding,
       lockVars
<1>5. CASE Crash(p)
    BY <1>5, SMT DEF Crash, IInv, Types, Process, Starting, Exiting, Holding
<1> QED BY <1>1, <1>2, <1>3, <1>4, <1>5

\* Clients and the clock leave the servers and the files alone.
LEMMA NextIInv ==
    ASSUME None \notin Servers, NoOverlap, IInv, [Next]_vars
    PROVE  IInv'
<1>1. ASSUME NEW p \in Servers, Launch(p) \/ ServerStep(p) \/ Shutdown(p) \/ Crash(p)
      PROVE  IInv'
    BY <1>1, StartIInv, ServeIInv, ExitIInv DEF ServerStep
<1>2. ASSUME UNCHANGED <<sp, lockVars, keyVars>> PROVE IInv'
    BY <1>2, SMT DEF IInv, Types, lockVars, keyVars
<1>3. ASSUME NEW c \in Clients, ClientStep(c) PROVE IInv'
    BY <1>2, <1>3 DEF ClientStep, NewClient, LoadPathName, StampPathName, Connect
<1>4. CASE Tick
    BY <1>2, <1>4 DEF Tick
<1>5. CASE UNCHANGED vars
    BY <1>2, <1>5 DEF vars
<1> QED BY <1>1, <1>3, <1>4, <1>5 DEF Next

\* At most one process is between Lock and UnLock of the mutex "server"
\* (MozcServer::Run), however the starts, exits and crashes of the others
\* interleave, if no server starts while another one exits.
THEOREM OneServer ==
    ASSUME None \notin Servers, NoOverlap
    PROVE  Spec => []AtMostOneServer
<1>1. Init => IInv
    BY InitIInv
<1>2. IInv /\ [Next]_vars => IInv'
    BY NextIInv
<1>3. IInv => AtMostOneServer
    BY HolderIsAlone
<1> QED BY <1>1, <1>2, <1>3, PTL DEF Spec
=============================================================================
