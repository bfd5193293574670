--------------------------- MODULE UserDictionary ---------------------------
(***************************************************************************)
(* The server's copy of the user dictionary (dictionary/user_dictionary.cc)*)
(* with its reloader thread, the suppression dictionary the same file      *)
(* fills (suppression_dictionary.cc), and the file as its writers see it   *)
(* (UserDictionaryStorage): editing sessions save it, the dictionary tool  *)
(* locks it while it is open, and the reloader saves it back when it has   *)
(* converted synchronised dictionaries.                                    *)
(*                                                                         *)
(* RELOAD commands, lookups and SuppressEntry share the command thread.    *)
(* The content of the file is its version, and a copy of it is whole or    *)
(* Partial.  A save goes to a temporary file that is renamed, so readers   *)
(* meet one version or another.  Every save gets a modification time of    *)
(* its own unless SameSecond allows two of them in one second.             *)
(***************************************************************************)
EXTENDS Integers

CONSTANTS
    MaxVersion,        \* bound on the versions saved
    SameSecond         \* two saves may have the same modification time

ASSUME UserDictionaryAssumptions ==
    MaxVersion \in Nat /\ SameSecond \in BOOLEAN

Empty == 0             \* no dictionary has been loaded
Partial == -1

VARIABLES
    file,              \* [ver, sync, ok]; ver 0: there is no file
    latest,            \* the versions saved so far
    mtime,
    lock,              \* who holds the lock file
    modified_at,       \* the time the reloader has seen
    pc,                \* the reloader thread; "idle": IsRunning is false
    proto,             \* what the reloader has read
    suppression,       \* [locked, dic]
    tokens,            \* tokens_
    reader             \* SuppressEntry, between its check and its search

vars == <<file, latest, mtime, lock, modified_at, pc, proto, suppression,
          tokens, reader>>

Contents == [ver : 0..MaxVersion, sync : BOOLEAN, ok : BOOLEAN]

NoFile == [ver |-> 0, sync |-> FALSE, ok |-> TRUE]

Init ==
    /\ file \in {NoFile} \cup {[ver |-> 1, sync |-> s, ok |-> TRUE] : s \in BOOLEAN}
    /\ MaxVersion > 0 \/ file = NoFile
    /\ latest = file.ver
    /\ mtime = 1
    /\ lock = "none"
    /\ modified_at = 0
    /\ pc = "idle"
    /\ proto = NoFile
    /\ suppression = [locked |-> FALSE, dic |-> Empty]
    /\ tokens = Empty
    /\ reader = "idle"
-----------------------------------------------------------------------------
(***************************************************************************)
(* The file.                                                               *)
(***************************************************************************)
\* UserDictionaryStorage::Save, by the holder of the lock.
WriteFile(content) ==
    /\ file' = content
    /\ mtime' \in {mtime + 1} \cup (IF SameSecond THEN {mtime} ELSE {})

\* A user edits and saves, in a session of the server or in the tool.  An
\* unreadable file comes from outside.
Save(who) ==
    /\ latest < MaxVersion
    /\ lock \in {"none", who}
    /\ latest' = latest + 1
    /\ \E sync, ok \in BOOLEAN :
          WriteFile([ver |-> latest + 1, sync |-> sync, ok |-> ok])
    /\ UNCHANGED <<lock, modified_at, pc, proto, suppression, tokens, reader>>

\* The tool keeps the lock while it is open.
Lock ==
    /\ lock = "none"
    /\ lock' = "tool"
    /\ UNCHANGED <<file, latest, mtime, modified_at, pc, proto, suppression,
                   tokens, reader>>

UnLock ==
    /\ lock = "tool"
    /\ lock' = "none"
    /\ UNCHANGED <<file, latest, mtime, modified_at, pc, proto, suppression,
                   tokens, reader>>
-----------------------------------------------------------------------------
(***************************************************************************)
(* The command thread.                                                     *)
(***************************************************************************)
MaybeStartReload == file # NoFile /\ modified_at # mtime

Reload_LeavesLockToReloader ==
    /\ reader = "idle" /\ pc = "idle"
    /\ IF MaybeStartReload
       THEN modified_at' = mtime /\ pc' = "load"
       ELSE UNCHANGED <<modified_at, pc>>
    /\ UNCHANGED <<file, latest, mtime, lock, proto, suppression, tokens, reader>>

\* A RELOAD that finds the reloader running is dropped.
Reload ==
    /\ reader = "idle" /\ pc = "idle"
    /\ suppression' = [suppression EXCEPT !.locked = MaybeStartReload]
    /\ IF MaybeStartReload
       THEN modified_at' = mtime /\ pc' = "load"
       ELSE UNCHANGED <<modified_at, pc>>
    /\ UNCHANGED <<file, latest, mtime, lock, proto, tokens, reader>>

\* SuppressEntry looks whether there are words at all and then at the lock,
\* before it searches.
SuppressEntry ==
    /\ reader = "idle"
    /\ suppression.dic # Empty
    /\ ~suppression.locked
    /\ reader' = "find"
    /\ UNCHANGED <<file, latest, mtime, lock, modified_at, pc, proto, suppression,
                   tokens>>

Find ==
    /\ reader = "find"
    /\ reader' = "idle"
    /\ UNCHANGED <<file, latest, mtime, lock, modified_at, pc, proto, suppression,
                   tokens>>
-----------------------------------------------------------------------------
(***************************************************************************)
(* The reloader thread, UserDictionaryReloader::Run.                       *)
(***************************************************************************)
LoadStorage ==
    /\ pc = "load"
    /\ proto' = file
    /\ pc' = IF ~file.ok THEN "idle"
             ELSE IF file.sync THEN "convert" ELSE "prepare"
    /\ UNCHANGED <<file, latest, mtime, lock, modified_at, suppression, tokens,
                   reader>>

\* ConvertSyncDictionariesToNormalDictionaries; the result is saved if the
\* lock can be had.
ConvertSyncDictionaries ==
    LET converted == [proto EXCEPT !.sync = FALSE]
    IN  /\ pc = "convert"
        /\ IF lock = "none" THEN WriteFile(converted) ELSE UNCHANGED <<file, mtime>>
        /\ proto' = converted
        /\ pc' = "prepare"
        /\ UNCHANGED <<latest, lock, modified_at, suppression, tokens, reader>>

\* UserDictionary::Load gives up a very big dictionary before the new one is
\* built.
DropBigDictionary ==
    /\ pc = "prepare"
    /\ tokens' \in {tokens, Empty}
    /\ pc' = "clear"
    /\ UNCHANGED <<file, latest, mtime, lock, modified_at, proto, suppression,
                   reader>>

ClearSuppression ==
    /\ pc = "clear"
    /\ suppression' = [locked |-> TRUE, dic |-> Partial]
    /\ pc' = "fill"
    /\ UNCHANGED <<file, latest, mtime, lock, modified_at, proto, tokens, reader>>

\* TokensIndex::Load fills both and unlocks the suppression dictionary.
FillSuppression ==
    /\ pc = "fill"
    /\ suppression' = [locked |-> FALSE, dic |-> proto.ver]
    /\ pc' = "swap"
    /\ UNCHANGED <<file, latest, mtime, lock, modified_at, proto, tokens, reader>>

Swap_MarksSeen ==
    /\ pc = "swap"
    /\ tokens' = proto.ver
    /\ modified_at' = mtime
    /\ pc' = "idle"
    /\ UNCHANGED <<file, latest, mtime, lock, proto, suppression, reader>>

Swap ==
    /\ pc = "swap"
    /\ tokens' = proto.ver
    /\ pc' = "idle"
    /\ UNCHANGED <<file, latest, mtime, lock, modified_at, proto, suppression,
                   reader>>

Run ==
    \/ LoadStorage \/ ConvertSyncDictionaries \/ DropBigDictionary
    \/ ClearSuppression \/ FillSuppression \/ Swap

Next ==
    \/ Save("session") \/ Save("tool") \/ Lock \/ UnLock
    \/ Reload \/ SuppressEntry \/ Find
    \/ Run

\* The reloader runs, SuppressEntry returns, and RELOADs keep coming.
Fairness == WF_vars(Run) /\ WF_vars(Find) /\ SF_vars(Reload)

Spec == Init /\ [][Next]_vars

FairSpec == Spec /\ Fairness
-----------------------------------------------------------------------------
(***************************************************************************)
(* Properties                                                              *)
(***************************************************************************)
TypeOK ==
    /\ file \in Contents /\ proto \in Contents
    /\ latest \in 0..MaxVersion
    /\ mtime \in Nat /\ modified_at \in Nat
    /\ lock \in {"none", "tool"}
    /\ pc \in {"idle", "load", "convert", "prepare", "clear", "fill", "swap"}
    /\ suppression \in [locked : BOOLEAN, dic : {Partial} \cup 0..MaxVersion]
    /\ tokens \in 0..MaxVersion
    /\ reader \in {"idle", "find"}

\* SuppressEntry takes no mutex: between its look at locked_ and the end of
\* its search the reloader changes no word, and once the reloader is done the
\* suppressed words are those of the same version of the file as the entries.
SuppressionConsistent ==
    /\ reader = "find" => ~suppression.locked
    /\ ~suppression.locked => suppression.dic # Partial
    /\ pc = "idle" => suppression.dic = tokens

\* Once no version is saved any more, and as long as RELOADs keep coming, the
\* server works with the entries of the file, whatever saves, conversions and
\* dropped RELOADs came before.  (A file that cannot be read is given up.)
Converges == <>[](file.ok => tokens = file.ver)
=============================================================================
