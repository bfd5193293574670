------------------------ MODULE UserDictionaryProofs ------------------------
(***************************************************************************)
(* SuppressionConsistent of UserDictionary for any number of versions, and *)
(* with or without saves in the same second.                               *)
(*                                                                         *)
(* It is not inductive: it says nothing of the steps of the reloader.  The *)
(* strengthening says that the suppression dictionary is locked from the   *)
(* start of the reloader until the words are complete, that words are      *)
(* missing only while they are filled in, and which version each of the    *)
(* two dictionaries holds when the reloader may stop.                      *)
(***************************************************************************)
EXTENDS UserDictionary, TLAPS

Filling == {"load", "convert", "prepare", "clear", "fill"}

IInv ==
    /\ TypeOK
    /\ reader = "find" => ~suppression.locked
    /\ pc \in Filling => suppression.locked
    /\ suppression.dic = Partial => pc = "fill"
    /\ pc \in {"idle", "load"} => suppression.dic = tokens
    /\ pc = "swap" => suppression.dic = proto.ver

\* The first state of the server, with an empty dictionary of suppressed words.
LEMMA InitIInv == Init => IInv
<1> SUFFICES ASSUME Init PROVE IInv
    OBVIOUS
<1> USE UserDictionaryAssumptions
<1>1. NoFile \in Contents
    BY SMT DEF NoFile, Contents
<1>2. file \in Contents /\ latest \in 0..MaxVersion
    <2>1. CASE file = NoFile
        BY <1>1, <2>1, SMT DEF Init, NoFile
    <2>2. CASE file # NoFile
        <3>1. PICK s \in BOOLEAN : file = [ver |-> 1, sync |-> s, ok |-> TRUE]
            BY <2>2 DEF Init
        <3> QED BY <2>2, <3>1, SMT DEF Init, Contents
    <2> QED BY <2>1, <2>2
<1>3. TypeOK
    BY <1>1, <1>2, SMT DEF Init, TypeOK, Empty, Partial
<1> QED BY <1>3, SMT DEF Init, IInv, Filling, Empty, Partial

\* A save of the file, by the user or by the reloader.
LEMMA WriteFileType ==
    ASSUME TypeOK, NEW c \in Contents, WriteFile(c)
    PROVE  file' \in Contents /\ mtime' \in Nat
BY SMT DEF TypeOK, WriteFile

\* Every step of the command thread, the tool and the reloader keeps IInv.
LEMMA NextIInv == IInv /\ [Next]_vars => IInv'
<1> SUFFICES ASSUME IInv, [Next]_vars PROVE IInv'
    OBVIOUS
<1> USE UserDictionaryAssumptions
<1>1. ASSUME NEW who \in {"session", "tool"}, Save(who) PROVE IInv'
    <2>1. PICK sync \in BOOLEAN, ok \in BOOLEAN :
             WriteFile([ver |-> latest + 1, sync |-> sync, ok |-> ok])
        BY <1>1 DEF Save
    <2>2. [ver |-> latest + 1, sync |-> sync, ok |-> ok] \in Contents
        BY <1>1, SMT DEF IInv, TypeOK, Save, Contents
    <2>3. file' \in Contents /\ mtime' \in Nat
        BY <2>1, <2>2, WriteFileType DEF IInv
    <2> QED BY <1>1, <2>3, SMT DEF IInv, TypeOK, Save, Filling
<1>2. CASE Lock
    BY <1>2, SMT DEF IInv, TypeOK, Lock, Filling
<1>3. CASE UnLock
    BY <1>3, SMT DEF IInv, TypeOK, UnLock, Filling
<1>4. CASE Reload
    <2>1. CASE MaybeStartReload
        <3>1. suppression'.locked = TRUE /\ suppression'.dic = suppression.dic
            BY <1>4, <2>1, Zenon DEF IInv, TypeOK, Reload
        <3>2. suppression' \in [locked : BOOLEAN, dic : {Partial} \cup 0..MaxVersion]
            BY <1>4, <2>1, Zenon DEF IInv, TypeOK, Reload
        <3> QED BY <1>4, <2>1, <3>1, <3>2, SMT DEF IInv, TypeOK, Reload, Filling
    <2>2. CASE ~MaybeStartReload
        <3>0. MaybeStartReload = FALSE
            BY <2>2 DEF MaybeStartReload
        <3>1. suppression'.locked = FALSE /\ suppression'.dic = suppression.dic
            BY <1>4, <2>2, <3>0, Zenon DEF IInv, TypeOK, Reload
        <3>2. suppression' \in [locked : BOOLEAN, dic : {Partial} \cup 0..MaxVersion]
            BY <1>4, <2>2, <3>0, Zenon DEF IInv, TypeOK, Reload
        <3> QED BY <1>4, <2>2, <3>1, <3>2, SMT DEF IInv, TypeOK, Reload, Filling
    <2> QED BY <2>1, <2>2
<1>5. CASE SuppressEntry
    BY <1>5, SMT DEF IInv, TypeOK, SuppressEntry, Filling
<1>6. CASE Find
    BY <1>6, SMT DEF IInv, TypeOK, Find, Filling
<1>7. CASE LoadStorage
    BY <1>7, SMT DEF IInv, TypeOK, LoadStorage, Filling
<1>8. CASE ConvertSyncDictionaries
    <2>1. [proto EXCEPT !.sync = FALSE] \in Contents
        <3>1. proto \in Contents
            BY DEF IInv, TypeOK
        <3> QED BY <3>1, Zenon DEF Contents
    <2>2. file' \in Contents /\ mtime' \in Nat
        <3>1. CASE lock = "none"
            BY <1>8, <2>1, <3>1, WriteFileType DEF IInv, ConvertSyncDictionaries
        <3>2. CASE lock # "none"
            BY <1>8, <3>2 DEF IInv, TypeOK, ConvertSyncDictionaries
        <3> QED BY <3>1, <3>2
    <2> QED BY <1>8, <2>1, <2>2, SMT
            DEF IInv, TypeOK, ConvertSyncDictionaries, Filling
<1>9. CASE DropBigDictionary
    BY <1>9, SMT DEF IInv, TypeOK, DropBigDictionary, Filling, Empty
<1>10. CASE ClearSuppression
    BY <1>10, SMT DEF IInv, TypeOK, ClearSuppression, Filling, Partial
<1>11. CASE FillSuppression
    BY <1>11, SMT DEF IInv, TypeOK, FillSuppression, Filling, Partial, Contents
<1>12. CASE Swap
    BY <1>12, SMT DEF IInv, TypeOK, Swap, Filling, Contents
<1>13. CASE UNCHANGED vars
    BY <1>13, SMT DEF IInv, TypeOK, vars, Filling
<1> QED BY <1>1, <1>2, <1>3, <1>4, <1>5, <1>6, <1>7, <1>8, <1>9, <1>10, <1>11,
           <1>12, <1>13 DEF Next, Run

\* The suppressed words a command sees are complete and are not changed during
\* its search, and they are of the version of the entries whenever the
\* reloader is done: for every number of versions and every interleaving.
THEOREM SuppressionIsConsistent == Spec => []SuppressionConsistent
<1>1. IInv => SuppressionConsistent
    BY SMT DEF IInv, SuppressionConsistent, Filling
<1> QED BY InitIInv, NextIInv, <1>1, PTL DEF Spec
=============================================================================
