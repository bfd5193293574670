---------------------------- MODULE TableManager ----------------------------
(***************************************************************************)
(* composer::TableManager (composer/table.cc): the romanji tables cached   *)
(* for the combinations of request and config, with the sessions whose     *)
(* composers point to them (SessionHandler::SetConfig, Session::SetTable)  *)
(* and the context a session keeps for Undo, a copy with pointers of its   *)
(* own.  The chunks of a composition point to the table they were made     *)
(* with, and Composition::SetTable leaves them alone.                      *)
(*                                                                         *)
(* The hash of GetTable is unique for the four settings that make it up    *)
(* (table.h), so it is represented by them: Special stands for             *)
(* special_romanji_table, Style for the punctuation and symbol methods.    *)
(* The tables themselves are built into the program, so building one never *)
(* fails.  A table is a pointer, that is a number never used again.        *)
(***************************************************************************)
EXTENDS Naturals

CONSTANTS
    SessionID,
    Special,           \* special_romanji_table; "DEFAULT_TABLE" is one of them
    Style,             \* punctuation_method and symbol_method
    Custom,            \* custom_roman_table, "" if there is none
    MaxTables          \* bound on the tables built

ASSUME TableManagerAssumptions ==
    /\ "DEFAULT_TABLE" \in Special
    /\ "" \in Custom
    /\ MaxTables \in Nat

VARIABLES
    config,            \* the config and request of the handler
    table_map,         \* table_map_: pointers by hash
    built,             \* what each table was built from
    fingerprint,       \* custom_roman_table_fingerprint_
    composer,          \* each session's composer: its table, its chunks' tables
    undo               \* the composer of each session's previous context

vars == <<config, table_map, built, fingerprint, composer, undo>>

NoTable == 0
NoContext == [table |-> NoTable, chunks |-> {}]

Config == [special : Special, method : {"ROMAN", "KANA"}, style : Style,
           custom : Custom]

hash(c) == [special |-> c.special, method |-> c.method, style |-> c.style]

\* InitializeWithRequestAndConfig: the settings a table is made from.  A
\* special table is complete by itself; the others get the rules for
\* punctuation and symbols on top.
Initialize(c) ==
    LET default == c.special = "DEFAULT_TABLE"
    IN  [file   |-> c.special,
         custom |-> IF default /\ c.method = "ROMAN" THEN c.custom ELSE "",
         style  |-> IF default THEN {c.style} ELSE {}]

Tables == DOMAIN built

\* GetTable's check of the custom table.
Updated(c) ==
    /\ c.method = "ROMAN"
    /\ c.custom # ""
    /\ c.custom # fingerprint

Init ==
    /\ config \in Config
    /\ table_map = [h \in {} |-> NoTable]
    /\ built = [t \in {} |-> Initialize(config)]
    /\ fingerprint = ""
    /\ composer = [s \in {} |-> NoContext]
    /\ undo = [s \in {} |-> NoContext]

Chunks(s) == IF s \in DOMAIN composer THEN composer[s].chunks ELSE {}

SetTable_KeepsUndo(sessions, t) ==
    /\ composer' = [s \in sessions |-> [table |-> t, chunks |-> Chunks(s)]]
    /\ undo' = [s \in sessions |-> IF s \in DOMAIN undo THEN undo[s] ELSE NoContext]

\* Session::SetTable for all sessions: the Undo contexts are dropped.
SetTable(sessions, t) ==
    /\ composer' = [s \in sessions |-> [table |-> t, chunks |-> Chunks(s)]]
    /\ undo' = [s \in sessions |-> NoContext]

\* SessionHandler::SetConfig with GetTable, for the sessions given.  An
\* update deletes the old table of this hash.
GetTable(c, map, sessions) ==
    LET cached == hash(c) \in DOMAIN map /\ ~Updated(c)
        new    == 1 + (CHOOSE n \in 0..MaxTables : Tables = 1..n)
        t      == IF cached THEN map[hash(c)] ELSE new
    IN  /\ cached \/ new <= MaxTables
        /\ config' = c
        /\ fingerprint' = IF Updated(c) THEN c.custom ELSE fingerprint
        /\ table_map' = [h \in DOMAIN map \cup {hash(c)} |->
                            IF h = hash(c) THEN t ELSE map[h]]
        /\ built' = IF cached THEN built
                    ELSE [u \in Tables \cup {new} |->
                             IF u = new THEN Initialize(c) ELSE built[u]]
        /\ SetTable(sessions, t)

\* SET_CONFIG, SET_REQUEST, RELOAD, ...
SetConfig(c) == GetTable(c, table_map, DOMAIN composer)

\* CREATE_SESSION; a replaced engine, possible only without sessions, clears
\* the caches.
CreateSession(s) ==
    /\ s \notin DOMAIN composer
    /\ \/ GetTable(config, table_map, DOMAIN composer \cup {s})
       \/ /\ DOMAIN composer = {}
          /\ GetTable(config, [h \in {} |-> NoTable], {s})

DeleteSession(s) ==
    /\ composer' = [x \in DOMAIN composer \ {s} |-> composer[x]]
    /\ undo' = [x \in DOMAIN undo \ {s} |-> undo[x]]
    /\ UNCHANGED <<config, table_map, built, fingerprint>>

\* A key goes into a chunk of the current table.
InsertInput(s) ==
    /\ composer' = [composer EXCEPT ![s].chunks = @ \cup {composer[s].table}]
    /\ UNCHANGED <<config, table_map, built, fingerprint, undo>>

\* The composition is given up, or edited away.
EraseComposition(s) ==
    /\ composer' = [composer EXCEPT ![s].chunks = {}]
    /\ UNCHANGED <<config, table_map, built, fingerprint, undo>>

\* A commit keeps a copy of the context, and Undo swaps it back in.
PushUndoContext(s) ==
    /\ undo' = [undo EXCEPT ![s] = composer[s]]
    /\ composer' = [composer EXCEPT ![s].chunks = {}]
    /\ UNCHANGED <<config, table_map, built, fingerprint>>

PopUndoContext(s) ==
    /\ undo[s] # NoContext
    /\ composer' = [composer EXCEPT ![s] = undo[s]]
    /\ undo' = [undo EXCEPT ![s] = NoContext]
    /\ UNCHANGED <<config, table_map, built, fingerprint>>

Next ==
    \/ \E c \in Config : SetConfig(c)
    \/ \E s \in SessionID : CreateSession(s)
    \/ \E s \in DOMAIN composer :
          \/ DeleteSession(s)
          \/ InsertInput(s) \/ EraseComposition(s)
          \/ PushUndoContext(s) \/ PopUndoContext(s)

Spec == Init /\ [][Next]_vars
-----------------------------------------------------------------------------
(***************************************************************************)
(* Properties                                                              *)
(***************************************************************************)
\* All sessions take new keys with one and the same table, that of the current
\* config's hash, and an Undo brings no other table back.  So no composer uses
\* a table that GetTable or ClearCaches has deleted.  (The chunks of an
\* unfinished composition are not part of this: they keep the table they were
\* made with, which GetTable may have deleted under them.)
OneTable ==
    \A s \in DOMAIN composer :
        /\ hash(config) \in DOMAIN table_map
        /\ composer[s].table = table_map[hash(config)]
        /\ undo[s].table \in {NoTable, table_map[hash(config)]}
=============================================================================
