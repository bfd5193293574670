------------------------- MODULE TableManagerProofs -------------------------
(***************************************************************************)
(* OneTable of TableManager for any number of sessions, settings, custom   *)
(* tables and tables built.                                                *)
(*                                                                         *)
(* The strengthening says that a context kept for Undo has the table of    *)
(* the current config (OneTable allows it to have none at all, and         *)
(* PopUndoContext makes it the context of the session), that every session *)
(* has a composer and an Undo context, and that the tables built so far    *)
(* are numbered without gaps, so that the next one is new.                 *)
(***************************************************************************)
EXTENDS TableManager, TLAPS

Context == [table : Nat, chunks : SUBSET Nat]

Types ==
    /\ config \in Config
    /\ table_map \in [DOMAIN table_map -> Nat]
    /\ \E n \in 0..MaxTables : Tables = 1..n
    /\ composer \in [DOMAIN composer -> Context]
    /\ undo \in [DOMAIN composer -> Context]

CurrentTable(s) ==
    /\ hash(config) \in DOMAIN table_map
    /\ composer[s].table = table_map[hash(config)]
    /\ undo[s] = NoContext \/ undo[s].table = table_map[hash(config)]

IInv == Types /\ \A s \in DOMAIN composer : CurrentTable(s)

\* The part of the assumptions that is about numbers.
LEMMA MaxTablesIsNat == MaxTables \in Nat
BY TableManagerAssumptions, Zenon

\* At first there are no sessions and no tables.
LEMMA InitIInv == Init => IInv
<1> SUFFICES ASSUME Init PROVE IInv
    OBVIOUS
<1>1. /\ config \in Config
      /\ table_map = [h \in {} |-> NoTable] /\ DOMAIN built = {}
      /\ composer = [s \in {} |-> NoContext] /\ undo = [s \in {} |-> NoContext]
    BY Zenon DEF Init
<1>2. 0 \in 0..MaxTables /\ Tables = 1..0
    BY <1>1, MaxTablesIsNat, SMT DEF Tables
<1>3. Types
    BY <1>1, <1>2, SMT DEF Types
<1> QED BY <1>1, <1>3 DEF IInv

\* OneTable follows.
LEMMA IInvOneTable == IInv => OneTable
BY DEF IInv, OneTable, CurrentTable, NoContext

\* GetTable, with the map before it or an emptied one, gives all the sessions
\* it is called for the table it returns, and drops their Undo contexts.
LEMMA GetTableIInv ==
    ASSUME IInv, NEW c \in Config, NEW map, map \in [DOMAIN map -> Nat],
           NEW sessions, GetTable(c, map, sessions)
    PROVE  IInv'
<1> DEFINE n0 == CHOOSE n \in 0..MaxTables : Tables = 1..n
           cached == hash(c) \in DOMAIN map /\ ~Updated(c)
           t == IF cached THEN map[hash(c)] ELSE 1 + n0
<1> USE MaxTablesIsNat
<1>1. n0 \in 0..MaxTables /\ Tables = 1..n0
    BY DEF IInv, Types
<1>2. t \in Nat
    <2> HIDE DEF n0
    <2>1. cached => map[hash(c)] \in Nat
        OBVIOUS
    <2> HIDE DEF cached
    <2> QED BY <1>1, <2>1, SMT
<1>3. /\ config' = c
      /\ table_map' = [h \in DOMAIN map \cup {hash(c)} |->
                          IF h = hash(c) THEN t ELSE map[h]]
      /\ composer' = [s \in sessions |-> [table |-> t, chunks |-> Chunks(s)]]
      /\ undo' = [s \in sessions |-> NoContext]
    BY DEF GetTable, SetTable
<1>4. \E n \in 0..MaxTables : DOMAIN built' = 1..n
    <2>1. CASE cached
        BY <1>1, <2>1, Zenon DEF GetTable, Tables
    <2>2. CASE ~cached
        <3> HIDE DEF cached
        <3>1. DOMAIN built' = Tables \cup {1 + n0} /\ 1 + n0 <= MaxTables
            BY <2>2 DEF GetTable, cached
        <3> HIDE DEF n0
        <3>2. DOMAIN built' = 1..(1 + n0)
            BY <1>1, <3>1, SMT
        <3> QED BY <1>1, <3>1, <3>2, SMT
    <2> QED BY <2>1, <2>2, Zenon
<1> HIDE DEF n0, cached, t
<1>5. ASSUME NEW s PROVE Chunks(s) \in SUBSET Nat
    BY SMT DEF Chunks, IInv, Types, Context
<1>6. table_map' \in [DOMAIN table_map' -> Nat]
    BY <1>2, <1>3, SMT
<1>7. /\ composer' \in [DOMAIN composer' -> Context]
      /\ undo' \in [DOMAIN composer' -> Context]
    BY <1>2, <1>3, <1>5, SMT DEF Context, NoContext, NoTable
<1>8. Types'
    BY <1>3, <1>4, <1>6, <1>7 DEF Types, Tables
<1>9. ASSUME NEW s \in DOMAIN composer' PROVE CurrentTable(s)'
    <2>1. s \in sessions /\ hash(config)' = hash(c)
        BY <1>3, <1>9 DEF hash
    <2>2. table_map'[hash(c)] = t /\ hash(c) \in DOMAIN table_map'
        BY <1>3
    <2>3. composer'[s].table = t /\ undo'[s] = NoContext
        BY <1>3, <2>1
    <2> QED BY <2>1, <2>2, <2>3 DEF CurrentTable
<1> QED BY <1>8, <1>9 DEF IInv

\* Steps of one session leave the tables and the config alone.
LEMMA SessionStepIInv ==
    ASSUME IInv, NEW s \in DOMAIN composer,
           \/ DeleteSession(s) \/ InsertInput(s) \/ EraseComposition(s)
           \/ PushUndoContext(s) \/ PopUndoContext(s)
    PROVE  IInv'
<1>1. CASE DeleteSession(s)
    BY <1>1, SMT DEF DeleteSession, IInv, Types, CurrentTable, Tables, hash
<1>2. CASE InsertInput(s)
    BY <1>2, SMT DEF InsertInput, IInv, Types, CurrentTable, Tables, hash, Context
<1>3. CASE EraseComposition(s)
    BY <1>3, SMT DEF EraseComposition, IInv, Types, CurrentTable, Tables, hash, Context
<1>4. CASE PushUndoContext(s)
    BY <1>4, SMT DEF PushUndoContext, IInv, Types, CurrentTable, Tables, hash, Context
<1>5. CASE PopUndoContext(s)
    <2>1. undo[s] \in Context /\ undo[s].table = table_map[hash(config)]
        BY <1>5 DEF PopUndoContext, IInv, Types, CurrentTable
    <2>2. NoContext \in Context
        BY SMT DEF NoContext, NoTable, Context
    <2>3. Types'
        BY <1>5, <2>1, <2>2, SMT DEF PopUndoContext, IInv, Types, Tables
    <2>4. ASSUME NEW r \in DOMAIN composer' PROVE CurrentTable(r)'
        BY <1>5, <2>1, <2>4, SMT DEF PopUndoContext, IInv, Types, CurrentTable, hash
    <2> QED BY <2>3, <2>4 DEF IInv
<1> QED BY <1>1, <1>2, <1>3, <1>4, <1>5

\* Every step keeps IInv.
LEMMA NextIInv == IInv /\ [Next]_vars => IInv'
<1> SUFFICES ASSUME IInv, [Next]_vars PROVE IInv'
    OBVIOUS
<1>1. table_map \in [DOMAIN table_map -> Nat] /\ config \in Config
    BY DEF IInv, Types
<1>2. ASSUME NEW c \in Config, SetConfig(c) PROVE IInv'
    BY <1>1, <1>2, GetTableIInv DEF SetConfig
<1>3. ASSUME NEW s \in SessionID, CreateSession(s) PROVE IInv'
    <2>1. CASE GetTable(config, table_map, DOMAIN composer \cup {s})
        BY <1>1, <2>1, GetTableIInv
    <2>2. CASE GetTable(config, [h \in {} |-> NoTable], {s})
        <3> DEFINE none == [h \in {} |-> NoTable]
        <3>1. none \in [DOMAIN none -> Nat]
            OBVIOUS
        <3> QED BY <1>1, <2>2, <3>1, GetTableIInv, Zenon
    <2> QED BY <1>3, <2>1, <2>2 DEF CreateSession
<1>4. CASE UNCHANGED vars
    BY <1>4, SMT DEF vars, IInv, Types, CurrentTable, Tables, hash
<1> QED BY <1>2, <1>3, <1>4, SessionStepIInv DEF Next

\* Every composer uses the table that GetTable keeps for the current config,
\* never one that GetTable or ClearCaches has deleted, and Undo brings no
\* other table back (SessionHandler::SetConfig, Session::SetTable).
THEOREM OneTableAlways == Spec => []OneTable
BY InitIInv, NextIInv, IInvOneTable, PTL DEF Spec
=============================================================================
