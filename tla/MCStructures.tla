---------------------------- MODULE MCStructures ----------------------------
(***************************************************************************)
(* Four data structures: the romanji tables of the sessions                *)
(* (TableManager), the LRU cache (LruCache), the LRU file (LruStorage) and *)
(* the composition (Composer).  They share no state, so a behaviour is one *)
(* of one part, which the first state picks; the variables of the others   *)
(* keep their first values.                                                *)
(***************************************************************************)
EXTENDS TableManager, Sequences, TLC

VARIABLES
    part,
    \* LruCache
    table, heap, key, value, block_count, block_capacity, next_block_size,
    \* LruStorage
    slots, lru_list, lru_map, next_item, now, op,
    \* Composer
    chunks, input_t12r, position, is_new_input, input_mode,
    comeback_input_mode, shifted_sequence_count, update_input_mode, chosen,
    commands

tableVars == <<config, table_map, built, fingerprint, composer, undo>>
cacheVars == <<table, heap, key, value, block_count, block_capacity, next_block_size>>
storageVars == <<slots, lru_list, lru_map, next_item, now, op>>
composerVars ==
    <<chunks, input_t12r, position, is_new_input, input_mode,
      comeback_input_mode, shifted_sequence_count, update_input_mode, chosen,
      commands>>

all == <<part, tableVars, cacheVars, storageVars, composerVars>>

-----------------------------------------------------------------------------
(***************************************************************************)
(* The instances.                                                          *)
(***************************************************************************)
\* Three elements in two blocks, and one key more.
CacheKey == {"k1", "k2", "k3", "k4"}
CacheValue == {"v1", "v2"}

Cache == INSTANCE LruCache
    WITH Key <- CacheKey, Value <- CacheValue, max_elements <- 3,
         max_blocks <- 2, small_cache <- 2, first_block <- 1

ASSUME CacheAssumptions == Cache!LruCacheAssumptions

\* Three slots, four keys, and two files another storage wrote before.
Slot(k, t, v) == [fp |-> k, time |-> t, value |-> v]
StoredKeys == {"a", "b", "c", "d"}
Files == {<<Slot("b", 2, "y"), Slot("a", 1, "x"), Slot("zero", 0, "zero")>>,
          <<Slot("c", 3, "x"), Slot("a", 2, "y"), Slot("d", 1, "x")>>}

Storage == INSTANCE LruStorage
    WITH Keys <- StoredKeys, Values <- {"x"}, size_ <- 3,
         k62Days <- 2, MergedFiles <- Files, Zero <- "zero", MaxTime <- 4

\* A few romaji rules, one kana rule, and keys for all of them.
Rule(input, result, pending) == [input |-> input, result |-> result, pending |-> pending]
SmallTable ==
    {Rule(<<"n">>, <<"N">>, <<>>), Rule(<<"n", "n">>, <<"N">>, <<>>),
     Rule(<<"n", "a">>, <<"NA">>, <<>>), Rule(<<"n", "y", "a">>, <<"NI", "YA">>, <<>>),
     Rule(<<"y", "a">>, <<"YA">>, <<>>), Rule(<<"y", "y">>, <<"TU">>, <<"y">>),
     Rule(<<"KA", "DAKU">>, <<"GA">>, <<>>)}
SmallKana == {"N", "NA", "NI", "YA", "TU", "KA", "DAKU", "GA"}
VoicedGa == "GA" :> <<"KA", "DAKU">>
KeyEvent(style, shift, raw, conversion) ==
    [style |-> style, shift |-> shift, raw |-> <<raw>>, conversion |-> conversion]
SmallKeys ==
    {KeyEvent("ROMAJI", FALSE, c, <<>>) : c \in {"a", "n", "y"}} \cup
    {KeyEvent("ROMAJI", TRUE, "n", <<>>), KeyEvent("FOLLOW_MODE", FALSE, "t", <<"KA">>),
     KeyEvent("FOLLOW_MODE", FALSE, "@", <<"DAKU">>), KeyEvent("AS_IS", FALSE, "@", <<"@">>)}
TypingModes == {"HIRAGANA", "HALF_ASCII"}
DisplayModes == TypingModes \cup {"HALF_KATAKANA"}
MaxCommands == 4

Text == INSTANCE Composer
    WITH Rules <- SmallTable, KeyEvents <- SmallKeys, Kana <- SmallKana,
         Voiced <- VoicedGa, InputModes <- TypingModes,
         OutputModes <- DisplayModes,
         max_length <- 3

-----------------------------------------------------------------------------
(***************************************************************************)
(* One part at a time.                                                     *)
(***************************************************************************)
InTables ==
    /\ part = "tables"
    /\ UNCHANGED <<part, cacheVars, storageVars, composerVars>>
InCache ==
    /\ part = "cache"
    /\ UNCHANGED <<part, tableVars, storageVars, composerVars>>
InStorage ==
    /\ part = "storage"
    /\ UNCHANGED <<part, tableVars, cacheVars, composerVars>>
InText ==
    /\ part = "text"
    /\ commands < MaxCommands
    /\ commands' = commands + 1
    /\ UNCHANGED <<part, tableVars, cacheVars, storageVars>>

AnyInit ==
    /\ part \in {"tables", "cache", "storage", "text"}
    /\ Init /\ (part # "tables" => config = CHOOSE c \in Config : TRUE)
    /\ Cache!Init /\ Storage!Init
    /\ Text!Init /\ (part # "text" => ~update_input_mode)

AnyNext ==
    \/ \E c \in Config : InTables /\ SetConfig(c)
    \/ \E s \in SessionID : InTables /\ CreateSession(s)
    \/ \E s \in DOMAIN composer : InTables /\ DeleteSession(s)
    \/ \E s \in DOMAIN composer : InTables /\ InsertInput(s)
    \/ \E s \in DOMAIN composer : InTables /\ EraseComposition(s)
    \/ \E s \in DOMAIN composer : InTables /\ PushUndoContext(s)
    \/ \E s \in DOMAIN composer : InTables /\ PopUndoContext(s)
    \* LruCache
    \/ \E k \in CacheKey, v \in CacheValue : InCache /\ Cache!Insert(k, v)
    \/ \E k \in CacheKey : InCache /\ Cache!MutableLookup(k)
    \/ \E k \in CacheKey : InCache /\ Cache!Erase(k)
    \/ InCache /\ Cache!Clear
    \* LruStorage
    \/ \E k \in StoredKeys : InStorage /\ Storage!Insert(k, "x")
    \/ \E k \in StoredKeys : InStorage /\ Storage!TryInsert(k, "x")
    \/ \E k \in StoredKeys : InStorage /\ Storage!Touch(k)
    \/ \E k \in StoredKeys : InStorage /\ Storage!DeleteKey(k)
    \/ InStorage /\ Storage!Reopen
    \/ InStorage /\ Storage!Clear
    \/ InStorage /\ Storage!Tick
    \/ \E written \in Files : InStorage /\ Storage!Merge(written)
    \* Composer
    \/ \E k \in SmallKeys : InText /\ Text!InsertCharacterKeyEvent(k)
    \/ InText /\ Text!Delete
    \/ InText /\ Text!Backspace
    \/ \E length \in 1..3 : InText /\ Text!DeleteRange(length)
    \/ \E to \in 0..3 : InText /\ Text!MoveCursorTo(to)
    \/ InText /\ Text!MoveCursorLeft
    \/ InText /\ Text!MoveCursorRight
    \/ \E to \in {0, Text!GetLength(chunks)} : InText /\ Text!MoveCursorToEdge(to)
    \/ \E mode \in DisplayModes : InText /\ Text!SetOutputMode(mode)
    \/ \E mode \in TypingModes : InText /\ Text!ChooseInputMode(mode)
    \/ InText /\ Text!ToggleInputMode
    \/ InText /\ Text!EditErase
    \/ InText /\ Text!SetNewInput

AnySpec == AnyInit /\ [][AnyNext]_all

-----------------------------------------------------------------------------
(***************************************************************************)
(* The properties of the parts (OneTable is TableManager's).               *)
(***************************************************************************)
\* ListsPartitionElements of LruCache: the lists of elements are well formed.
ListsPartitionElements == Cache!ListsPartitionElements

\* ImplementsLruSpec of LruCache, asked of the steps of the cache: the lists
\* implement an ordered map.
ImplementsLruSpec ==
    /\ Cache!Abstract!LruInit
    /\ [][part = "cache" => [Cache!Abstract!LruNext]_(Cache!Abstract!specVars)]_all

\* LookupStable of LruStorage: what Lookup finds stays until it is changed.
LookupStable == Storage!LookupStable

\* ChunksAreCurrent of Composer: cached lengths and readings fit the letters.
ChunksAreCurrent == Text!ChunksAreCurrent

\* EditsAreLocal of Composer: an edit changes the text at the cursor only.
EditsAreLocal == Text!EditsAreLocal

\* ComesBackToChosenMode of Composer: a temporary mode does not stay.
ComesBackToChosenMode == Text!ComesBackToChosenMode

\* PositionsKeepOrder of Composer: positions keep their order between modes.
PositionsKeepOrder == Text!PositionsKeepOrder
=============================================================================
