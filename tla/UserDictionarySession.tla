----------------------- MODULE UserDictionarySession -----------------------
(***************************************************************************)
(* UserDictionarySession (dictionary/user_dictionary_session.cc): the      *)
(* editing session of the user dictionary tool with its undo history, as   *)
(* UserDictionarySessionHandler drives it.  The handler holds one session; *)
(* CREATE_SESSION replaces it, and a command with the id of any other      *)
(* session is refused before it reaches a session.                         *)
(*                                                                         *)
(* Other processes write the file too, so Load meets any content of Files  *)
(* or no file at all, but not a file that does not parse; Save leaves the  *)
(* session alone (module UserDictionary follows the file).  Entries stands *)
(* for the entries ValidateEntry lets pass, which SanitizeEntry does not   *)
(* change, and Names for the valid names of dictionaries.  A refused       *)
(* command changes nothing.  The indices of a DELETE_ENTRY are distinct,   *)
(* as the tool sends them.                                                 *)
(***************************************************************************)
EXTENDS Integers, Sequences, FiniteSets, Functions

CONSTANTS
    Id,                \* dictionary ids, without 0
    Names,
    Entries,
    Files,             \* contents of the file, with ids in Id \cup {0}
    Imports,           \* entries of the data to import, in their order
    kMaxDictionarySize,
    kMaxEntrySize,
    kMaxUndoHistory

\* Dictionaries as a session or a file may hold them, with ids in I.
Dictionaries(I) == Seq([id : I, name : Names, entries : Seq(Entries)])

ASSUME UserDictionarySessionAssumptions ==
    /\ Id \subseteq Nat \ {0}
    /\ Names # {}
    /\ Files \subseteq Dictionaries(Id \cup {0})
    /\ Imports \subseteq Seq(Entries)
    /\ kMaxDictionarySize \in Nat \ {0}
    /\ kMaxEntrySize \in Nat
    /\ kMaxUndoHistory \in Nat \ {0}

VARIABLES
    dictionaries,      \* storage_: the dictionaries in their order
    undo_history,      \* undo_history_, oldest command first
    default_name,      \* default_dictionary_name_
    past               \* history: the storage before each command undo_history_
                       \* remembers

vars == <<dictionaries, undo_history, default_name, past>>

\* The changes of a repeated field of the storage.
RemoveLast(s) == SubSeq(s, 1, Len(s) - 1)
RemoveAt(s, i) == SubSeq(s, 1, i - 1) \o SubSeq(s, i + 1, Len(s))
InsertAt(s, i, x) == SubSeq(s, 1, i - 1) \o <<x>> \o SubSeq(s, i, Len(s))

Dictionary(id, name) == [id |-> id, name |-> name, entries |-> <<>>]

IdsOf(dics) == {dics[i].id : i \in DOMAIN dics}
NamesOf(dics) == {dics[i].name : i \in DOMAIN dics}

\* GetUserDictionaryIndexById, 0 for no such dictionary.
IndexOf(dics, id) ==
    IF id \in IdsOf(dics)
    THEN CHOOSE i \in DOMAIN dics :
            dics[i].id = id /\ \A j \in 1..(i - 1) : dics[j].id # id
    ELSE 0

\* CreateNewDictionaryId draws until the id is not in use.
NewIds(dics) == Id \ IdsOf(dics)

CanCreate(dics, name) ==
    name \notin NamesOf(dics) /\ Len(dics) < kMaxDictionarySize

\* The entries at the indices given are taken out, or put back where they were.
Without(entries, indices) ==
    LET kept == DOMAIN entries \ indices
        place(k) == Cardinality({j \in kept : j <= k})
    IN  [i \in 1..Cardinality(kept) |-> entries[CHOOSE k \in kept : place(k) = i]]

Merge(entries, deleted) ==
    [i \in 1..(Len(entries) + Cardinality(DOMAIN deleted)) |->
        IF i \in DOMAIN deleted THEN deleted[i]
        ELSE entries[i - Cardinality({j \in DOMAIN deleted : j < i})]]

\* An entry the dictionary has is skipped, and a dictionary with max entries is
\* left as it is.
ImportEntry(entries, entry, max) ==
    IF Len(entries) >= max \/ entry \in Range(entries) THEN entries
    ELSE Append(entries, entry)

\* The entries after the first n of data, for each n.
ImportFromIterator(entries, data, max) ==
    LET after[n \in 0..Len(data)] ==
            IF n = 0 THEN entries ELSE ImportEntry(after[n - 1], data[n], max)
    IN  after

Import_OneTooMany(entries, data) ==
    ImportFromIterator(entries, data, kMaxEntrySize + 1)[Len(data)]

Import(entries, data) ==
    ImportFromIterator(entries, data, kMaxEntrySize)[Len(data)]

SetEntries(dics, i, entries) == [dics EXCEPT ![i].entries = entries]
-----------------------------------------------------------------------------
(***************************************************************************)
(* The undo commands.  RunUndo yields the storage it leaves and whether it *)
(* succeeded.                                                              *)
(***************************************************************************)
UndoCreateDictionary == [type |-> "CreateDictionary"]
UndoDeleteDictionary(index, dic) ==
    [type |-> "DeleteDictionary", index |-> index, dictionary |-> dic]
UndoDeleteLastDictionary(dic) ==
    [type |-> "DeleteLastDictionary", dictionary |-> dic]
UndoRenameDictionary(id, name) ==
    [type |-> "RenameDictionary", id |-> id, name |-> name]
UndoAddEntry(id) == [type |-> "AddEntry", id |-> id]
UndoEditEntry(id, index, entry) ==
    [type |-> "EditEntry", id |-> id, index |-> index, entry |-> entry]
UndoDeleteEntry(id, deleted) ==
    [type |-> "DeleteEntry", id |-> id, deleted |-> deleted]
UndoImport(id, num) == [type |-> "Import", id |-> id, num |-> num]

CanRunUndo(cmd, dics) ==
    LET i == IndexOf(dics, cmd.id)
        n == Len(dics[i].entries)
    IN  CASE cmd.type = "CreateDictionary" -> dics # <<>>
          [] cmd.type = "DeleteDictionary" -> TRUE
          [] cmd.type = "DeleteLastDictionary" -> Len(dics) = 1
          [] cmd.type \in {"RenameDictionary", "Import"} -> i # 0
          [] cmd.type = "AddEntry" -> i # 0 /\ n # 0
          [] cmd.type = "EditEntry" -> i # 0 /\ cmd.index <= n
          [] cmd.type = "DeleteEntry" ->
                i # 0 /\ \A k \in DOMAIN cmd.deleted :
                            k <= n + Cardinality(DOMAIN cmd.deleted)

Undone(cmd, dics) ==
    LET i == IndexOf(dics, cmd.id)
        entries == dics[i].entries
    IN  CASE cmd.type = "CreateDictionary" -> RemoveLast(dics)
          [] cmd.type = "DeleteDictionary" ->
                InsertAt(dics, cmd.index, cmd.dictionary)
          [] cmd.type = "DeleteLastDictionary" -> <<cmd.dictionary>>
          [] cmd.type = "RenameDictionary" -> [dics EXCEPT ![i].name = cmd.name]
          [] cmd.type = "AddEntry" -> SetEntries(dics, i, RemoveLast(entries))
          [] cmd.type = "EditEntry" ->
                SetEntries(dics, i, [entries EXCEPT ![cmd.index] = cmd.entry])
          [] cmd.type = "DeleteEntry" ->
                SetEntries(dics, i, Merge(entries, cmd.deleted))
          [] cmd.type = "Import" ->
                SetEntries(dics, i, SubSeq(entries, 1, cmd.num))

RunUndo(cmd, dics) ==
    IF CanRunUndo(cmd, dics) THEN [ok |-> TRUE, dics |-> Undone(cmd, dics)]
    ELSE [ok |-> FALSE, dics |-> dics]

ClearUndoHistory == undo_history' = <<>> /\ past' = <<>>

\* AddUndoCommand: beyond kMaxUndoHistory the oldest command is forgotten.
Bounded(s) == IF Len(s) > kMaxUndoHistory THEN Tail(s) ELSE s

AddUndoCommand_ForgetsLatest(cmd) ==
    LET Keep(s, x) == IF Len(s) < kMaxUndoHistory THEN Append(s, x) ELSE s
    IN  undo_history' = Keep(undo_history, cmd) /\ past' = Keep(past, dictionaries)

AddUndoCommand(cmd) ==
    /\ undo_history' = Bounded(Append(undo_history, cmd))
    /\ past' = Bounded(Append(past, dictionaries))
-----------------------------------------------------------------------------
NewSession ==
    /\ dictionaries = <<>>
    /\ undo_history = <<>>
    /\ past = <<>>

Init == NewSession /\ default_name = CHOOSE n \in Names : TRUE

\* CREATE_SESSION, whether or not there is a session already.
CreateSession ==
    /\ dictionaries' = <<>>
    /\ default_name' = CHOOSE n \in Names : TRUE
    /\ ClearUndoHistory

SetDefaultDictionaryName(name) ==
    /\ default_name' = name
    /\ UNCHANGED <<dictionaries, undo_history, past>>

\* UserDictionaryStorage::Load gives a new id to each dictionary without one.
Identified(dics, new) ==
    [i \in DOMAIN dics |-> IF dics[i].id = 0 THEN [dics[i] EXCEPT !.id = new[i]]
                           ELSE dics[i]]

FreshIds(dics) ==
    {new \in [DOMAIN dics -> Id] :
        \A i, j \in DOMAIN dics :
            i # j /\ dics[i].id = 0 => new[i] # Identified(dics, new)[j].id}

Load(dics) ==
    /\ \E new \in FreshIds(dics) : dictionaries' = Identified(dics, new)
    /\ ClearUndoHistory
    /\ UNCHANGED default_name

\* LoadWithEnsuringNonEmptyStorage, with an empty file or without one.
EnsureNonEmptyStorage(dics, id) ==
    IF dics = <<>> THEN <<Dictionary(id, default_name)>> ELSE dics

LoadMissingFile ==
    /\ dictionaries = <<>>
    /\ \E id \in Id : dictionaries' = EnsureNonEmptyStorage(dictionaries, id)
    /\ ClearUndoHistory
    /\ UNCHANGED default_name

LoadEmptyFile ==
    /\ <<>> \in Files
    /\ \E id \in Id : dictionaries' = EnsureNonEmptyStorage(<<>>, id)
    /\ ClearUndoHistory
    /\ UNCHANGED default_name

Undo ==
    /\ undo_history # <<>>
    /\ dictionaries' = RunUndo(undo_history[Len(undo_history)], dictionaries).dics
    /\ undo_history' = RemoveLast(undo_history)
    /\ past' = RemoveLast(past)
    /\ UNCHANGED default_name

CreateDictionary(name) ==
    /\ CanCreate(dictionaries, name)
    /\ \E id \in NewIds(dictionaries) :
          dictionaries' = Append(dictionaries, Dictionary(id, name))
    /\ AddUndoCommand(UndoCreateDictionary)
    /\ UNCHANGED default_name

\* The tool may ask that the storage does not become empty.
DeleteDictionary(id, ensure) ==
    LET i == IndexOf(dictionaries, id)
        rest == RemoveAt(dictionaries, i)
    IN  /\ i # 0
        /\ IF ensure /\ rest = <<>>
           THEN /\ \E new \in Id : dictionaries' = EnsureNonEmptyStorage(rest, new)
                /\ AddUndoCommand(UndoDeleteLastDictionary(dictionaries[i]))
           ELSE /\ dictionaries' = rest
                /\ AddUndoCommand(UndoDeleteDictionary(i, dictionaries[i]))
        /\ UNCHANGED default_name

RenameDictionary(id, name) ==
    LET i == IndexOf(dictionaries, id)
    IN  /\ i # 0
        /\ name = dictionaries[i].name \/ name \notin NamesOf(dictionaries)
        /\ dictionaries' = [dictionaries EXCEPT ![i].name = name]
        /\ AddUndoCommand(UndoRenameDictionary(id, dictionaries[i].name))
        /\ UNCHANGED default_name

AddEntry(id, entry) ==
    LET i == IndexOf(dictionaries, id)
    IN  /\ i # 0
        /\ Len(dictionaries[i].entries) < kMaxEntrySize
        /\ dictionaries' =
              SetEntries(dictionaries, i, Append(dictionaries[i].entries, entry))
        /\ AddUndoCommand(UndoAddEntry(id))
        /\ UNCHANGED default_name

EditEntry(id, index, entry) ==
    LET i == IndexOf(dictionaries, id)
    IN  /\ i # 0
        /\ index \in DOMAIN dictionaries[i].entries
        /\ dictionaries' = [dictionaries EXCEPT ![i].entries[index] = entry]
        /\ AddUndoCommand(UndoEditEntry(id, index, dictionaries[i].entries[index]))
        /\ UNCHANGED default_name

DeleteEntry(id, indices) ==
    LET i == IndexOf(dictionaries, id)
        entries == dictionaries[i].entries
    IN  /\ i # 0
        /\ indices # {} /\ indices \subseteq DOMAIN entries
        /\ dictionaries' = SetEntries(dictionaries, i, Without(entries, indices))
        /\ AddUndoCommand(UndoDeleteEntry(id, [k \in indices |-> entries[k]]))
        /\ UNCHANGED default_name

\* Remembered even if the import fails half-way.
ImportFromString(id, data) ==
    LET i == IndexOf(dictionaries, id)
        entries == dictionaries[i].entries
    IN  /\ i # 0
        /\ dictionaries' = SetEntries(dictionaries, i, Import(entries, data))
        /\ AddUndoCommand(UndoImport(id, Len(entries)))
        /\ UNCHANGED default_name

ImportToNewDictionaryFromString(name, data) ==
    /\ CanCreate(dictionaries, name)
    /\ \E id \in NewIds(dictionaries) :
          dictionaries' = Append(dictionaries,
              [Dictionary(id, name) EXCEPT !.entries = Import(<<>>, data)])
    /\ AddUndoCommand(UndoCreateDictionary)
    /\ UNCHANGED default_name

\* The indices of entries in some dictionary.
Indices == UNION {DOMAIN dictionaries[i].entries : i \in DOMAIN dictionaries}

EditDictionary(id) ==
    \/ \E ensure \in BOOLEAN : DeleteDictionary(id, ensure)
    \/ \E name \in Names : RenameDictionary(id, name)
    \/ \E entry \in Entries :
          \/ AddEntry(id, entry)
          \/ \E index \in Indices : EditEntry(id, index, entry)
    \/ \E indices \in SUBSET Indices : DeleteEntry(id, indices)
    \/ \E data \in Imports : ImportFromString(id, data)

Next ==
    \/ CreateSession
    \/ \E name \in Names :
          \/ SetDefaultDictionaryName(name)
          \/ CreateDictionary(name)
          \/ \E data \in Imports : ImportToNewDictionaryFromString(name, data)
    \/ \E dics \in Files : Load(dics)
    \/ LoadMissingFile
    \/ LoadEmptyFile
    \/ Undo
    \/ \E id \in Id : EditDictionary(id)

Spec == Init /\ [][Next]_vars
-----------------------------------------------------------------------------
(***************************************************************************)
(* Properties                                                              *)
(***************************************************************************)
\* Undo walks back exactly the way the user came: each remembered command,
\* run in the storage the later ones leave, succeeds and brings back the
\* storage as it was before that edit, with all ids, names, entries and their
\* order, and the last kMaxUndoHistory edits are remembered.
UndoRestores ==
    /\ Len(undo_history) = Len(past)
    /\ Len(undo_history) <= kMaxUndoHistory
    /\ \A n \in DOMAIN undo_history :
          RunUndo(undo_history[n],
                  IF n = Len(past) THEN dictionaries ELSE past[n + 1])
            = [ok |-> TRUE, dics |-> past[n]]

\* What CreateDictionary's checks are for holds after every mix of edits,
\* imports and undos: the ids and the names of the dictionaries are distinct,
\* and no limit is exceeded.
StorageValid ==
    /\ Len(dictionaries) <= kMaxDictionarySize
    /\ Cardinality(IdsOf(dictionaries)) = Len(dictionaries)
    /\ Cardinality(NamesOf(dictionaries)) = Len(dictionaries)
    /\ \A i \in DOMAIN dictionaries :
          Len(dictionaries[i].entries) <= kMaxEntrySize
=============================================================================
