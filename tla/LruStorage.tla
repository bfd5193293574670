----------------------------- MODULE LruStorage -----------------------------
(***************************************************************************)
(* LRUStorage (storage/lru_storage.cc): a file of size_ slots mapped into  *)
(* memory, which the rewriters keep what the user chose in.  The used      *)
(* slots come first; lru_list_ orders them from the most recently used,    *)
(* and lru_map_ finds the one of a fingerprint.  Delete fills the hole     *)
(* with the last used slot.  The file holds slots and access times only,   *)
(* so Open rebuilds the list and the map from the times.                   *)
(*                                                                         *)
(* A pointer into the mapped file is the number of its slot, a node of the *)
(* list is the slot it points to, and a key is its own fingerprint.  Times *)
(* are in seconds, and 0 marks an empty slot.                              *)
(***************************************************************************)
EXTENDS Integers, Sequences, SequencesExt, FiniteSets

CONSTANTS
    Keys, Values,
    size_,               \* slots of the file
    k62Days,             \* entries not touched for longer are dropped
    MergedFiles,         \* files that may be merged, written before now
    Zero,                \* the fingerprint and the value of a cleared slot
    MaxTime              \* bound: seconds

VARIABLES
    slots, lru_list, lru_map,
    next_item,           \* the first slot that is not used
    now,
    op                   \* the last operation and its key (history)

vars == <<slots, lru_list, lru_map, next_item, now, op>>

Empty == [fp |-> Zero, time |-> 0, value |-> Zero]
end == size_ + 1

\* What the operations read and write, as one value.
Storage == [slots |-> slots, list |-> lru_list, map |-> lru_map, next |-> next_item]
Becomes(s) ==
    /\ slots' = s.slots /\ lru_list' = s.list
    /\ lru_map' = s.map /\ next_item' = s.next

Bind(map, fp, slot) == [k \in DOMAIN map \cup {fp} |-> IF k = fp THEN slot ELSE map[k]]
Erase(map, fp) == [k \in DOMAIN map \ {fp} |-> map[k]]
ToFront(list, slot) == <<slot>> \o SelectSeq(list, LAMBDA s : s # slot)
IsOlderThan62Days(t) == t + k62Days < now

-----------------------------------------------------------------------------
\* Delete(fp, it) for the node that points to slot.
Delete_KeepsNode(s, slot) ==
    [slots |-> [s.slots EXCEPT ![slot] = s.slots[s.next - 1], ![s.next - 1] = Empty],
     list |-> SelectSeq(s.list, LAMBDA n : n # slot),
     map |-> Erase(s.map, s.slots[slot].fp),
     next |-> s.next - 1]

Moved(s, slot, last) ==
    [slots |-> [s.slots EXCEPT ![slot] = s.slots[last], ![last] = Empty],
     list |-> [i \in 1..Len(s.list) |-> IF s.list[i] = last THEN slot ELSE s.list[i]],
     map |-> [s.map EXCEPT ![s.slots[last].fp] = slot],
     next |-> last]

Unlinked(s, slot) ==
    [s EXCEPT !.list = SelectSeq(s.list, LAMBDA n : n # slot),
              !.map = Erase(s.map, s.slots[slot].fp)]

Delete(s, slot) ==
    IF slot = s.next - 1
    THEN [Unlinked(s, slot) EXCEPT !.slots[slot] = Empty, !.next = slot]
    ELSE Moved(Unlinked(s, slot), slot, s.next - 1)

\* DeleteElementsUntouchedFor62Days: from the least recently used on.
DeleteElementsUntouchedFor62Days(s) ==
    LET after[n \in 0..Len(s.list)] ==
            IF n = 0 THEN s
            ELSE LET d == after[n - 1] IN
                 IF d.list = <<>> \/ ~IsOlderThan62Days(d.slots[Last(d.list)].time)
                 THEN d ELSE Delete(d, Last(d.list))
    IN after[Len(s.list)]

\* stable_sort by time, the newest first.
SortedByTime(file) ==
    SortSeq([i \in 1..Len(file) |-> i],
            LAMBDA i, j : file[i].time > file[j].time
                          \/ (file[i].time = file[j].time /\ i < j))

\* Open: the slots with a time are used; the first one without is next_item_.
Open(file) ==
    LET order == SortedByTime(file)
        used == SelectSeq(order, LAMBDA i : file[i].time # 0)
        free == SelectSeq(order, LAMBDA i : file[i].time = 0)
    IN DeleteElementsUntouchedFor62Days(
         [slots |-> file, list |-> used,
          map |-> [fp \in {file[i].fp : i \in ToSet(used)} |->
                     CHOOSE i \in ToSet(used) : file[i].fp = fp],
          next |-> IF free = <<>> THEN end ELSE Head(free)])

EmptyFile == [i \in 1..size_ |-> Empty]

Init ==
    /\ now = 1
    /\ slots = EmptyFile /\ lru_list = <<>> /\ lru_map = <<>> /\ next_item = 1
    /\ op = <<"Create", Zero>>

-----------------------------------------------------------------------------
Written(slot, k, v) == [slots EXCEPT ![slot] = [fp |-> k, time |-> now, value |-> v]]

\* An entry that exists is written over, moved to the front.
Overwrite(k, v) ==
    Becomes([Storage EXCEPT !.slots = Written(lru_map[k], k, v),
                            !.list = ToFront(lru_list, lru_map[k])])

\* A full storage gives the new entry the slot used least recently.
Evict(k, v) ==
    Becomes([Storage EXCEPT
               !.slots = Written(Last(lru_list), k, v),
               !.list = ToFront(lru_list, Last(lru_list)),
               !.map = Bind(Erase(lru_map, slots[Last(lru_list)].fp), k, Last(lru_list))])

Append_(k, v) ==
    Becomes([slots |-> Written(next_item, k, v),
             list |-> <<next_item>> \o lru_list,
             map |-> Bind(lru_map, k, next_item),
             next |-> next_item + 1])

Insert(k, v) ==
    /\ IF k \in DOMAIN lru_map THEN Overwrite(k, v)
       ELSE IF Cardinality(DOMAIN lru_map) >= size_ \/ next_item = end THEN Evict(k, v)
       ELSE Append_(k, v)
    /\ op' = <<"Insert", k>>
    /\ UNCHANGED now

TryInsert(k, v) ==
    /\ k \in DOMAIN lru_map
    /\ Overwrite(k, v)
    /\ op' = <<"Insert", k>>
    /\ UNCHANGED now

Touch(k) ==
    /\ k \in DOMAIN lru_map
    /\ ~IsOlderThan62Days(slots[lru_map[k]].time)
    /\ Becomes([Storage EXCEPT !.slots[lru_map[k]].time = now,
                               !.list = ToFront(lru_list, lru_map[k])])
    /\ op' = <<"Touch", k>>
    /\ UNCHANGED now

DeleteKey(k) ==
    /\ k \in DOMAIN lru_map
    /\ Becomes(Delete(Storage, lru_map[k]))
    /\ op' = <<"Delete", k>>
    /\ UNCHANGED now

\* Close and Open, in another process or in this one.
Reopen ==
    /\ Becomes(Open(DeleteElementsUntouchedFor62Days(Storage).slots))
    /\ op' = <<"Reopen", Zero>>
    /\ UNCHANGED now

Clear ==
    /\ lru_list # <<>>
    /\ Becomes(Open(EmptyFile))
    /\ op' = <<"Clear", Zero>>
    /\ UNCHANGED now

\* The slots of both files by time, the newest of each fingerprint, as many
\* as fit (the cleared slots have the fingerprint Zero, so one of them may be
\* among these); the rest of the file is cleared.
MergedSlots(both, order) ==
    LET newest == SelectSeq(order, LAMBDA i : \A j \in 1..Len(both) :
                     both[j].fp = both[i].fp =>
                        both[j].time < both[i].time
                        \/ (both[j].time = both[i].time /\ i <= j))
    IN [n \in 1..size_ |-> IF n <= Len(newest) THEN both[newest[n]] ELSE Empty]

Merge(file) ==
    /\ \A i \in 1..Len(file) : file[i].time <= now
    /\ Becomes(Open(MergedSlots(slots \o file, SortedByTime(slots \o file))))
    /\ op' = <<"Merge", file>>
    /\ UNCHANGED now

Tick ==
    /\ now < MaxTime
    /\ now' = now + 1
    /\ op' = <<"Tick", Zero>>
    /\ UNCHANGED <<slots, lru_list, lru_map, next_item>>

Next ==
    \/ \E k \in Keys :
         \/ \E v \in Values : Insert(k, v) \/ TryInsert(k, v)
         \/ Touch(k) \/ DeleteKey(k)
    \/ Reopen \/ Clear \/ Tick
    \/ \E file \in MergedFiles : Merge(file)

Spec == Init /\ [][Next]_vars

-----------------------------------------------------------------------------
(***************************************************************************)
(* What Lookup finds under a key and has not expired stays what it is,     *)
(* through the moves of Delete, the overwriting of slots and the sorting   *)
(* of Open and Merge, until the key itself is written, touched or deleted, *)
(* everything is cleared, a merged file has a newer entry for it, or the   *)
(* storage is full of entries at least as recent.                          *)
(***************************************************************************)
Lookup(k) == slots[lru_map[k]]
Fresh(k) == k \in DOMAIN lru_map /\ ~IsOlderThan62Days(Lookup(k).time)

FullOfNewer(t) ==
    /\ Cardinality(DOMAIN lru_map) = size_
    /\ \A k \in DOMAIN lru_map : Lookup(k).time >= t

LookupStable ==
    [][\A k \in Keys : Fresh(k) =>
          \/ k \in DOMAIN lru_map' /\ Lookup(k)' = Lookup(k)
          \/ op'[1] \in {"Insert", "Touch", "Delete"} /\ op'[2] = k
          \/ op'[1] = "Clear"
          \/ op'[1] \in {"Insert", "Merge"} /\ k \notin DOMAIN lru_map'
             /\ \E t \in {Lookup(k).time} : FullOfNewer(t)'
          \/ op'[1] = "Merge" /\ k \in DOMAIN lru_map'
             /\ Lookup(k)' \in ToSet(op'[2]) /\ Lookup(k)'.time > Lookup(k).time]_vars
=============================================================================
