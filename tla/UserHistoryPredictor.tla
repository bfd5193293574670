------------------------ MODULE UserHistoryPredictor ------------------------
(***************************************************************************)
(* UserHistoryPredictor (prediction/user_history_predictor.cc): the words  *)
(* learned from commits, in the order of an LRU cache and linked to their  *)
(* successors, with the file and the syncer thread that loads and saves it.*)
(* The command thread learns, forgets, predicts and starts the syncer.     *)
(*                                                                         *)
(* A word is a sequence of letters, so chains of linked words spell longer *)
(* words; reading and value of a word are one.  Events (dummy entries) are *)
(* saved under the name NoName, for EntryFingerprint looks at reading and  *)
(* value only.  Left out: which link a prediction prefers, punctuation,    *)
(* emoji and the rules of privacy, and the settings under which Finish     *)
(* learns nothing.  The file is replaced as a whole, and no other process  *)
(* writes it.                                                              *)
(***************************************************************************)
EXTENDS Naturals, Sequences, FiniteSets, SequencesExt

CONSTANTS
    Inputs,            \* commits: [prev, segs], prev <<>> for no history
    kLRUCacheSize,
    kMaxNextEntriesSize,
    ClearDuringSync,   \* the user may delete a word while the syncer runs
    MaxCommands        \* bound on the commands other than Sync

VARIABLES
    dic,               \* dic_, most recently used first
    updated,           \* updated_
    syncer,            \* the steps of the thread; "none": not running
    history,           \* the syncer's UserHistoryStorage
    file,              \* the entries of the file, oldest first
    revert,            \* revert entries of the last commit
    forgotten,         \* history: words the user has deleted and not used since
    commands           \* commands so far

vars == <<dic, updated, syncer, history, file, revert, forgotten, commands>>

NoName == <<>>
CLEAN_ALL_EVENT == <<"CLEAN_ALL">>
CLEAN_UNUSED_EVENT == <<"CLEAN_UNUSED">>

Words == UNION {ToSet(i.segs) \cup {FlattenSeq(i.segs)} : i \in Inputs}

NewEntry(fp) ==
    [fp |-> fp, event |-> FALSE, removed |-> FALSE, used |-> FALSE,
     old |-> FALSE, next |-> <<>>]

Keys(d) == {d[i].fp : i \in DOMAIN d}
Lookup(d, fp) == d[CHOOSE i \in DOMAIN d : d[i].fp = fp]
Erase(d, fps) == SelectSeq(d, LAMBDA e : e.fp \notin fps)

\* LRUCache::Insert of an entry: in front, the last one gives way.
Insert(d, e) ==
    LET rest == Erase(d, {e.fp})
    IN  <<e>> \o (IF Len(rest) >= kLRUCacheSize THEN Front(rest) ELSE rest)

Update(d, fp, F(_)) == [i \in DOMAIN d |-> IF d[i].fp = fp THEN F(d[i]) ELSE d[i]]
-----------------------------------------------------------------------------
(***************************************************************************)
(* Learning.                                                               *)
(***************************************************************************)
Rank(d, fp) == CHOOSE i \in DOMAIN d : d[i].fp = fp

\* InsertNextEntry: a full list reuses the place of the same link, of a link
\* to a lost entry, or of the link to the entry used longest ago.
InsertNextEntry(d, next, fp) ==
    LET lost(i) == next[i] = fp \/ next[i] \notin Keys(d)
        place == IF \E i \in DOMAIN next : lost(i)
                 THEN CHOOSE i \in DOMAIN next :
                         lost(i) /\ \A j \in 1..(i - 1) : ~lost(j)
                 ELSE CHOOSE i \in DOMAIN next : \A j \in DOMAIN next :
                         Rank(d, next[j]) <= Rank(d, next[i])
    IN  IF Len(next) < kMaxNextEntriesSize THEN Append(next, fp)
        ELSE [next EXCEPT ![place] = fp]

\* UserHistoryPredictor::Insert; next is a set of at most one word.
InsertWord(d, fp, suggestion, next) ==
    LET e == IF fp \in Keys(d) THEN Lookup(d, fp) ELSE NewEntry(fp)
        new == Insert(d, [e EXCEPT !.removed = FALSE, !.old = FALSE,
                                   !.used = @ \/ suggestion])
    IN  [new EXCEPT ![1].next =
            IF next = {} THEN @ ELSE InsertNextEntry(new, @, CHOOSE n \in next : TRUE)]

\* A word that occurs twice in the input is linked at its first place only.
NextFp(segs, i) ==
    IF \/ i = Len(segs)
       \/ segs[i + 1] \in ToSet(SubSeq(segs, 1, i))
       \/ segs[i] \in ToSet(SubSeq(segs, 1, i - 1))
    THEN {} ELSE {segs[i + 1]}

LinkFrom(d, prev, fp) ==
    IF prev \notin Keys(d) THEN d
    ELSE [d EXCEPT ![Rank(d, prev)].next = InsertNextEntry(d, @, fp)]

\* Each word, the whole input, and links from the word before the input.
InsertHistory(d, in, suggestion) ==
    LET segs == in.segs
        all == FlattenSeq(segs)
        Learn(dd, i) == InsertWord(dd, segs[i], suggestion, NextFp(segs, i))
        each == FoldLeft(Learn, d, [i \in DOMAIN segs |-> i])
        whole == IF Len(segs) > 1 THEN InsertWord(each, all, suggestion, {})
                 ELSE each
        linked == IF suggestion THEN whole ELSE LinkFrom(whole, in.prev, segs[1])
    IN  IF suggestion \/ Len(segs) > 1 THEN LinkFrom(linked, in.prev, all)
        ELSE linked

\* The words a commit spells, with the word before it.
LearnedBy(in) ==
    LET said == <<in.prev>> \o in.segs
    IN  {FlattenSeq(SubSeq(said, i, j)) : i, j \in DOMAIN said}
-----------------------------------------------------------------------------
(***************************************************************************)
(* Forgetting.                                                             *)
(***************************************************************************)
\* The chains from fp that spell w, in the order RemoveNgramChain tries them.
RECURSIVE Chains(_, _, _)
Chains(d, fp, w) ==
    IF fp = w THEN <<<<fp>>>>
    ELSE IF fp = NoName \/ fp \notin Keys(d) \/ ~IsPrefix(fp, w) THEN <<>>
    ELSE LET next == Lookup(d, fp).next
             From(n) == LET c == Chains(d, n, SubSeq(w, Len(fp) + 1, Len(w)))
                        IN  [i \in DOMAIN c |-> <<fp>> \o c[i]]
             known == SelectSeq(next, LAMBDA n : n \in Keys(d))
         IN  FlattenSeq([i \in DOMAIN known |-> From(known[i])])

\* The first chain loses its last link (EraseNextEntries).
RemoveNgramChain(d, fp, w) ==
    LET c == Chains(d, fp, w)
    IN  IF c = <<>> \/ Len(c[1]) = 1 THEN d
        ELSE Update(d, Last(Front(c[1])),
                 LAMBDA e : [e EXCEPT !.next = SelectSeq(@, LAMBDA n : n # Last(c[1]))])

MarkRemoved(d, w) ==
    Update(d, w, LAMBDA e : [e EXCEPT !.removed = TRUE, !.used = FALSE])

ClearEntry(d, w) ==
    LET Cut(dd, i) == RemoveNgramChain(dd, dd[i].fp, w)
    IN  FoldLeft(Cut, MarkRemoved(d, w), [i \in DOMAIN d |-> i])

\* w is an entry, or a chain spells it; the result of a chain is dropped if
\* its word is an entry marked as removed.
Suggested(d, w) ==
    \/ w \in Keys(d) /\ ~Lookup(d, w).removed
    \/ w \notin Keys(d) /\ \E fp \in Keys(d) : Chains(d, fp, w) # <<>>
-----------------------------------------------------------------------------
(***************************************************************************)
(* UserHistoryStorage.                                                     *)
(***************************************************************************)
\* DeleteEntriesBefore swaps what is kept into the place of what is not.
RECURSIVE Partition(_, _, _)
Partition(h, i, n) ==
    IF i > n THEN SubSeq(h, 1, n)
    ELSE IF h[i].event \/ ~h[i].old THEN Partition(h, i + 1, n)
    ELSE Partition([h EXCEPT ![i] = h[n], ![n] = h[i]], i, n - 1)

DeleteEntriesUntouchedFor62Days(h) == Partition(h, 1, Len(h))

\* What is saved, oldest first, and what is loaded from it.
Stored(d) == [i \in DOMAIN d |->
                 LET e == Reverse(d)[i]
                 IN  IF e.event THEN [e EXCEPT !.fp = NoName] ELSE e]

Loaded(h) == FoldLeft(Insert, <<>>, h)

FromFile == Loaded(DeleteEntriesUntouchedFor62Days(file))
-----------------------------------------------------------------------------
Init ==
    /\ dic = <<>> /\ file = <<>> /\ history = <<>>
    /\ updated = FALSE
    /\ syncer = "load"
    /\ revert = {}
    /\ forgotten = {}
    /\ commands = 0

Command == commands < MaxCommands /\ commands' = commands + 1

Finish_DuringSync(in, suggestion) ==
    /\ Command
    /\ dic' = InsertHistory(dic, in, suggestion)
    /\ updated' = TRUE
    /\ revert' = (ToSet(in.segs) \cup {FlattenSeq(in.segs)}) \ Keys(dic)
    /\ forgotten' = forgotten \ LearnedBy(in)
    /\ UNCHANGED <<syncer, history, file>>

\* Finish: a commit that finds the syncer running is not learned.
Finish(in, suggestion) ==
    /\ Command
    /\ IF syncer = "none"
       THEN /\ dic' = InsertHistory(dic, in, suggestion)
            /\ updated' = TRUE
            /\ revert' = (ToSet(in.segs) \cup {FlattenSeq(in.segs)}) \ Keys(dic)
            /\ forgotten' = forgotten \ LearnedBy(in)
       ELSE /\ revert' = {}
            /\ UNCHANGED <<dic, updated, forgotten>>
    /\ UNCHANGED <<syncer, history, file>>

\* Undo of the commit; nothing tells the next Save.  The mark of a word that
\* was deleted since goes with its entry.
Revert ==
    /\ Command
    /\ revert # {}
    /\ dic' = IF syncer = "none" THEN Erase(dic, revert) ELSE dic
    /\ revert' = {}
    /\ forgotten' = forgotten \ revert
    /\ UNCHANGED <<updated, syncer, history, file>>

\* ClearHistoryEntry, the one command that does not look at the syncer.
ClearHistoryEntry(w) ==
    /\ Command
    /\ syncer = "none" \/ ClearDuringSync
    /\ dic' = ClearEntry(dic, w)
    /\ updated' = (updated \/ dic' # dic)
    /\ forgotten' = IF dic' = dic THEN forgotten ELSE forgotten \cup {w}
    /\ UNCHANGED <<syncer, history, file, revert>>

Event(fp) == [NewEntry(fp) EXCEPT !.event = TRUE]

\* ClearAllHistory and ClearUnusedHistory wait for the syncer and start it.
ClearAllHistory_NoEvent ==
    /\ Command
    /\ syncer = "none"
    /\ dic' = <<>>
    /\ updated' = TRUE
    /\ syncer' = "save"
    /\ forgotten' = Words
    /\ UNCHANGED <<history, file, revert>>

ClearAllHistory ==
    /\ Command
    /\ syncer = "none"
    /\ dic' = <<Event(CLEAN_ALL_EVENT)>>
    /\ updated' = TRUE
    /\ syncer' = "save"
    /\ forgotten' = Words
    /\ UNCHANGED <<history, file, revert>>

ClearUnusedHistory ==
    /\ Command
    /\ syncer = "none"
    /\ dic # <<>>
    /\ dic' = Insert(SelectSeq(dic, LAMBDA e : e.used), Event(CLEAN_UNUSED_EVENT))
    /\ updated' = TRUE
    /\ syncer' = "save"
    /\ UNCHANGED <<history, file, revert, forgotten>>

\* AsyncSave; dropped while the syncer runs.
Sync ==
    /\ updated /\ syncer = "none"
    /\ syncer' = "save"
    /\ UNCHANGED <<dic, updated, history, file, revert, forgotten, commands>>

\* A prediction that meets an entry to be deleted at the next save.
Predict ==
    /\ syncer = "none"
    /\ \E i \in DOMAIN dic : dic[i].old
    /\ updated' = TRUE
    /\ UNCHANGED <<dic, syncer, history, file, revert, forgotten, commands>>

\* An entry is not used for 62 days.
Age(w) ==
    LET Aged(d) == Update(d, w, LAMBDA e : [e EXCEPT !.old = TRUE])
    IN  /\ Command
        /\ dic' = Aged(dic) /\ history' = Aged(history) /\ file' = Aged(file)
        /\ UNCHANGED <<updated, syncer, revert, forgotten>>
-----------------------------------------------------------------------------
(***************************************************************************)
(* The syncer thread, step by step.                                        *)
(***************************************************************************)
Load ==
    /\ syncer = "load"
    /\ dic' = IF file = <<>> THEN dic ELSE FromFile
    /\ syncer' = "none"
    /\ UNCHANGED <<updated, history, file, revert, forgotten, commands>>

Save ==
    /\ syncer = "save"
    /\ history' = IF dic = <<>> THEN history
                  ELSE DeleteEntriesUntouchedFor62Days(Stored(dic))
    /\ syncer' = IF dic = <<>> THEN "none" ELSE "write"
    /\ UNCHANGED <<dic, updated, file, revert, forgotten, commands>>

\* Writing the file may fail.
SaveHistory ==
    /\ syncer = "write"
    /\ \/ file' = history /\ syncer' = "reload" /\ UNCHANGED history
       \/ UNCHANGED file /\ syncer' = "none" /\ history' = <<>>
    /\ UNCHANGED <<dic, updated, revert, forgotten, commands>>

LoadHistory ==
    /\ syncer = "reload"
    /\ dic' = Loaded(history)
    /\ syncer' = "clean"
    /\ UNCHANGED <<updated, history, file, revert, forgotten, commands>>

ResetUpdated ==
    /\ syncer = "clean"
    /\ updated' = FALSE
    /\ history' = <<>>
    /\ syncer' = "none"
    /\ UNCHANGED <<dic, file, revert, forgotten, commands>>

Syncer == Load \/ Save \/ SaveHistory \/ LoadHistory \/ ResetUpdated
-----------------------------------------------------------------------------
(***************************************************************************)
(* The end of the server: the destructor waits and saves, a crash does     *)
(* not.  What is not saved is lost, forgotten words among it.              *)
(***************************************************************************)
NewProcess ==
    /\ dic' = <<>> /\ history' = <<>>
    /\ updated' = FALSE
    /\ syncer' = "load"
    /\ revert' = {}

Exit ==
    /\ syncer = "none"
    /\ NewProcess
    /\ \/ /\ updated /\ dic # <<>>
          /\ file' = DeleteEntriesUntouchedFor62Days(Stored(dic))
          /\ UNCHANGED forgotten
       \/ /\ ~updated \/ dic = <<>>
          /\ UNCHANGED <<file, forgotten>>
    /\ UNCHANGED commands

Crash ==
    /\ Command
    /\ NewProcess
    /\ forgotten' = IF updated THEN {} ELSE forgotten
    /\ UNCHANGED file

Next ==
    \/ \E in \in Inputs, suggestion \in BOOLEAN : Finish(in, suggestion)
    \/ \E w \in Words : ClearHistoryEntry(w) \/ Age(w)
    \/ Revert \/ ClearAllHistory \/ ClearUnusedHistory \/ Sync \/ Predict
    \/ Syncer
    \/ Exit \/ Crash

Spec == Init /\ [][Next]_vars
-----------------------------------------------------------------------------
(***************************************************************************)
(* Properties                                                              *)
(***************************************************************************)
\* A word the user has deleted is not suggested again before it is used
\* again: not as an entry and not spelled by a chain, not after the syncer has
\* reloaded what it saved, and not in a later process, unless the server died
\* or could not write before it was saved.
ForgottenStaysForgotten ==
    \A w \in forgotten :
        /\ ~Suggested(dic, w)
        /\ syncer = "none" /\ ~updated => ~Suggested(FromFile, w)

\* updated_ is reliable: when it is FALSE and the syncer is idle, every entry
\* in memory is in the file with all its links and marks, so that a Sync may
\* do nothing and a crash costs nothing.
CleanIsSaved ==
    syncer = "none" /\ ~updated => ToSet(dic) \subseteq ToSet(file)
=============================================================================
