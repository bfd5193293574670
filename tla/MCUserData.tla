----------------------------- MODULE MCUserData -----------------------------
(***************************************************************************)
(* What the user has the program remember: the dictionaries being edited   *)
(* (UserDictionarySession) and the history of words                        *)
(* (UserHistoryPredictor).  They share no state, so a behaviour is one of  *)
(* one part, which the first state picks; the variables of the other keep  *)
(* their first values.                                                     *)
(***************************************************************************)
EXTENDS UserDictionarySession

VARIABLES part, dic, updated, syncer, history, file, revert, forgotten, uses

sessionVars == <<dictionaries, undo_history, default_name, past>>
historyVars == <<dic, updated, syncer, history, file, revert, forgotten, uses>>
all == <<part, sessionVars, historyVars>>

-----------------------------------------------------------------------------
\* The dictionaries: a file without dictionaries and one with an old id 0.
StoredFiles ==
    {<<>>,
     <<[id |-> 0, name |-> "a", entries |-> <<"x", "y">>],
       [id |-> 1, name |-> "b", entries |-> <<>>]>>}
ImportedData == {<<"x">>, <<"y", "x", "y">>}

\* The history: two words, and the words they spell together.
Bigrams ==
    {[prev |-> <<>>, segs |-> <<<<"a">>>>],
     [prev |-> <<"a">>, segs |-> <<<<"b">>>>],
     [prev |-> <<>>, segs |-> <<<<"a">>, <<"b">>>>],
     [prev |-> <<"b">>, segs |-> <<<<"a">>, <<"a">>>>]}

History == INSTANCE UserHistoryPredictor
    WITH commands <- uses, Inputs <- Bigrams, kLRUCacheSize <- 4,
         kMaxNextEntriesSize <- 2, ClearDuringSync <- FALSE, MaxCommands <- 4

-----------------------------------------------------------------------------
(***************************************************************************)
(* One part at a time.                                                     *)
(***************************************************************************)
InSession == part = "session" /\ UNCHANGED <<part, historyVars>>
InHistory == part = "history" /\ UNCHANGED <<part, sessionVars>>

AnyInit == part \in {"session", "history"} /\ Init /\ History!Init

AnyNext ==
    \/ InSession /\ CreateSession
    \/ \E name \in Names : InSession /\ SetDefaultDictionaryName(name)
    \/ \E name \in Names : InSession /\ CreateDictionary(name)
    \/ \E name \in Names, data \in Imports :
          InSession /\ ImportToNewDictionaryFromString(name, data)
    \/ \E dics \in Files : InSession /\ Load(dics)
    \/ InSession /\ LoadMissingFile
    \/ InSession /\ LoadEmptyFile
    \/ InSession /\ Undo
    \/ \E id \in Id, ensure \in BOOLEAN : InSession /\ DeleteDictionary(id, ensure)
    \/ \E id \in Id, name \in Names : InSession /\ RenameDictionary(id, name)
    \/ \E id \in Id, e \in Entries : InSession /\ AddEntry(id, e)
    \/ \E id \in Id, index \in Indices, e \in Entries :
          InSession /\ EditEntry(id, index, e)
    \/ \E id \in Id, indices \in SUBSET Indices :
          InSession /\ DeleteEntry(id, indices)
    \/ \E id \in Id, data \in Imports : InSession /\ ImportFromString(id, data)
    \* UserHistoryPredictor
    \/ \E in \in Bigrams, suggestion \in BOOLEAN : InHistory /\ History!Finish(in, suggestion)
    \/ \E w \in History!Words : InHistory /\ History!ClearHistoryEntry(w)
    \/ \E w \in History!Words : InHistory /\ History!Age(w)
    \/ InHistory /\ History!Revert
    \/ InHistory /\ History!ClearAllHistory
    \/ InHistory /\ History!ClearUnusedHistory
    \/ InHistory /\ History!Sync
    \/ InHistory /\ History!Predict
    \/ InHistory /\ History!Load
    \/ InHistory /\ History!Save
    \/ InHistory /\ History!SaveHistory
    \/ InHistory /\ History!LoadHistory
    \/ InHistory /\ History!ResetUpdated
    \/ InHistory /\ History!Exit
    \/ InHistory /\ History!Crash

AnySpec == AnyInit /\ [][AnyNext]_all

-----------------------------------------------------------------------------
\* ForgottenStaysForgotten of UserHistoryPredictor: a deleted word stays away.
ForgottenStaysForgotten == History!ForgottenStaysForgotten

\* CleanIsSaved of UserHistoryPredictor: what needs no saving is in the file.
CleanIsSaved == History!CleanIsSaved
=============================================================================
