-------------------------------- MODULE Session --------------------------------
(***************************************************************************)
(* One session of the server (session/session.cc, internal/ime_context.cc) *)
(* on its converter: the states of the input method, the composition, and  *)
(* the context that Undo goes back to.                                     *)
(*                                                                         *)
(* A context (ImeContext) is a record:                                     *)
(*   state   state_                                                        *)
(*   comp    the composer: the length of the composition, the cursor, the  *)
(*           type of the input field                                       *)
(*   conv    the converter                                                 *)
(*                                                                         *)
(* A session is a record of                                                *)
(*   ctx     context_                                                      *)
(*   undo    prev_context_, a set of at most one context                   *)
(*   output  whether output_ of context_, the output of the last commit,   *)
(*           has a result; only Undo looks at it, and only when there is a *)
(*           prev_context_, so that it is FALSE when there is none         *)
(*   out     the output of the command being evaluated: its result (<<n>>  *)
(*           when it stands for n characters of the composition), whether  *)
(*           it has a config, the characters the command put into the      *)
(*           composition less the ones it deleted, and whether the command *)
(*           is one that throws the composition away                       *)
(*                                                                         *)
(* A handler is an operator from a session to the set of sessions it may   *)
(* lead to.  Which key runs which handler is the keymap's business, and    *)
(* the user may customise it: in a state any handler its keymap can name   *)
(* may run.  Characters, input modes and the source text that              *)
(* ConvertReverse keeps in the composer are left out: where the code looks *)
(* at one, both outcomes are possible.  So are SuppressSuggestion, which   *)
(* holds for all of a composition and looks like a Suggest that finds      *)
(* nothing, and last_command_time.                                         *)
(***************************************************************************)
EXTENDS Integers, Sequences

CONSTANTS
    MaxLen,           \* bound: the characters of a composition
    Requests,         \* the requests of the client
    EngineMayFail,    \* whether the engine may find nothing for a key
    Fields,           \* the types of input field the client switches to
    TestsOff,         \* whether TestSendKey is asked about key events that say
                      \* the IME is off while the session is not in DIRECT
    MaxInsert         \* bound: the characters one key event inserts

\* zero_query_suggestion, mixed_conversion, auto_partial_suggestion, and
\* whether crossing_edge_behavior is COMMIT_WITHOUT_CONSUMING
ASSUME SessionAssumptions ==
    /\ MaxLen \in Nat \ {0}
    /\ Requests \subseteq [zero_query : BOOLEAN, mixed : BOOLEAN,
                           partial : BOOLEAN, crossing : BOOLEAN]
    /\ EngineMayFail \in BOOLEAN
    /\ Fields \subseteq {"NORMAL", "PASSWORD", "NUMBER"}
    /\ TestsOff \in BOOLEAN
    /\ MaxInsert \in 1..MaxLen

VARIABLES
    session,
    lost              \* whether the last command lost text (history)

vars == <<session, lost>>

SC == INSTANCE SessionConverter

NoText == [len |-> 0, cursor |-> 0, field |-> "NORMAL"]
NoOutput == [result |-> <<>>, config |-> FALSE, inserted |-> 0, discards |-> FALSE]

\* Windows starts in DIRECT, the others in PRECOMPOSITION.
Init ==
    /\ \E state \in {"DIRECT", "PRECOMPOSITION"}, request \in Requests :
          session = [ctx    |-> [state |-> state, comp |-> NoText,
                                 conv |-> SC!NewConverter(request)],
                     undo   |-> {},
                     output |-> FALSE,
                     out    |-> NoOutput]
    /\ lost = FALSE

State(s) == s.ctx.state
Request(s) == s.ctx.conv.request

\* Every outcome of an operation of the converter.
Converted(s, converters) == {[s EXCEPT !.ctx.conv = c] : c \in converters}

-----------------------------------------------------------------------------
(***************************************************************************)
(* The composer.  A key may join what precedes the cursor into fewer       *)
(* characters; a full composition takes no more.                           *)
(***************************************************************************)
ResetComposer(comp) == [NoText EXCEPT !.field = comp.field]

Resized(s, len, cursor) ==
    [s EXCEPT !.ctx.comp.len = len, !.ctx.comp.cursor = cursor,
              !.out.inserted = @ + len - s.ctx.comp.len]

InsertCharacterKeyEvent(s) ==
    LET comp == s.ctx.comp
        after == comp.len - comp.cursor
    IN  {Resized(s, n, n - after) :
           n \in {m \in (after + 1)..MaxLen : m <= comp.len + MaxInsert}
                 \cup (IF comp.len > 0 THEN {comp.len} ELSE {})}

\* The text goes elsewhere: nothing is inserted or deleted.
DeleteRange(s, n) ==
    [s EXCEPT !.ctx.comp.len = @ - n,
              !.ctx.comp.cursor = IF @ > n THEN @ - n ELSE 0]

-----------------------------------------------------------------------------
(***************************************************************************)
(* Helpers of the handlers.                                                *)
(***************************************************************************)
SetSessionState_KeepsText(s, state) == [s EXCEPT !.ctx.state = state]

\* OnStartComposition may clear the segments; the handlers that start a
\* composition replace them.
SetSessionState(s, state) ==
    LET t == [s EXCEPT !.ctx.state = state]
    IN  IF state \in {"DIRECT", "PRECOMPOSITION"}
        THEN [t EXCEPT !.ctx.comp = ResetComposer(@)] ELSE t

PushUndoContext(s) == [s EXCEPT !.undo = {s.ctx}]
ClearUndoContext(s) == [s EXCEPT !.undo = {}, !.output = FALSE]

Output_Keeps(s) ==
    [s EXCEPT !.out.result = IF s.ctx.conv.result = <<>> THEN @ ELSE s.ctx.conv.result]

\* PopOutput: a result replaces the one that is already in the output.
Output(s) ==
    LET c == s.ctx.conv
    IN  [s EXCEPT !.out.result = IF c.result = <<>> THEN @ ELSE c.result,
                  !.out.config = @ \/ c.command,
                  !.ctx.conv.result = <<>>,
                  !.ctx.conv.command = FALSE]

\* mutable_output()->CopyFrom(command->output()), for Undo
KeepOutput(s) == [s EXCEPT !.output = s.out.result # <<>>]

\* The application handles the key.
EchoBack(s) == [s EXCEPT !.ctx.conv = SC!Reset(@)]

\* A modifier key alone does not clear it.
EchoBackAndClearUndoContext(s) == {EchoBack(ClearUndoContext(s)), EchoBack(s)}

DoNothing(s) ==
    IF /\ Request(s).zero_query /\ SC!IsActive(s.ctx.conv)
       /\ State(s) = "PRECOMPOSITION"
    THEN Output([s EXCEPT !.ctx.conv = SC!Reset(@)])
    ELSE IF State(s) \in {"COMPOSITION", "CONVERSION"} THEN Output(s) ELSE s

Only(s, states, outcomes) ==
    IF State(s) \in states THEN outcomes ELSE {DoNothing(s)}

Suggest(s) ==
    {[ok |-> o.ok, s |-> [s EXCEPT !.ctx.conv = o.c]] :
       o \in SC!SuggestWithPreferences(s.ctx.conv, s.ctx.comp)}

\* OutputComposition shows the composition, and leaves a result where it is.
SuggestAndOutput(s) == {IF o.ok THEN Output(o.s) ELSE o.s : o \in Suggest(s)}

ZeroQuerySuggest(s) ==
    IF Request(s).zero_query THEN {o.s : o \in Suggest(s)} ELSE {s}

CommitStringDirectly(s) ==
    LET n == s.ctx.comp.len + (IF s.out.result = <<>> THEN 0 ELSE s.out.result[1])
        t == [s EXCEPT !.ctx.conv = SC!Reset(@), !.out.result = <<n>>]
    IN  IF s.ctx.comp.len = 0 THEN {s}
        ELSE {Output(u) : u \in ZeroQuerySuggest(SetSessionState(t, "PRECOMPOSITION"))}

CommitCompositionDirectly(s) == CommitStringDirectly(s)

-----------------------------------------------------------------------------
(***************************************************************************)
(* Committing.                                                             *)
(***************************************************************************)
CommitInternal(s, trigger_zero_query_suggest) ==
    LET p == PushUndoContext(s)
        committed == IF State(s) = "COMPOSITION"
                     THEN {SC!CommitPreedit(s.ctx.conv, s.ctx.comp)}
                     ELSE SC!Commit(s.ctx.conv, s.ctx.comp)
        Finish(t) == LET u == SetSessionState(t, "PRECOMPOSITION")
                     IN  IF trigger_zero_query_suggest THEN ZeroQuerySuggest(u) ELSE {u}
    IN  Only(s, {"COMPOSITION", "CONVERSION"},
             {KeepOutput(Output(u)) : u \in UNION {Finish(t) : t \in Converted(p, committed)}})

Commit(s) == CommitInternal(s, TRUE)
CommitNotTriggeringZeroQuerySuggest(s) == CommitInternal(s, FALSE)

CommitHead(s, count) ==
    LET t == [ClearUndoContext(s) EXCEPT !.ctx.conv = SC!CommitHead(@, count)]
    IN  Only(s, {"COMPOSITION", "PRECOMPOSITION"}, {Output(DeleteRange(t, count))})

\* What is left to do once the converter has committed.
AfterCommit(s) ==
    {KeepOutput(Output(t)) :
       t \in IF SC!IsActive(s.ctx.conv) THEN {s}
             ELSE ZeroQuerySuggest(SetSessionState(s, "PRECOMPOSITION"))}

CommitSegments_KeepsText(s, committed) ==
    UNION {AfterCommit([s EXCEPT !.ctx.conv = o.c]) : o \in committed}

\* The key characters of the committed segments leave the composition.
CommitSegments(s, committed) ==
    UNION {AfterCommit(DeleteRange([s EXCEPT !.ctx.conv = o.c], o.size)) :
             o \in committed}

CommitSegment(s) ==
    LET p == PushUndoContext(s)
    IN  Only(s, {"CONVERSION"},
             CommitSegments(p, SC!CommitFirstSegment(s.ctx.conv, s.ctx.comp)))

CommitFirstSuggestion_Inactive(s) ==
    {KeepOutput(Output(SetSessionState([PushUndoContext(s) EXCEPT !.ctx.conv = o.c],
                                       "PRECOMPOSITION"))) :
       o \in SC!CommitSuggestion(s.ctx.conv, s.ctx.comp)}

\* The size of a partial suggestion is not looked at.
CommitFirstSuggestion(s) ==
    LET p == PushUndoContext(s)
        Finish(t) == {KeepOutput(Output(u)) :
                        u \in ZeroQuerySuggest(SetSessionState(t, "PRECOMPOSITION"))}
    IN  IF State(s) \in {"COMPOSITION", "PRECOMPOSITION"} /\ SC!IsActive(s.ctx.conv)
        THEN UNION {Finish([p EXCEPT !.ctx.conv = o.c]) :
                      o \in SC!CommitSuggestion(s.ctx.conv, s.ctx.comp)}
        ELSE {DoNothing(s)}

CommitIfPassword(s, otherwise) ==
    IF s.ctx.comp.field = "PASSWORD" THEN CommitCompositionDirectly(s) ELSE otherwise

MoveCursor(s, cursor) ==
    CommitIfPassword(s, SuggestAndOutput([s EXCEPT !.ctx.comp.cursor = cursor]))

MoveCursorToEnd(s) == MoveCursor(s, s.ctx.comp.len)
MoveCursorToBeginning(s) == MoveCursor(s, 0)

\* An id that is shown is sent.
CommitCandidate(s) ==
    LET p == PushUndoContext(s)
        comp == s.ctx.comp
        InConversion(c) == CommitSegments(p, SC!CommitHeadToFocusedSegments(c, comp))
        OfSuggestion(o) ==
            LET t == [p EXCEPT !.ctx.conv = o.c]
            IN  IF o.ok /\ o.size < comp.len
                THEN {KeepOutput(u) : u \in MoveCursorToEnd(DeleteRange(t, o.size))}
                ELSE AfterCommit(t)
    IN  IF State(s) = "DIRECT" \/ ~SC!IsActive(s.ctx.conv) THEN {s}
        ELSE IF State(s) = "CONVERSION"
        THEN UNION {InConversion(c) : c \in SC!CandidateMoveToId(s.ctx.conv, comp)}
        ELSE UNION {OfSuggestion(o) : o \in SC!CommitSuggestion(s.ctx.conv, comp)}

CommitRawText(s) == CommitStringDirectly(s)

-----------------------------------------------------------------------------
(***************************************************************************)
(* Switching the input method on and off, and cancelling.                  *)
(***************************************************************************)
IMEOn(s) == {SetSessionState(ClearUndoContext(s), "PRECOMPOSITION")}

ResetToDirect(s) == SetSessionState([s EXCEPT !.ctx.conv = SC!Reset(@)], "DIRECT")

IMEOff(s) == {ResetToDirect(t) : t \in Commit(ClearUndoContext(s))}

MakeSureIMEOn(s) == IF State(s) = "DIRECT" THEN IMEOn(s) ELSE {s}
MakeSureIMEOff(s) == IF State(s) # "DIRECT" THEN IMEOff(s) ELSE {s}

EnsureIMEIsOn(s) ==
    IF State(s) = "DIRECT" THEN SetSessionState(s, "PRECOMPOSITION") ELSE s

\* InputModeHiragana and its like; in CONVERSION the output is popped.
InputMode(s) ==
    LET t == EnsureIMEIsOn(s)
    IN  {IF State(t) = "CONVERSION" THEN Output(t) ELSE t}

Discards(s) == [s EXCEPT !.out.discards = TRUE]

Revert(s) ==
    LET t == ClearUndoContext(s)
        u == IF State(s) = "CONVERSION" THEN [t EXCEPT !.ctx.conv = SC!Cancel(@)] ELSE t
    IN  IF State(s) = "PRECOMPOSITION" THEN EchoBackAndClearUndoContext(s)
        ELSE Only(s, {"COMPOSITION", "CONVERSION"},
                  {Discards(SetSessionState(u, "PRECOMPOSITION"))})

ResetContext(s) ==
    LET t == [s EXCEPT !.ctx.conv = SC!Reset(@)]
    IN  IF State(s) = "PRECOMPOSITION" THEN EchoBackAndClearUndoContext(t)
        ELSE {Discards(SetSessionState(ClearUndoContext(t), "PRECOMPOSITION"))}

\* With a source text, it is committed in place of the composition.
TryCancelConvertReverse(s) ==
    {[ok |-> TRUE, s |-> t] : t \in CommitStringDirectly(s)}
    \cup {[ok |-> FALSE, s |-> Discards(s)]}

EditCancel(s) ==
    CommitIfPassword(s,
        {LET t == SetSessionState(o.s, "PRECOMPOSITION")
         IN  IF o.ok THEN Output(t) ELSE t : o \in TryCancelConvertReverse(s)})

EditCancelAndIMEOff(s) ==
    CommitIfPassword(s,
        Only(s, {"PRECOMPOSITION", "COMPOSITION", "CONVERSION"},
             {Output(ResetToDirect(ClearUndoContext(o.s))) :
                o \in TryCancelConvertReverse(s)}))

-----------------------------------------------------------------------------
(***************************************************************************)
(* Composing.                                                              *)
(***************************************************************************)
StartConversion(s, outcomes) ==
    {LET t == [s EXCEPT !.ctx.conv = o.c]
     IN  IF o.ok THEN Output(SetSessionState(t, "CONVERSION")) ELSE t : o \in outcomes}

ConvertComposition(s) ==
    StartConversion(s, SC!ConvertWithPreferences(s.ctx.conv, s.ctx.comp))

\* A character as it is (DIRECT_INPUT): a half-width one is the application's.
InsertDirectly(s) ==
    {EchoBack(ClearUndoContext(s))}
    \cup {ClearUndoContext(t) :
            t \in UNION {CommitCompositionDirectly(u) : u \in InsertCharacterKeyEvent(s)}}

ShouldCommitHead(comp) ==
    CASE comp.field = "PASSWORD" -> comp.len > 1
      [] comp.field = "NUMBER"   -> comp.len > 0
      [] OTHER                   -> FALSE

\* The last character may be one of those that start a conversion.
CanStartAutoConversion(comp) == comp.len > 1 /\ comp.cursor = comp.len

\* ShouldCommit, of the rules of the table, may hold for any composition.
Compose(s) ==
    LET comp == s.ctx.comp
        t    == SetSessionState(s, "COMPOSITION")
    IN  CommitCompositionDirectly(s)
        \cup IF ShouldCommitHead(comp)
             THEN CommitHead(s, IF comp.field = "PASSWORD" THEN comp.len - 1 ELSE comp.len)
             ELSE SuggestAndOutput(t) \cup
                  (IF CanStartAutoConversion(comp) THEN ConvertComposition(t) ELSE {})

InsertAndCompose(s) == UNION {Compose(t) : t \in InsertCharacterKeyEvent(s)}

\* After a conversion, and after a space when the client asks for it, what
\* was there is committed first.
CommitAndInsert(s) ==
    LET Direct(t) == UNION {CommitCompositionDirectly(u) :
                              u \in InsertCharacterKeyEvent(ClearUndoContext(t))}
    IN  UNION {InsertAndCompose(t) \cup Direct(t) :
                 t \in CommitNotTriggeringZeroQuerySuggest(s)}

MaybeSelectCandidate(s) ==
    {Output([s EXCEPT !.ctx.conv = SC!CandidateMove(@)])}

InsertCharacter(s) ==
    CASE State(s) = "PRECOMPOSITION" -> InsertDirectly(s) \cup InsertAndCompose(s)
      [] State(s) = "COMPOSITION"    -> InsertAndCompose(s) \cup CommitAndInsert(s)
      [] OTHER                       -> MaybeSelectCandidate(s) \cup CommitAndInsert(s)

InsertSpace(s) ==
    IF State(s) = "PRECOMPOSITION"
    THEN EchoBackAndClearUndoContext(s) \cup InsertDirectly(s)
         \cup InsertDirectly([s EXCEPT !.ctx.conv = SC!Reset(@)])
    ELSE InsertCharacter(s)

Backspaced(s) ==
    LET comp == s.ctx.comp
    IN  IF comp.cursor = 0 THEN s ELSE Resized(s, comp.len - 1, comp.cursor - 1)

Deleted(s) ==
    LET comp == s.ctx.comp
    IN  IF comp.cursor = comp.len THEN s ELSE Resized(s, comp.len - 1, comp.cursor)

AfterDeletion(s) ==
    IF s.ctx.comp.len = 0 THEN {SetSessionState(s, "PRECOMPOSITION")}
    ELSE SuggestAndOutput(s)

Delete(s) == AfterDeletion(Deleted(s))
Backspace(s) == AfterDeletion(Backspaced(s))

MoveCursorRight(s) ==
    LET comp == s.ctx.comp
    IN  IF Request(s).crossing /\ comp.cursor = comp.len THEN Commit(s)
        ELSE MoveCursor(s, IF comp.cursor = comp.len THEN comp.len ELSE comp.cursor + 1)

MoveCursorLeft(s) ==
    LET comp == s.ctx.comp
    IN  IF Request(s).crossing /\ comp.cursor = 0
        THEN CommitNotTriggeringZeroQuerySuggest(s)
        ELSE MoveCursor(s, IF comp.cursor = 0 THEN 0 ELSE comp.cursor - 1)

MoveCursorTo(s) ==
    Only(s, {"COMPOSITION"},
         UNION {MoveCursor(s, cursor) : cursor \in 0..s.ctx.comp.len})

\* REWIND and STOP_KEY_TOGGLING change the last character.
SendComposerCommand(s) == SuggestAndOutput(s)
StopKeyToggling(s) == Only(s, {"COMPOSITION"}, SendComposerCommand(s))

SwitchInputFieldType(s) == {Output([s EXCEPT !.ctx.comp.field = f]) : f \in Fields}

-----------------------------------------------------------------------------
(***************************************************************************)
(* Converting.                                                             *)
(***************************************************************************)
\* A space is committed with an ASCII composition, or added to it; a second
\* one is taken back.
Convert(s) ==
    LET comp   == s.ctx.comp
        spaced == IF comp.len = MaxLen THEN s ELSE Resized(s, comp.len + 1, comp.cursor + 1)
    IN  ConvertComposition(s)
        \cup ConvertComposition(Backspaced(s))
        \cup Commit(spaced)
        \cup InsertCharacter(s)

ConvertWithoutHistory(s) == ConvertComposition(s)

ConvertReverse(s) ==
    Only(s, {"PRECOMPOSITION", "DIRECT"},
         {DoNothing(s)}
         \cup UNION {ConvertComposition(Resized(s, n, n)) : n \in 1..MaxLen})

ConvertToTransliteration(s) ==
    Only(s, {"CONVERSION", "COMPOSITION"},
         StartConversion(s, SC!ConvertToTransliteration(s.ctx.conv, s.ctx.comp)))

SwitchKanaType(s) ==
    Only(s, {"CONVERSION", "COMPOSITION"},
         StartConversion(s, SC!SwitchKanaType(s.ctx.conv, s.ctx.comp)))

ConvertToHalfWidth(s) ==
    Only(s, {"CONVERSION", "COMPOSITION"},
         StartConversion(s, SC!ConvertToHalfWidth(s.ctx.conv, s.ctx.comp)))

\* DisplayAs* and Translate*: on a composition they change the output mode.
DisplayAs(s) == IF State(s) = "CONVERSION" THEN ConvertToTransliteration(s) ELSE {s}
TranslateHalfWidth(s) == IF State(s) = "CONVERSION" THEN ConvertToHalfWidth(s) ELSE {s}

InConversion(s, converters) ==
    Only(s, {"CONVERSION"}, {Output(t) : t \in Converted(s, converters)})

SegmentFocus(s) ==
    InConversion(s, {SC!SegmentFocusRight(s.ctx.conv), SC!SegmentFocusLeft(s.ctx.conv),
                     SC!SegmentFocusLast(s.ctx.conv), SC!SegmentFocusLeftEdge(s.ctx.conv)})
SegmentWidthExpand(s) == InConversion(s, SC!ResizeSegmentWidth(s.ctx.conv, 1))
SegmentWidthShrink(s) == InConversion(s, SC!ResizeSegmentWidth(s.ctx.conv, -1))

ConvertNext(s) ==
    {Output(t) : t \in Converted(s, SC!CandidateNext(s.ctx.conv, s.ctx.comp))}
\* ConvertPrev, ConvertNextPage, ConvertPrevPage
ConvertMove(s) == InConversion(s, {SC!CandidateMove(s.ctx.conv)})

ConvertCancel(s) ==
    LET t == SetSessionState(s, "COMPOSITION")
    IN  SuggestAndOutput([t EXCEPT !.ctx.conv = SC!Cancel(@)])

PredictAndConvert(s) ==
    IF State(s) = "CONVERSION" THEN ConvertNext(s)
    ELSE StartConversion(s, SC!PredictWithPreferences(s.ctx.conv, s.ctx.comp))

ExpandSuggestion(s) ==
    Only(s, {"PRECOMPOSITION", "COMPOSITION"},
         {Output(t) : t \in Converted(s,
                         SC!ExpandSuggestionWithPreferences(s.ctx.conv, s.ctx.comp))})

SelectCandidateInternal_KeepsState(s, otherwise) ==
    IF State(s) # "DIRECT" /\ SC!IsActive(s.ctx.conv)
    THEN {Output(t) : t \in Converted(s, SC!CandidateMoveToId(s.ctx.conv, s.ctx.comp))}
    ELSE {otherwise}

SelectCandidateInternal(s, otherwise) ==
    IF State(s) # "DIRECT" /\ SC!IsActive(s.ctx.conv)
    THEN {Output(SetSessionState(t, "CONVERSION")) :
            t \in Converted(s, SC!CandidateMoveToId(s.ctx.conv, s.ctx.comp))}
    ELSE {otherwise}

SelectCandidate(s) == SelectCandidateInternal(s, DoNothing(s))
HighlightCandidate(s) == SelectCandidateInternal(s, s)

\* Without a candidate, or when it is not in the history, nothing is done.
DeleteCandidateFromHistory(s) ==
    {DoNothing(s)} \cup IF SC!IsActive(s.ctx.conv) THEN ConvertCancel(s) ELSE {}

-----------------------------------------------------------------------------
(***************************************************************************)
(* Undo.  Whether the client can delete preceding text is its capability.  *)
(***************************************************************************)
PopUndoContext(s) ==
    {[ClearUndoContext(s) EXCEPT !.ctx = context] : context \in s.undo}

Undo(s) ==
    Only(s, {"PRECOMPOSITION", "CONVERSION", "COMPOSITION"},
         {Output(Discards(t)) : t \in PopUndoContext(s)}
         \cup {DoNothing(s) : x \in IF s.undo = {} \/ s.output THEN {0} ELSE {}})

UndoOrRewind(s) ==
    IF State(s) = "COMPOSITION" THEN SendComposerCommand(s)
    ELSE IF s.undo # {} THEN Undo(s) ELSE {DoNothing(s)}

\* The client answers the callback with an UNDO command.
RequestUndo(s) ==
    IF State(s) = "PRECOMPOSITION" /\ s.undo = {} THEN {EchoBack(s)}
    ELSE Only(s, {"PRECOMPOSITION", "CONVERSION", "COMPOSITION"}, {Output(s)})

RequestConvertReverse(s) == Only(s, {"PRECOMPOSITION", "DIRECT"}, {Output(s)})

-----------------------------------------------------------------------------
(***************************************************************************)
(* Key events and commands.                                                *)
(***************************************************************************)
\* HandleIndirectImeOnOff: a key event may say that the IME is on or off.
\* IMEOff works on a copy of the command, and what it outputs is dropped.
HandleIndirectImeOnOff(s) ==
    {s} \cup IF State(s) = "DIRECT" THEN IMEOn(s)
             ELSE {[t EXCEPT !.out = [NoOutput EXCEPT !.discards = TRUE]] : t \in IMEOff(s)}

ResultSize(out) == IF out.result = <<>> THEN 0 ELSE out.result[1]

\* The characters of the composition that are neither in it any more nor in
\* the result.
Loses(s, t) ==
    /\ ~t.out.discards /\ ~t.out.config
    /\ s.ctx.comp.len + t.out.inserted # t.ctx.comp.len + ResultSize(t.out)

\* A debug build ends when a DCHECK fails.
Run(outcomes) ==
    /\ ~session.ctx.conv.failed
    /\ \E t \in outcomes :
          /\ session' = [t EXCEPT !.out = NoOutput]
          /\ lost' = Loses(session, t)

\* What TestSendKey does in the state the key event would be sent in.
TestSendKeyIn(s, state) ==
    CASE state = "DIRECT"         -> {EchoBack(s), DoNothing(s)}
      [] state = "PRECOMPOSITION" -> EchoBackAndClearUndoContext(s) \cup Revert(s)
                                     \cup {EchoBack(s), DoNothing(s)}
      [] OTHER                    -> {DoNothing(s)}

TestSendKey ==
    \E state \in {State(session)}
                 \cup (IF State(session) = "DIRECT" THEN {"PRECOMPOSITION"} ELSE {})
                 \cup (IF TestsOff THEN {"DIRECT"} ELSE {}) :
        Run(TestSendKeyIn(session, state))

SetRequest ==
    \E request \in Requests :
        Run({[ClearUndoContext(session) EXCEPT !.ctx.conv.request = request]})

Nothing(s) == {DoNothing(s)}

SendKeyDirectInputState(s) ==
    /\ State(s) = "DIRECT"
    /\ \/ Run(EchoBackAndClearUndoContext(s))
       \/ Run(IMEOn(s))
       \/ Run(InputMode(s))
       \/ Run(RequestConvertReverse(s))

SendKeyPrecompositionState(s) ==
    /\ State(s) = "PRECOMPOSITION"
    /\ \/ Run(EchoBackAndClearUndoContext(s))
       \/ Run(InsertCharacter(s))
       \/ Run(InsertSpace(s))
       \/ Run(InputMode(s))
       \/ Run(Revert(s))
       \/ Run(RequestUndo(s))
       \/ Run(IMEOff(s))
       \/ Run(Nothing(s))
       \/ Run(EditCancel(s))
       \/ Run(EditCancelAndIMEOff(s))
       \/ Run(CommitFirstSuggestion(s))
       \/ Run(PredictAndConvert(s))
       \/ Run(RequestConvertReverse(s))

SendKeyCompositionState(s) ==
    /\ State(s) = "COMPOSITION"
    /\ \/ Run(InsertCharacter(s))
       \/ Run(Commit(s))
       \/ Run(CommitFirstSuggestion(s))
       \/ Run(Convert(s))
       \/ Run(ConvertWithoutHistory(s))
       \/ Run(PredictAndConvert(s))
       \/ Run(Delete(s))
       \/ Run(Backspace(s))
       \/ Run(InsertSpace(s))
       \/ Run(MoveCursorLeft(s))
       \/ Run(MoveCursorRight(s))
       \/ Run(MoveCursorToBeginning(s))
       \/ Run(MoveCursorToEnd(s))
       \/ Run(EditCancel(s))
       \/ Run(EditCancelAndIMEOff(s))
       \/ Run(RequestUndo(s))
       \/ Run(IMEOff(s))
       \/ Run(Nothing(s))
       \/ Run(ConvertToTransliteration(s))
       \/ Run(ConvertToHalfWidth(s))
       \/ Run(SwitchKanaType(s))
       \/ Run(DisplayAs(s))
       \/ Run(TranslateHalfWidth(s))
       \/ Run(InputMode(s))

SendKeyConversionState(s) ==
    /\ State(s) = "CONVERSION"
    /\ \/ Run(InsertCharacter(s))
       \/ Run(InsertSpace(s))
       \/ Run(Commit(s))
       \/ Run(CommitSegment(s))
       \/ Run(ConvertNext(s))
       \/ Run(ConvertMove(s))
       \/ Run(PredictAndConvert(s))
       \/ Run(SegmentFocus(s))
       \/ Run(SegmentWidthExpand(s))
       \/ Run(SegmentWidthShrink(s))
       \/ Run(ConvertCancel(s))
       \/ Run(EditCancelAndIMEOff(s))
       \/ Run(RequestUndo(s))
       \/ Run(IMEOff(s))
       \/ Run(Nothing(s))
       \/ Run(ConvertToTransliteration(s))
       \/ Run(ConvertToHalfWidth(s))
       \/ Run(SwitchKanaType(s))
       \/ Run(DisplayAs(s))
       \/ Run(TranslateHalfWidth(s))
       \/ Run(InputMode(s))
       \/ Run(DeleteCandidateFromHistory(s))

SendKey ==
    \E s \in HandleIndirectImeOnOff(session) :
        \/ SendKeyDirectInputState(s)
        \/ SendKeyPrecompositionState(s)
        \/ SendKeyCompositionState(s)
        \/ SendKeyConversionState(s)

SendCommand ==
    \/ Run(Nothing(session))
    \/ Run(InputMode(session))
    \/ Run(Revert(session))
    \/ Run(Commit(session))
    \/ Run(SelectCandidate(session))
    \/ Run(CommitCandidate(session))
    \/ Run(HighlightCandidate(session))
    \/ Run(ConvertReverse(session))
    \/ Run(Undo(session))
    \/ Run(ResetContext(session))
    \/ Run(MoveCursorTo(session))
    \/ Run(ExpandSuggestion(session))
    \/ Run(SwitchInputFieldType(session))
    \/ Run(UndoOrRewind(session))
    \/ Run(CommitRawText(session))
    \/ Run(ConvertMove(session))
    \/ Run(MakeSureIMEOn(session))
    \/ Run(MakeSureIMEOff(session))
    \/ Run(DeleteCandidateFromHistory(session))
    \/ Run(StopKeyToggling(session))

Next == SendKey \/ SendCommand \/ TestSendKey \/ SetRequest
Spec == Init /\ [][Next]_vars

-----------------------------------------------------------------------------
(***************************************************************************)
(* Properties                                                              *)
(***************************************************************************)
Contexts == {session.ctx} \cup session.undo

\* A prediction of nothing (of zero query suggestions, or of suggestions that
\* outlived their composition).  ConvertToTransliteration cancels it and then
\* fails, and leaves the session in CONVERSION.
ConvertsNothing(ctx) == ctx.state = "CONVERSION" /\ ctx.comp.len = 0

\* The state of the session and the state of its converter, which the methods
\* of both change on their own, agree; and so they do after an Undo.  Every
\* handler of session.cc relies on it when it looks at context_->state() and
\* calls a method of the converter that has a DCHECK on the converter's.
StatesAgree ==
    \A ctx \in Contexts :
        \/ ConvertsNothing(ctx)
        \/ ctx.conv.state \in CASE ctx.state = "DIRECT" -> {"COMPOSITION"}
                                [] ctx.state = "CONVERSION" -> {"PREDICTION", "CONVERSION"}
                                [] OTHER -> {"COMPOSITION", "SUGGESTION"}

\* No key event and no command, in any order, makes a method of the converter
\* run in a state its DCHECK excludes (session_converter.cc).
DChecksHold ==
    [][~ConvertsNothing(session.ctx) => ~session'.ctx.conv.failed]_vars

\* The segments of a conversion are a split of what the composer holds: the
\* session takes the keys of committed segments out of the composer that the
\* converter took out of its segments (CommitSegment, CommitCandidate), so
\* that canceling the rest brings back exactly the rest.  segment_index_ is
\* the index of one of them and each has its selected candidate index, also
\* after segments were committed, resized or brought back: FillPreedit,
\* SegmentFocus and CommitUsageStats index by them.
SegmentsCover ==
    \A ctx \in Contexts :
        LET c == ctx.conv
        IN  /\ c.state = "CONVERSION" => SC!Total(c.keys) = ctx.comp.len
            /\ SC!IsActive(c) => c.index < Len(c.keys) /\ c.indices >= Len(c.keys)

\* Text in the composer is text the user sees: it is in a state that outputs
\* a preedit, and the cursor is in it.
ComposedIsShown ==
    \A ctx \in Contexts :
        /\ ctx.comp.len > 0 => ctx.state \in {"COMPOSITION", "CONVERSION"}
        /\ ctx.comp.cursor \in 0..ctx.comp.len

\* The client asks neither for partial suggestions nor for mixed conversion,
\* which makes them where the cursor is inside the composition: their commit
\* may leave its result in the converter (session.cc:1321).  And no such result
\* is left.
NoPartialResult ==
    /\ ~Request(session).partial /\ ~Request(session).mixed
    /\ session.ctx.conv.result = <<>>

\* What a command commits is in its own output (PopOutput): it leaves no
\* result in the converter for a later command to deliver or to drop.
ResultDelivered == [][NoPartialResult => session'.ctx.conv.result = <<>>]_vars

\* A command in a normal field that neither cancels nor undoes keeps every
\* character: what was composed and inserted is in the composition or in the
\* result.
NothingLost ==
    [][NoPartialResult /\ session.ctx.comp.field = "NORMAL" => ~lost']_vars
=============================================================================
