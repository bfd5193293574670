--------------------------- MODULE SessionConverter ---------------------------
(***************************************************************************)
(* The converter of one session (session/session_converter.cc): the states *)
(* COMPOSITION, SUGGESTION, PREDICTION and CONVERSION, the conversion      *)
(* segments, the focused one, and the result waiting to be output.         *)
(*                                                                         *)
(* A converter is a record:                                                *)
(*   state     state_                                                      *)
(*   keys      the lengths of the keys of the conversion segments          *)
(*   index     segment_index_, counted from 0                              *)
(*   indices   the size of selected_candidate_indices_                     *)
(*   result    <<>>, or <<n>> when result_ has a value that stands for n   *)
(*             characters of the composition                               *)
(*   command   whether updated_command_ is to be output                    *)
(*   request   request_                                                    *)
(*   failed    whether a DCHECK on state_ failed (history)                 *)
(*                                                                         *)
(* The conversion engine is outside: how it splits a key into segments,    *)
(* whether it has suggestions and which candidate has an attribute are     *)
(* choices.  A method is the set of its outcomes: converters, or [ok, c]   *)
(* or [size, c] for a method with a result.  Of the composer the converter *)
(* reads the length, the cursor and the type of the input field.           *)
(*                                                                         *)
(* Left out: the candidate list (an active converter has one), whether it  *)
(* is visible, and the segments of a converter in COMPOSITION, which are   *)
(* not read again.  previous_suggestions_ has candidates in SUGGESTION and *)
(* none in COMPOSITION, and only there it decides what is done.            *)
(***************************************************************************)
EXTENDS Integers, Sequences

CONSTANTS
    MaxLen,           \* bound: the characters of a composition
    Requests,         \* the requests of the client: records of the flags
                      \* zero_query, mixed, partial and crossing
    EngineMayFail     \* whether the engine may find nothing for a key

Total(keys) ==
    LET sum[n \in 0..Len(keys)] == IF n = 0 THEN 0 ELSE sum[n - 1] + keys[n]
    IN  sum[Len(keys)]

\* The ways to split n characters into segments.
Splits ==
    [n \in 0..MaxLen |-> {k \in UNION {[1..m -> 1..n] : m \in 0..n} : Total(k) = n}]

Converters ==
    [state    : {"COMPOSITION", "SUGGESTION", "PREDICTION", "CONVERSION"},
     keys     : {<<0>>} \cup UNION {Splits[n] : n \in 0..MaxLen},
     index    : 0..(MaxLen - 1),
     indices  : 0..MaxLen,
     result   : {<<>>} \cup {<<n>> : n \in 0..MaxLen},
     command  : BOOLEAN,
     request  : Requests,
     failed   : BOOLEAN]

NewConverter(request) ==
    [state |-> "COMPOSITION", keys |-> <<>>, index |-> 0, indices |-> 0,
     result |-> <<>>, command |-> FALSE, request |-> request, failed |-> FALSE]

CheckState(c, states) == c.state \in states
IsActive(c) == CheckState(c, {"SUGGESTION", "PREDICTION", "CONVERSION"})

Yes(c) == [ok |-> TRUE, c |-> c]
No(c) == [ok |-> FALSE, c |-> c]
Failed(c) == [c EXCEPT !.failed = TRUE]

ResetResult(c) == [c EXCEPT !.result = <<>>]

\* With the segments, which nothing reads in COMPOSITION.
ResetState(c) ==
    [c EXCEPT !.state = "COMPOSITION", !.keys = <<>>, !.index = 0, !.indices = 0]

Cancel(c) ==
    IF IsActive(c) THEN ResetState(ResetResult(c)) ELSE Failed(c)

\* A result of a converter in COMPOSITION stays.
Reset(c) ==
    IF CheckState(c, {"COMPOSITION"}) THEN c ELSE ResetState(ResetResult(c))

-----------------------------------------------------------------------------
(***************************************************************************)
(* Starting a conversion, a suggestion or a prediction.                    *)
(***************************************************************************)
InitializeSelectedCandidateIndices(c) == [c EXCEPT !.indices = Len(c.keys)]

\* StartConversionForRequest fails for an empty key.
ConvertWithPreferences(c, comp) ==
    IF ~CheckState(c, {"COMPOSITION", "SUGGESTION", "CONVERSION"})
    THEN {No(Failed(c))}
    ELSE {No(ResetState(c)) : x \in IF comp.len = 0 \/ EngineMayFail THEN {0} ELSE {}}
         \cup {Yes(InitializeSelectedCandidateIndices(
                     [c EXCEPT !.state = "CONVERSION", !.keys = k, !.index = 0])) :
                 k \in Splits[comp.len] \ {<<>>}}

\* With the cursor inside the composition, what precedes it is converted.
Inside(c, comp) == c.request.mixed /\ comp.cursor \notin {0, comp.len}

SuggestWithPreferences_ResetsResult(c, comp) ==
    LET r == ResetState(ResetResult(c))
    IN  {No(r), Yes(InitializeSelectedCandidateIndices(
                        [r EXCEPT !.state = "SUGGESTION", !.keys = <<comp.len>>]))}

\* Suggestions exist for an empty composition only on request.  None are
\* found when request_suggestion of the input is off.
SuggestWithPreferences(c, comp) ==
    LET r == ResetState(c)
        size == IF Inside(c, comp) THEN comp.cursor ELSE comp.len
        found == /\ comp.field # "PASSWORD"
                 /\ comp.len > 0 \/ c.request.zero_query
    IN  IF ~CheckState(c, {"COMPOSITION", "SUGGESTION"}) THEN {No(Failed(c))}
        ELSE {No(r)} \cup
             {Yes(InitializeSelectedCandidateIndices(
                    [r EXCEPT !.state = "SUGGESTION", !.keys = k])) :
                k \in IF found THEN {<<size>>} ELSE {}}

\* Without suggestions to go on from, the prediction may find nothing.
PredictWithPreferences(c, comp) ==
    LET predict_first == CheckState(c, {"COMPOSITION"})
        found == predict_first => comp.len > 0 \/ c.request.zero_query
    IN  {No(ResetState(ResetResult(c))) : x \in IF predict_first THEN {0} ELSE {}}
        \cup {Yes(InitializeSelectedCandidateIndices(
                    [ResetResult(c) EXCEPT !.state = "PREDICTION", !.keys = k,
                                           !.index = 0])) :
                k \in IF found THEN {<<comp.len>>} ELSE {}}

\* When the partial prediction finds nothing, the segments are gone.
ExpandSuggestionWithPreferences(c, comp) ==
    IF CheckState(c, {"COMPOSITION"}) THEN {c}
    ELSE IF CheckState(c, {"CONVERSION"}) THEN {Failed(c)}
    ELSE {[ResetResult(c) EXCEPT !.keys = k, !.index = 0] :
            k \in {IF Inside(c, comp) THEN <<comp.cursor>> ELSE <<comp.len>>}
                  \cup (IF Inside(c, comp) /\ EngineMayFail THEN {<<>>} ELSE {})}

\* When the last candidate of a prediction is focused.
MaybeExpandPrediction(c, comp) ==
    {c} \cup IF CheckState(c, {"PREDICTION"})
             THEN {o.c : o \in PredictWithPreferences(c, comp)} ELSE {}

\* The composition becomes one segment.  ConvertToTransliteration resizes it
\* with ResizeSegmentWidth, which resizes selected_candidate_indices_ too.
Transliterate(c, comp, resizes) ==
    LET d == IF CheckState(c, {"PREDICTION"}) THEN Cancel(c) ELSE c
        Merge(e) == [e EXCEPT !.keys = <<Total(@)>>,
                              !.indices = IF resizes THEN 1 ELSE @]
    IN  IF CheckState(d, {"COMPOSITION", "SUGGESTION"})
        THEN {IF o.ok THEN Yes(Merge(o.c)) ELSE o : o \in ConvertWithPreferences(d, comp)}
        ELSE {Yes(d)}

ConvertToTransliteration(c, comp) == Transliterate(c, comp, TRUE)
SwitchKanaType(c, comp) == Transliterate(c, comp, FALSE)
ConvertToHalfWidth(c, comp) ==
    ConvertToTransliteration(IF CheckState(c, {"PREDICTION"}) THEN Cancel(c) ELSE c, comp)

-----------------------------------------------------------------------------
(***************************************************************************)
(* Committing.  A candidate with a command performs it instead of being    *)
(* committed (UpdateResult returns false), and the conversion is canceled. *)
(***************************************************************************)
Performed(c) == [Cancel(c) EXCEPT !.command = TRUE]

\* What the candidate of a suggestion or a prediction consumes of the key.
ConsumedSizes(c, comp) ==
    {comp.len}
    \cup (IF c.request.partial THEN 1..(comp.len - 1) ELSE {})
    \cup (IF Inside(c, comp) THEN {comp.cursor} ELSE {})

Commit(c, comp) ==
    IF ~CheckState(c, {"PREDICTION", "CONVERSION"}) THEN {Failed(c)}
    ELSE {Performed(c)} \cup
         {ResetState([c EXCEPT !.result = <<n>>]) :
            n \in IF CheckState(c, {"PREDICTION"}) THEN ConsumedSizes(c, comp)
                  ELSE {Total(c.keys)}}

CommitSegmentsInternal(c, comp, segments_to_commit) ==
    LET size == Total(SubSeq(c.keys, 1, segments_to_commit))
    IN  IF ~CheckState(c, {"PREDICTION", "CONVERSION"})
        THEN {[size |-> 0, c |-> Failed(c)]}
        ELSE IF Len(c.keys) = segments_to_commit
        THEN {[size |-> 0, c |-> d] : d \in Commit(c, comp)}
        ELSE {[size |-> 0, c |-> Performed(c)],
              [size |-> size,
               c    |-> [c EXCEPT !.result = <<size>>,
                                  !.keys = SubSeq(@, segments_to_commit + 1, Len(@)),
                                  !.indices = @ - segments_to_commit,
                                  !.index = IF @ > segments_to_commit
                                            THEN @ - segments_to_commit ELSE 0]]}

CommitFirstSegment(c, comp) == CommitSegmentsInternal(c, comp, 1)
CommitHeadToFocusedSegments(c, comp) ==
    CommitSegmentsInternal(c, comp, c.index + 1)

\* Of a partial suggestion the rest of the key becomes a segment.
CommitSuggestionInternal(c, comp) ==
    {[ok |-> FALSE, size |-> 0, c |-> [ResetState(ResetResult(c)) EXCEPT !.command = TRUE]]}
    \cup
    {[ok |-> TRUE, size |-> n,
      c  |-> IF c.request.zero_query /\ n < comp.len
             THEN InitializeSelectedCandidateIndices(
                      [c EXCEPT !.result = <<n>>, !.keys = <<comp.len - n>>])
             ELSE ResetState([c EXCEPT !.result = <<n>>])] :
       n \in ConsumedSizes(c, comp)}

\* CommitSuggestionByIndex for the first one, CommitSuggestionById for one
\* that is listed
CommitSuggestion(c, comp) ==
    IF CheckState(c, {"SUGGESTION"}) THEN CommitSuggestionInternal(c, comp)
    ELSE {[ok |-> FALSE, size |-> 0, c |-> Failed(c)]}

CommitPreedit(c, comp) == ResetState([c EXCEPT !.result = <<comp.len>>])
CommitHead(c, count) == [c EXCEPT !.result = <<count>>]

-----------------------------------------------------------------------------
(***************************************************************************)
(* Segments and candidates.                                                *)
(***************************************************************************)
SegmentFocusInternal(c, index) ==
    IF ~CheckState(c, {"PREDICTION", "CONVERSION"}) THEN Failed(c)
    ELSE IF CheckState(c, {"PREDICTION"}) THEN c
    ELSE [ResetResult(c) EXCEPT !.index = index]

SegmentFocusLeftEdge(c) == SegmentFocusInternal(c, 0)
SegmentFocusLast(c) == SegmentFocusInternal(c, Len(c.keys) - 1)
SegmentFocusRight(c) ==
    IF c.index + 1 >= Len(c.keys) THEN SegmentFocusLeftEdge(c)
    ELSE SegmentFocusInternal(c, c.index + 1)
SegmentFocusLeft(c) ==
    IF c.index = 0 THEN SegmentFocusLast(c)
    ELSE SegmentFocusInternal(c, c.index - 1)

\* The engine keeps the segments before the focused one, and splits what
\* follows it anew.
ResizeSegmentWidth(c, delta) ==
    LET before == SubSeq(c.keys, 1, c.index)
        width  == c.keys[c.index + 1] + delta
        rest   == Total(c.keys) - Total(before) - width
    IN  IF ~CheckState(c, {"PREDICTION", "CONVERSION"}) THEN {Failed(c)}
        ELSE IF CheckState(c, {"PREDICTION"}) THEN {c}
        ELSE IF width = 0 \/ rest < 0 THEN {ResetResult(c)}
        ELSE {[ResetResult(c) EXCEPT !.keys = before \o <<width>> \o after,
                                     !.indices = c.index + 1 + Len(after)] :
                after \in Splits[rest]}

\* CandidateNext, CandidateNextPage, CandidatePrev, CandidatePrevPage
CandidateNext(c, comp) ==
    IF CheckState(c, {"PREDICTION", "CONVERSION"})
    THEN MaybeExpandPrediction(ResetResult(c), comp) ELSE {Failed(c)}
CandidateMove(c) ==
    IF CheckState(c, {"PREDICTION", "CONVERSION"}) THEN ResetResult(c) ELSE Failed(c)

\* The suggestions become predictions.
CandidateMoveToId(c, comp) ==
    IF CheckState(c, {"SUGGESTION"})
    THEN {o.c : o \in PredictWithPreferences(c, comp)}
    ELSE {CandidateMove(c)}
=============================================================================
