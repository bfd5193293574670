---------------------------- MODULE SessionInvariant ----------------------------
(***************************************************************************)
(* The inductive invariant of Session and what it rests on: what a         *)
(* converter, a context and a session look like between two commands       *)
(* (Good), what a handler may have done between two of its steps (Leads)   *)
(* and what it promises when it returns (Step).  The proofs are in         *)
(*   SessionPartsProofs   the methods of the converter, the helpers of the *)
(*                        handlers, and committing                         *)
(*   SessionProofs        the other handlers, from their promise to the    *)
(*                        steps of the session, and the theorems           *)
(***************************************************************************)
EXTENDS Session

-----------------------------------------------------------------------------
(***************************************************************************)
(* A converter.                                                            *)
(***************************************************************************)
RequestType ==
    [zero_query : BOOLEAN, mixed : BOOLEAN, partial : BOOLEAN, crossing : BOOLEAN]
Results == {<<>>} \cup {<<n>> : n \in Nat}

ConverterType ==
    [state : {"COMPOSITION", "SUGGESTION", "PREDICTION", "CONVERSION"},
     keys : Seq(Nat), index : Nat, indices : Nat, result : Results,
     command : BOOLEAN, request : RequestType, failed : BOOLEAN]

\* The segments of an active converter: suggestions and predictions have one,
\* the segments of a conversion are not empty; the focused segment is one of
\* them, and each has its candidate index.
WellFormed(c) ==
    /\ c \in ConverterType
    /\ c.state \in {"SUGGESTION", "PREDICTION"} =>
          Len(c.keys) = 1 /\ c.index = 0 /\ c.indices >= 1
    /\ c.state = "CONVERSION" =>
          /\ c.index < Len(c.keys) /\ c.indices >= Len(c.keys)
          /\ \A i \in 1..Len(c.keys) : c.keys[i] > 0

\* The segments of a conversion are what the composer holds.
Covers(c, len) == c.state = "CONVERSION" => SC!Total(c.keys) = len

ComposerType ==
    [len : 0..MaxLen, cursor : 0..MaxLen, field : Fields \cup {"NORMAL"}]

\* The client asks for neither partial suggestions nor mixed conversion.
Whole(c) == ~c.request.partial /\ ~c.request.mixed

-----------------------------------------------------------------------------
(***************************************************************************)
(* A session between two commands.                                         *)
(***************************************************************************)
ContextType ==
    [state : {"DIRECT", "PRECOMPOSITION", "COMPOSITION", "CONVERSION"},
     comp : ComposerType, conv : ConverterType]
OutputType ==
    [result : Results, config : BOOLEAN, inserted : Int, discards : BOOLEAN]
SessionType ==
    [ctx : ContextType, undo : SUBSET ContextType, output : BOOLEAN, out : OutputType]

\* The state of the session and the state of its converter.
Agree(state, len, conv_state) ==
    /\ state = "DIRECT" => conv_state = "COMPOSITION"
    /\ state \in {"PRECOMPOSITION", "COMPOSITION"} =>
          conv_state \in {"COMPOSITION", "SUGGESTION"}
    /\ state = "CONVERSION" =>
          \/ conv_state \in {"PREDICTION", "CONVERSION"}
          \/ conv_state = "COMPOSITION" /\ len = 0

Fit(ctx) ==
    /\ ctx \in ContextType
    /\ WellFormed(ctx.conv)
    /\ ctx.comp.cursor <= ctx.comp.len
    /\ Covers(ctx.conv, ctx.comp.len)
    /\ Agree(ctx.state, ctx.comp.len, ctx.conv.state)

Shown(ctx) == ctx.state \in {"DIRECT", "PRECOMPOSITION"} => ctx.comp.len = 0

\* A session between two steps of a handler, and one between two commands.
Ready(s) ==
    /\ s \in SessionType
    /\ Fit(s.ctx)
    /\ \A u \in s.undo : Fit(u) /\ Shown(u) /\ ~u.conv.failed
Good(s) == Ready(s) /\ Shown(s.ctx) /\ ~s.ctx.conv.command

\* In a password field a key inserts one character: CommitHead of the first of
\* two that one key inserts would leave the other where nothing shows it.
OnePasswordCharacter == MaxInsert = 1 \/ "PASSWORD" \notin Fields

-----------------------------------------------------------------------------
(***************************************************************************)
(* A handler.                                                              *)
(***************************************************************************)
\* No partial result is made, and none is left by an earlier command.
Plain(s) == Whole(s.ctx.conv) /\ s.ctx.conv.result = <<>>

\* No DCHECK has failed, and none has a reason to.
Sound(s) == ~s.ctx.conv.failed /\ ~ConvertsNothing(s.ctx)

\* The characters that are composed, converted or output, without those that
\* the command inserted.
Text(s) ==
    s.ctx.comp.len + ResultSize(s.out) + ResultSize(s.ctx.conv) - s.out.inserted

\* From s on, the handler has lost no text.
Balanced(s, u) ==
    Plain(s) /\ s.ctx.comp.field = "NORMAL" =>
        /\ u.out.result = <<>> \/ u.ctx.conv.result = <<>>
        /\ \/ u.out.discards \/ u.out.config \/ u.ctx.conv.command
           \/ Text(u) = Text(s)

\* u is a session between two steps of a handler that started from s.
Formed(s, u) ==
    /\ u \in SessionType /\ WellFormed(u.ctx.conv)
    /\ u.ctx.comp.cursor <= u.ctx.comp.len
    /\ \A v \in u.undo : Fit(v) /\ Shown(v) /\ ~v.conv.failed
    /\ u.ctx.conv.request = s.ctx.conv.request
    /\ u.ctx.comp.field = s.ctx.comp.field
    /\ s.out.discards => u.out.discards
    /\ s.out.config => u.out.config
    /\ Sound(s) => ~u.ctx.conv.failed
Leads(s, u) == Formed(s, u) /\ Balanced(s, u)

\* A handler that starts from s may end in t.
Step(s, t) ==
    /\ Good(t)
    /\ s.out.discards => t.out.discards
    /\ s.out.config => t.out.config
    /\ Sound(s) => ~t.ctx.conv.failed
    /\ Plain(s) =>
          /\ t.ctx.conv.result = <<>>
          /\ s.ctx.comp.field = "NORMAL" =>
                t.out.discards \/ t.out.config \/ Text(t) = Text(s)

\* What a handler that may commit starts from.
Starts(s) == Good(s) /\ ~s.ctx.conv.failed /\ s.out.result = <<>>

-----------------------------------------------------------------------------
(***************************************************************************)
(* A command.                                                              *)
(***************************************************************************)
\* What a command that starts from r promises when it ends in t.
Kept(r, t) ==
    /\ Good(t)
    /\ Sound(r) => ~t.ctx.conv.failed
    /\ Plain(r) => /\ t.ctx.conv.result = <<>>
                   /\ r.ctx.comp.field = "NORMAL" => ~Loses(r, t)

\* A command that starts from r comes to its handler in s.
Reaches(r, s) ==
    /\ Good(s) /\ s.out.result = <<>>
    /\ s.ctx.state # "DIRECT" => ~s.ctx.conv.failed
    /\ Sound(r) => Sound(s)
    /\ Plain(r) => Plain(s) /\ (s.out.discards \/ Text(s) = Text(r))
    /\ s.ctx.comp.field = r.ctx.comp.field

\* Between two commands.
IInv == Good(session) /\ session.out = NoOutput

\* What a step does.
Steps ==
    /\ IInv'
    /\ Sound(session) => ~session'.ctx.conv.failed
    /\ Plain(session) => /\ session'.ctx.conv.result = <<>>
                         /\ session.ctx.comp.field = "NORMAL" => ~lost'

-----------------------------------------------------------------------------
(***************************************************************************)
(* What the handlers promise.                                              *)
(***************************************************************************)
\* Every outcome of the handlers that a key event or a command may run.
DirectOutcomes(s) ==
    EchoBackAndClearUndoContext(s) \cup IMEOn(s) \cup InputMode(s)
    \cup RequestConvertReverse(s)
PrecompositionOutcomes(s) ==
    EchoBackAndClearUndoContext(s) \cup InsertCharacter(s) \cup InsertSpace(s)
    \cup InputMode(s) \cup Revert(s) \cup RequestUndo(s) \cup IMEOff(s)
    \cup Nothing(s) \cup EditCancel(s) \cup EditCancelAndIMEOff(s)
    \cup CommitFirstSuggestion(s) \cup PredictAndConvert(s)
    \cup RequestConvertReverse(s)
CompositionOutcomes(s) ==
    InsertCharacter(s) \cup Commit(s) \cup CommitFirstSuggestion(s) \cup Convert(s)
    \cup ConvertWithoutHistory(s) \cup PredictAndConvert(s) \cup Delete(s)
    \cup Backspace(s) \cup InsertSpace(s) \cup MoveCursorLeft(s)
    \cup MoveCursorRight(s) \cup MoveCursorToBeginning(s) \cup MoveCursorToEnd(s)
    \cup EditCancel(s) \cup EditCancelAndIMEOff(s) \cup RequestUndo(s)
    \cup IMEOff(s) \cup Nothing(s) \cup ConvertToTransliteration(s)
    \cup ConvertToHalfWidth(s) \cup SwitchKanaType(s) \cup DisplayAs(s)
    \cup TranslateHalfWidth(s) \cup InputMode(s)
ConversionOutcomes(s) ==
    InsertCharacter(s) \cup InsertSpace(s) \cup Commit(s) \cup CommitSegment(s)
    \cup ConvertNext(s) \cup ConvertMove(s) \cup PredictAndConvert(s)
    \cup SegmentFocus(s) \cup SegmentWidthExpand(s) \cup SegmentWidthShrink(s)
    \cup ConvertCancel(s) \cup EditCancelAndIMEOff(s) \cup RequestUndo(s)
    \cup IMEOff(s) \cup Nothing(s) \cup ConvertToTransliteration(s)
    \cup ConvertToHalfWidth(s) \cup SwitchKanaType(s) \cup DisplayAs(s)
    \cup TranslateHalfWidth(s) \cup InputMode(s) \cup DeleteCandidateFromHistory(s)
CommandOutcomes(s) ==
    Nothing(s) \cup InputMode(s) \cup Revert(s) \cup Commit(s)
    \cup SelectCandidate(s) \cup CommitCandidate(s) \cup HighlightCandidate(s)
    \cup ConvertReverse(s) \cup Undo(s) \cup ResetContext(s) \cup MoveCursorTo(s)
    \cup ExpandSuggestion(s) \cup SwitchInputFieldType(s) \cup UndoOrRewind(s)
    \cup CommitRawText(s) \cup ConvertMove(s) \cup MakeSureIMEOn(s)
    \cup MakeSureIMEOff(s) \cup DeleteCandidateFromHistory(s)
    \cup StopKeyToggling(s)

\* The handlers of a state expect that the session is in it; only those of
\* DIRECT may run after HandleIndirectImeOnOff left a failed DCHECK behind.
HandlersStep ==
    /\ \A s : Good(s) /\ s.ctx.state = "DIRECT" => \A t \in DirectOutcomes(s) : Step(s, t)
    /\ \A s : Starts(s) =>
          /\ s.ctx.state = "PRECOMPOSITION" =>
                \A t \in PrecompositionOutcomes(s) : Step(s, t)
          /\ s.ctx.state = "COMPOSITION" => \A t \in CompositionOutcomes(s) : Step(s, t)
          /\ s.ctx.state = "CONVERSION" => \A t \in ConversionOutcomes(s) : Step(s, t)
          /\ \A t \in CommandOutcomes(s) : Step(s, t)

\* TestSendKey asks in the state of the session, or in the one IMEOn makes of
\* it.
TestsStep ==
    \A s, state :
        /\ Good(s)
        /\ state = s.ctx.state \/ (s.ctx.state = "DIRECT" /\ state = "PRECOMPOSITION")
        => \A t \in TestSendKeyIn(s, state) : Step(s, t)

\* HandleIndirectImeOnOff goes on with what these lead to.
SwitchesLead ==
    \A s : Starts(s) =>
        /\ s.ctx.state = "DIRECT" =>
              \A t \in IMEOn(s) :
                  /\ Step(s, t) /\ Leads(s, t) /\ t.ctx.state = "PRECOMPOSITION"
                  /\ t.ctx.conv = s.ctx.conv /\ t.out = s.out
        /\ s.ctx.state # "DIRECT" =>
              \A t \in IMEOff(s) : Step(s, t) /\ Leads(s, t) /\ t.ctx.state = "DIRECT"

RequestsKept ==
    \A s : Starts(s) /\ s.out = NoOutput =>
        \A request \in Requests :
            Kept(s, [ClearUndoContext(s) EXCEPT !.ctx.conv.request = request])

Promise == HandlersStep /\ TestsStep /\ SwitchesLead /\ RequestsKept
=============================================================================
