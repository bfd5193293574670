---------------------------- MODULE SessionProofs ----------------------------
(***************************************************************************)
(* Every handler of session.cc keeps its promise, whatever the converter   *)
(* and the composer do in between; and with it the properties of Session   *)
(* hold.                                                                   *)
(***************************************************************************)
EXTENDS SessionPartsProofs

\* Nearly every leaf is first-order reasoning about named facts; the ones with
\* arithmetic, sequences or records to compute cite SMT.
USE ZenonT(30)

-----------------------------------------------------------------------------
(***************************************************************************)
(* From the promise of the handlers to the steps of the session: if every  *)
(* handler leads from a good session to a good one and loses nothing on    *)
(* the way (Promise), IInv is an inductive invariant of Session, and a     *)
(* step of it has the properties DChecksHold, ResultDelivered and          *)
(* NothingLost speak of.                                                   *)
(***************************************************************************)
\* The handler keeps the promise.
LEMMA ReachesStep ==
    ASSUME NEW r \in SessionType, r.out = NoOutput, NEW s, Reaches(r, s), NEW t, Step(s, t)
    PROVE  Kept(r, t)
<1>1. Good(t) /\ (Sound(r) => ~t.ctx.conv.failed)
  BY DEF Reaches, Step
<1>2. Plain(r) => t.ctx.conv.result = <<>>
  BY DEF Reaches, Step
<1>3. ASSUME Plain(r), r.ctx.comp.field = "NORMAL"
      PROVE  ~Loses(r, t)
  <2>1. CASE t.out.discards \/ t.out.config
    BY <2>1 DEF Loses
  <2>2. CASE ~t.out.discards /\ ~t.out.config
    <3>1. Text(t) = Text(r)
      BY <1>3, <2>2 DEF Reaches, Step
    <3>2. /\ ResultSize(r.out) = 0 /\ ResultSize(r.ctx.conv) = 0 /\ r.out.inserted = 0
          /\ ResultSize(t.ctx.conv) = 0
      BY SMT, <1>2, <1>3 DEF NoOutput, Plain, ResultSize
    <3>3. /\ r.ctx.comp.len \in Int /\ t.ctx.comp.len \in Int /\ t.out.inserted \in Int
          /\ ResultSize(t.out) \in Int
      <4>1. t \in SessionType
        BY <1>1 DEF Good, Ready
      <4>2. t.out.result = <<>> \/ \E n \in Nat : t.out.result = <<n>>
        BY <4>1 DEF SessionType, OutputType, Results
      <4>3. ResultSize(t.out) \in Int
        BY SMT, <4>2 DEF ResultSize
      <4>4. QED
        BY SMTT(30), <4>1, <4>3, SessionAssumptions
           DEF SessionType, ContextType, ComposerType, OutputType
    <3>4. r.ctx.comp.len + t.out.inserted = t.ctx.comp.len + ResultSize(t.out)
      BY SMTT(30), <3>1, <3>2, <3>3 DEF Text
    <3>5. QED
      BY <3>4 DEF Loses
  <2>3. QED
    BY <2>1, <2>2
<1>4. QED
  BY <1>1, <1>2, <1>3 DEF Kept

\* Most commands come to their handler as they are.
LEMMA ReachesSame ==
    ASSUME NEW r, Starts(r)
    PROVE  Reaches(r, r)
BY DEF Starts, Reaches

\* HandleIndirectImeOnOff.
LEMMA ReachesIndirect ==
    ASSUME SwitchesLead, NEW r, Starts(r), r.out = NoOutput,
           NEW s \in HandleIndirectImeOnOff(r)
    PROVE  Reaches(r, s)
<1>0. r \in SessionType /\ Good(r)
  BY DEF Starts, Good, Ready
<1>1. CASE s = r
  BY <1>1, ReachesSame
<1>2. CASE r.ctx.state = "DIRECT" /\ s \in IMEOn(r)
  <2>1. /\ Step(r, s) /\ Leads(r, s) /\ s.ctx.state = "PRECOMPOSITION"
        /\ s.ctx.conv = r.ctx.conv /\ s.out = r.out
    BY <1>2 DEF SwitchesLead
  <2>2. r.ctx.comp.len = 0 /\ s.ctx.comp.len = 0
    BY <1>0, <1>2, <2>1 DEF Step, Good, Shown
  <2>3. Text(s) = Text(r)
    BY <2>1, <2>2 DEF Text
  <2>4. Good(s) /\ s.ctx.comp.field = r.ctx.comp.field
    BY <2>1 DEF Step, Leads, Formed
  <2>5. Sound(r) => Sound(s)
    BY <2>1 DEF Sound, ConvertsNothing
  <2>6. Plain(r) => Plain(s)
    BY <2>1 DEF Plain
  <2>7. QED
    BY <2>1, <2>3, <2>4, <2>5, <2>6 DEF Reaches, Starts
<1>3. ASSUME r.ctx.state # "DIRECT", NEW t \in IMEOff(r),
             s = [t EXCEPT !.out = [NoOutput EXCEPT !.discards = TRUE]]
      PROVE  Reaches(r, s)
  <2> DEFINE out == [NoOutput EXCEPT !.discards = TRUE]
  <2>1. Step(r, t) /\ Leads(r, t) /\ t.ctx.state = "DIRECT"
    BY <1>3 DEF SwitchesLead
  <2>2. out \in OutputType /\ out.result = <<>> /\ out.discards
    <3>1. NoOutput \in OutputType /\ NoOutput.result = <<>>
      BY SMT DEF NoOutput, OutputType, Results
    <3>2. QED
      BY <3>1 DEF OutputType
  <2>3. s = [t EXCEPT !.out = out]
    BY <1>3
  <2> HIDE DEF out
  <2>4. t \in SessionType
    BY <2>1 DEF Leads, Formed
  <2>5. s \in SessionType /\ s.ctx = t.ctx /\ s.undo = t.undo /\ s.out = out
    BY <2>2, <2>3, <2>4 DEF SessionType
  <2>6. Good(s)
    BY <2>1, <2>5 DEF Step, Good, Ready
  <2>7. Sound(r) => Sound(s)
    BY <2>1, <2>5 DEF Step, Sound, ConvertsNothing
  <2>8. Plain(r) => Plain(s)
    BY <2>1, <2>5 DEF Step, Leads, Formed, Plain, Whole
  <2>9. s.ctx.comp.field = r.ctx.comp.field
    BY <2>1, <2>5 DEF Leads, Formed
  <2>10. QED
    BY <2>1, <2>2, <2>5, <2>6, <2>7, <2>8, <2>9 DEF Reaches
<1>4. QED
  BY <1>1, <1>2, <1>3 DEF HandleIndirectImeOnOff, State

\* A command starts from a session in which no DCHECK failed.
LEMMA RunStarts ==
    ASSUME IInv, NEW outcomes, Run(outcomes)
    PROVE  Starts(session) /\ session \in SessionType
<1>1. session.out.result = <<>>
  BY SMT DEF IInv, NoOutput
<1>2. QED
  BY <1>1 DEF IInv, Run, Starts, Good, Ready

\* The output goes to the client.
LEMMA RunKept ==
    ASSUME IInv, NEW outcomes, Run(outcomes), \A t \in outcomes : Kept(session, t)
    PROVE  Steps
<1>1. PICK t \in outcomes : session' = [t EXCEPT !.out = NoOutput] /\ lost' = Loses(session, t)
  BY DEF Run
<1>2. Kept(session, t) /\ Good(t) /\ t \in SessionType
  BY <1>1 DEF Kept, Good, Ready
<1>3. NoOutput \in OutputType
  BY SMT DEF NoOutput, OutputType, Results
<1>4. /\ session' \in SessionType /\ session'.ctx = t.ctx /\ session'.undo = t.undo
      /\ session'.out = NoOutput
  BY <1>1, <1>2, <1>3 DEF SessionType
<1>5. Good(session') /\ session'.out = NoOutput
  BY <1>2, <1>4 DEF Good, Ready
<1>6. IInv'
  BY <1>5 DEF IInv
<1>7. QED
  BY <1>1, <1>2, <1>4, <1>6 DEF Steps, Kept

\* The outcomes of a handler.
LEMMA RunStep ==
    ASSUME IInv, NEW s, Reaches(session, s),
           NEW outcomes, Run(outcomes), \A t \in outcomes : Step(s, t)
    PROVE  Steps
<1>1. session \in SessionType /\ session.out = NoOutput
  BY RunStarts DEF IInv
<1>2. \A t \in outcomes : Kept(session, t)
  BY <1>1, ReachesStep
<1>3. QED
  BY <1>2, RunKept

\* SendKey.
LEMMA SendKeyStep ==
    ASSUME HandlersStep, SwitchesLead, IInv, SendKey
    PROVE  Steps /\ Starts(session)
<1>1. PICK s \in HandleIndirectImeOnOff(session) :
          \/ SendKeyDirectInputState(s)
          \/ SendKeyPrecompositionState(s)
          \/ SendKeyCompositionState(s)
          \/ SendKeyConversionState(s)
  BY DEF SendKey
<1>2. ASSUME NEW outcomes, Run(outcomes), Reaches(session, s) => \A t \in outcomes : Step(s, t)
      PROVE  Steps /\ Starts(session)
  <2>1. Starts(session)
    BY <1>2, RunStarts
  <2>2. Reaches(session, s)
    BY <2>1, ReachesIndirect DEF IInv
  <2>3. QED
    BY <1>2, <2>1, <2>2, RunStep
<1>3. Reaches(session, s) => Good(s) /\ (s.ctx.state # "DIRECT" => Starts(s))
  BY DEF Reaches, Starts
<1>4. CASE SendKeyDirectInputState(s)
  <2>1. s.ctx.state = "DIRECT"
    BY <1>4 DEF SendKeyDirectInputState, State
  <2>2. Reaches(session, s) => \A t \in DirectOutcomes(s) : Step(s, t)
    BY <1>3, <2>1 DEF HandlersStep
  <2>3. \E outcomes : Run(outcomes) /\ outcomes \subseteq DirectOutcomes(s)
    BY <1>4 DEF SendKeyDirectInputState, DirectOutcomes
  <2>4. QED
    BY <1>2, <2>2, <2>3
<1>5. CASE SendKeyPrecompositionState(s)
  <2>1. s.ctx.state = "PRECOMPOSITION"
    BY <1>5 DEF SendKeyPrecompositionState, State
  <2>2. Reaches(session, s) => \A t \in PrecompositionOutcomes(s) : Step(s, t)
    BY <1>3, <2>1 DEF HandlersStep
  <2>3. \E outcomes : Run(outcomes) /\ outcomes \subseteq PrecompositionOutcomes(s)
    BY <1>5 DEF SendKeyPrecompositionState, PrecompositionOutcomes
  <2>4. QED
    BY <1>2, <2>2, <2>3
<1>6. CASE SendKeyCompositionState(s)
  <2>1. s.ctx.state = "COMPOSITION"
    BY <1>6 DEF SendKeyCompositionState, State
  <2>2. Reaches(session, s) => \A t \in CompositionOutcomes(s) : Step(s, t)
    BY <1>3, <2>1 DEF HandlersStep
  <2>3. \E outcomes : Run(outcomes) /\ outcomes \subseteq CompositionOutcomes(s)
    BY <1>6 DEF SendKeyCompositionState, CompositionOutcomes
  <2>4. QED
    BY <1>2, <2>2, <2>3
<1>7. CASE SendKeyConversionState(s)
  <2>1. s.ctx.state = "CONVERSION"
    BY <1>7 DEF SendKeyConversionState, State
  <2>2. Reaches(session, s) => \A t \in ConversionOutcomes(s) : Step(s, t)
    BY <1>3, <2>1 DEF HandlersStep
  <2>3. \E outcomes : Run(outcomes) /\ outcomes \subseteq ConversionOutcomes(s)
    BY <1>7 DEF SendKeyConversionState, ConversionOutcomes
  <2>4. QED
    BY <1>2, <2>2, <2>3
<1>8. QED
  BY <1>1, <1>4, <1>5, <1>6, <1>7

\* SendCommand.
LEMMA SendCommandStep ==
    ASSUME HandlersStep, IInv, SendCommand
    PROVE  Steps /\ Starts(session)
<1>1. PICK outcomes : Run(outcomes) /\ outcomes \subseteq CommandOutcomes(session)
  BY DEF SendCommand, CommandOutcomes
<1>2. Starts(session)
  BY <1>1, RunStarts
<1>3. Reaches(session, session) /\ \A t \in outcomes : Step(session, t)
  BY <1>1, <1>2, ReachesSame DEF HandlersStep
<1>4. QED
  BY <1>1, <1>2, <1>3, RunStep

\* TestSendKey.
LEMMA TestSendKeyStep ==
    ASSUME TestsStep, IInv, TestSendKey, ~TestsOff
    PROVE  Steps /\ Starts(session)
<1>1. PICK state :
          /\ \/ state = session.ctx.state
             \/ session.ctx.state = "DIRECT" /\ state = "PRECOMPOSITION"
          /\ Run(TestSendKeyIn(session, state))
  BY DEF TestSendKey, State
<1> DEFINE outcomes == TestSendKeyIn(session, state)
<1>2. Starts(session) /\ Good(session)
  BY <1>1, RunStarts DEF IInv
<1>3. \A t \in outcomes : Step(session, t)
  BY <1>1, <1>2 DEF TestsStep
<1>4. Run(outcomes) /\ Reaches(session, session)
  BY <1>1, <1>2, ReachesSame
<1> HIDE DEF outcomes
<1>5. QED
  BY <1>2, <1>3, <1>4, RunStep

\* SetRequest.
LEMMA SetRequestStep ==
    ASSUME RequestsKept, IInv, SetRequest
    PROVE  Steps /\ Starts(session)
<1>1. PICK request \in Requests :
          Run({[ClearUndoContext(session) EXCEPT !.ctx.conv.request = request]})
  BY DEF SetRequest
<1> DEFINE outcomes == {[ClearUndoContext(session) EXCEPT !.ctx.conv.request = request]}
<1>2. Starts(session) /\ session.out = NoOutput
  BY <1>1, RunStarts DEF IInv
<1>3. \A t \in outcomes : Kept(session, t)
  BY SMT, <1>2 DEF RequestsKept
<1>4. Run(outcomes)
  BY <1>1
<1> HIDE DEF outcomes
<1>5. QED
  BY <1>2, <1>3, <1>4, RunKept

\* A new session.
LEMMA InitGood ==
    ASSUME Init
    PROVE  IInv
<1>1. PICK state \in {"DIRECT", "PRECOMPOSITION"}, request \in Requests :
          session = [ctx    |-> [state |-> state, comp |-> NoText,
                                 conv |-> SC!NewConverter(request)],
                     undo   |-> {},
                     output |-> FALSE,
                     out    |-> NoOutput]
  BY DEF Init
<1> DEFINE c == SC!NewConverter(request)
<1>2. request \in RequestType
  BY SessionAssumptions DEF RequestType
<1>3. /\ c \in ConverterType /\ c.state = "COMPOSITION" /\ ~c.command /\ WellFormed(c)
  BY SMTT(30), <1>2 DEF SC!NewConverter, ConverterType, WellFormed, Results
<1>4. NoOutput \in OutputType
  BY SMT DEF NoOutput, OutputType, Results
<1>5. NoText \in ComposerType /\ NoText.len = 0 /\ NoText.cursor = 0
  BY SMT, SessionAssumptions DEF NoText, ComposerType
<1> HIDE DEF c
<1>6. /\ session \in SessionType /\ session.ctx.conv = c /\ session.ctx.comp = NoText
      /\ session.ctx.state = state /\ session.undo = {} /\ session.out = NoOutput
      /\ session.ctx \in ContextType
  BY <1>1, <1>3, <1>4, <1>5 DEF SessionType, ContextType, c
<1>7. Fit(session.ctx) /\ Shown(session.ctx)
  BY SMTT(30), <1>3, <1>5, <1>6 DEF Fit, Shown, Covers, Agree
<1>8. QED
  BY <1>3, <1>6, <1>7 DEF IInv, Good, Ready

\* The steps of the session keep IInv.
LEMMA NextSteps ==
    ASSUME Promise, ~TestsOff, IInv, Next
    PROVE  Steps /\ Starts(session)
BY SendKeyStep, SendCommandStep, TestSendKeyStep, SetRequestStep DEF Next, Promise

-----------------------------------------------------------------------------
(***************************************************************************)
(* What IInv says of a session.                                            *)
(***************************************************************************)
\* Every context the session has or can come back to.
LEMMA ContextsFit ==
    ASSUME IInv, NEW ctx \in Contexts
    PROVE  Fit(ctx) /\ Shown(ctx) /\ ctx.comp.len \in Nat /\ ctx.comp.cursor \in Nat
<1>1. Fit(ctx) /\ Shown(ctx)
  BY DEF IInv, Good, Ready, Contexts
<1>2. QED
  BY SMTT(30), <1>1, SessionAssumptions DEF Fit, ContextType, ComposerType

\* The segments of an active converter.
LEMMA ActiveSegments ==
    ASSUME NEW c, WellFormed(c), SC!IsActive(c)
    PROVE  c.index < Len(c.keys) /\ c.indices >= Len(c.keys)
<1>1. Len(c.keys) \in Nat /\ c.indices \in Nat
  BY SMT DEF WellFormed, ConverterType
<1>2. CASE c.state \in {"SUGGESTION", "PREDICTION"}
  <2>1. Len(c.keys) = 1 /\ c.index = 0 /\ c.indices >= 1
    BY <1>2 DEF WellFormed
  <2>2. QED
    BY SMTT(30), <1>1, <2>1
<1>3. CASE c.state = "CONVERSION"
  BY <1>3 DEF WellFormed
<1>4. QED
  BY <1>2, <1>3 DEF SC!IsActive, SC!CheckState

\* The states agree.
LEMMA GoodAgrees ==
    ASSUME IInv
    PROVE  StatesAgree
<1>1. SUFFICES ASSUME NEW ctx \in Contexts
               PROVE  \/ ConvertsNothing(ctx)
                      \/ ctx.conv.state \in
                            CASE ctx.state = "DIRECT" -> {"COMPOSITION"}
                              [] ctx.state = "CONVERSION" -> {"PREDICTION", "CONVERSION"}
                              [] OTHER -> {"COMPOSITION", "SUGGESTION"}
  BY DEF StatesAgree
<1>2. /\ Agree(ctx.state, ctx.comp.len, ctx.conv.state)
      /\ ctx.state \in {"DIRECT", "PRECOMPOSITION", "COMPOSITION", "CONVERSION"}
  BY <1>1, ContextsFit DEF Fit, ContextType
<1>3. QED
  BY <1>2 DEF Agree, ConvertsNothing

\* The segments cover the composition.
LEMMA GoodCovers ==
    ASSUME IInv
    PROVE  SegmentsCover
<1>1. SUFFICES ASSUME NEW ctx \in Contexts
               PROVE  LET c == ctx.conv
                      IN  /\ c.state = "CONVERSION" => SC!Total(c.keys) = ctx.comp.len
                          /\ SC!IsActive(c) =>
                                c.index < Len(c.keys) /\ c.indices >= Len(c.keys)
  BY DEF SegmentsCover
<1>2. WellFormed(ctx.conv) /\ Covers(ctx.conv, ctx.comp.len)
  BY <1>1, ContextsFit DEF Fit
<1>3. QED
  BY <1>2, ActiveSegments DEF Covers

\* What is composed is shown.
LEMMA GoodIsShown ==
    ASSUME IInv
    PROVE  ComposedIsShown
<1>1. SUFFICES ASSUME NEW ctx \in Contexts
               PROVE  /\ ctx.comp.len > 0 => ctx.state \in {"COMPOSITION", "CONVERSION"}
                      /\ ctx.comp.cursor \in 0..ctx.comp.len
  BY DEF ComposedIsShown
<1>2. QED
  BY SMTT(30), <1>1, ContextsFit DEF Fit, Shown, ContextType

\* What a step may do.
LEMMA StepsHold ==
    ASSUME Promise, ~TestsOff, IInv, [Next]_vars
    PROVE  /\ IInv'
           /\ [~ConvertsNothing(session.ctx) => ~session'.ctx.conv.failed]_vars
           /\ [NoPartialResult => session'.ctx.conv.result = <<>>]_vars
           /\ [NoPartialResult /\ session.ctx.comp.field = "NORMAL" => ~lost']_vars
<1>1. CASE Next
  BY <1>1, NextSteps DEF Steps, Starts, Sound, NoPartialResult, Plain, Whole, Request
<1>2. CASE UNCHANGED vars
  BY <1>2 DEF vars, IInv
<1>3. QED
  BY <1>1, <1>2

-----------------------------------------------------------------------------
(***************************************************************************)
(* Switching the input method on and off, and cancelling.                  *)
(***************************************************************************)
\* The converter is reset.
LEMMA LeadsReset ==
    ASSUME NEW s, NEW u, Leads(s, u), Plain(s) => u.ctx.conv.result = <<>>
    PROVE  LET t == [u EXCEPT !.ctx.conv = SC!Reset(@)]
           IN  /\ Leads(s, t) /\ t.ctx.conv.state = "COMPOSITION"
               /\ t.ctx.conv.command = u.ctx.conv.command
               /\ Plain(s) => t.ctx.conv.result = <<>>
               /\ t.ctx.conv.failed = u.ctx.conv.failed
               /\ t.ctx.state = u.ctx.state /\ t.ctx.comp = u.ctx.comp
               /\ t.undo = u.undo /\ t.out = u.out
<1> DEFINE c == SC!Reset(u.ctx.conv)
           t == [u EXCEPT !.ctx.conv = c]
<1>0. WellFormed(u.ctx.conv)
  BY DEF Leads, Formed
<1>1. /\ WellFormed(c) /\ c.state = "COMPOSITION"
      /\ u.ctx.conv.result = <<>> => c.result = <<>>
      /\ c.command = u.ctx.conv.command /\ c.request = u.ctx.conv.request
      /\ c.failed = u.ctx.conv.failed
  BY <1>0, ResetFacts
<1>2. [u EXCEPT !.ctx.conv = SC!Reset(@)] = t
  OBVIOUS
<1> HIDE DEF c
<1>3. /\ Leads(s, t) /\ t.ctx.conv = c
      /\ t.ctx.state = u.ctx.state /\ t.ctx.comp = u.ctx.comp
      /\ t.undo = u.undo /\ t.out = u.out
  BY SMTT(30), <1>1, LeadsConv
<1> HIDE DEF t
<1>4. QED
  BY <1>1, <1>2, <1>3

\* A composition is left, and the converter is not converting.
LEMMA EmptiedStep ==
    ASSUME NEW s, NEW u, Leads(s, u), ~u.ctx.conv.command,
           Plain(s) => u.ctx.conv.result = <<>>,
           NEW state \in {"DIRECT", "PRECOMPOSITION"},
           \/ u.ctx.conv.state = "COMPOSITION"
           \/ u.ctx.conv.state = "SUGGESTION" /\ state = "PRECOMPOSITION",
           u.out.discards \/ u.ctx.comp.len = 0
    PROVE  LET t == SetSessionState(u, state)
           IN  /\ Step(s, t) /\ Step(s, Output(t))
               /\ Leads(s, t) /\ t.ctx.conv = u.ctx.conv /\ t.ctx.state = state
               /\ t.out = u.out
<1> DEFINE t == SetSessionState(u, state)
<1>1. /\ Leads(s, t) /\ t.ctx.conv = u.ctx.conv /\ t.ctx.state = state
      /\ t.ctx.comp.len = 0 /\ t.out = u.out
  BY LeadsEmptied
<1> HIDE DEF t
<1>2. /\ Covers(t.ctx.conv, t.ctx.comp.len) /\ Shown(t.ctx)
      /\ Agree(t.ctx.state, t.ctx.comp.len, t.ctx.conv.state)
  BY <1>1 DEF Covers, Shown, Agree
<1>3. Step(s, t) /\ Step(s, Output(t))
  BY <1>1, <1>2, LeadsEnd, OutputStep
<1>4. QED
  BY <1>1, <1>3 DEF t

\* ResetToDirect.
LEMMA ResetToDirectStep ==
    ASSUME NEW s, NEW u, Leads(s, u), ~u.ctx.conv.command,
           Plain(s) => u.ctx.conv.result = <<>>,
           u.out.discards \/ u.ctx.comp.len = 0
    PROVE  LET t == ResetToDirect(u)
           IN  /\ Step(s, t) /\ Step(s, Output(t))
               /\ Leads(s, t) /\ t.ctx.state = "DIRECT"
<1> DEFINE t == [u EXCEPT !.ctx.conv = SC!Reset(@)]
<1>1. /\ Leads(s, t) /\ t.ctx.conv.state = "COMPOSITION"
      /\ t.ctx.conv.command = u.ctx.conv.command
      /\ Plain(s) => t.ctx.conv.result = <<>>
      /\ t.ctx.comp = u.ctx.comp /\ t.out = u.out
  BY LeadsReset
<1>2. ResetToDirect(u) = SetSessionState(t, "DIRECT")
  BY DEF ResetToDirect
<1> HIDE DEF t
<1>3. QED
  BY SMTT(30), <1>1, <1>2, EmptiedStep

\* IMEOn, of an input method that is off.
LEMMA IMEOnStep ==
    ASSUME NEW s, Good(s), s.ctx.state = "DIRECT", NEW t \in IMEOn(s)
    PROVE  /\ Step(s, t) /\ Leads(s, t) /\ t.ctx.state = "PRECOMPOSITION"
           /\ t.ctx.conv = s.ctx.conv /\ t.out = s.out
<1> DEFINE u == ClearUndoContext(s)
<1>0. /\ Leads(s, s) /\ ~s.ctx.conv.command /\ s.ctx.comp.len = 0
      /\ s.ctx.conv.state = "COMPOSITION" /\ (Plain(s) => s.ctx.conv.result = <<>>)
  BY GoodFacts DEF Shown, Agree
<1>1. Leads(s, u) /\ u.ctx = s.ctx /\ u.out = s.out
  BY <1>0, LeadsClearUndo
<1>2. t = SetSessionState(u, "PRECOMPOSITION")
  BY DEF IMEOn
<1> HIDE DEF u
<1> DEFINE v == SetSessionState(u, "PRECOMPOSITION")
<1>3. /\ Step(s, v) /\ Leads(s, v) /\ v.ctx.conv = u.ctx.conv
      /\ v.ctx.state = "PRECOMPOSITION" /\ v.out = u.out
  BY <1>0, <1>1, EmptiedStep
<1> HIDE DEF v
<1>4. QED
  BY <1>1, <1>2, <1>3 DEF v

\* IMEOff, of an input method that is on.
LEMMA IMEOffStep ==
    ASSUME NEW s, Starts(s), s.ctx.state # "DIRECT", NEW t \in IMEOff(s)
    PROVE  Step(s, t) /\ Leads(s, t) /\ t.ctx.state = "DIRECT"
<1> DEFINE u == ClearUndoContext(s)
<1>0. /\ Committable(s, u) /\ Committable(s, s) /\ Good(s)
      /\ s.ctx.state \in {"DIRECT", "PRECOMPOSITION", "COMPOSITION", "CONVERSION"}
  BY CommittableStart, GoodFacts DEF Starts
<1>1. PICK v \in CommitInternal(u, TRUE) : t = ResetToDirect(v)
  BY DEF IMEOff, Commit
<1>2. u.ctx = s.ctx /\ u.out = s.out
  BY <1>0, LeadsClearUndo DEF Committable
<1> HIDE DEF u
<1>3. /\ Leads(s, v) /\ ~v.ctx.conv.command /\ v.ctx.comp.len = 0
      /\ Plain(s) => v.ctx.conv.result = <<>>
  <2>1. CASE u.ctx.state \in {"COMPOSITION", "CONVERSION"}
    BY <1>0, <1>1, <2>1, CommitStep
  <2>2. CASE u.ctx.state = "PRECOMPOSITION"
    <3> DEFINE w == [u EXCEPT !.ctx.conv = SC!Reset(@)]
    <3>1. v = u \/ v = Output(w)
      BY <1>1, <2>2 DEF CommitInternal, Only, State, DoNothing
    <3>2. /\ Leads(s, u) /\ ~u.ctx.conv.command /\ u.ctx.comp.len = 0
          /\ Plain(s) => u.ctx.conv.result = <<>>
      BY <1>0, <2>2 DEF Committable, Shown
    <3>3. Leads(s, w) /\ w.ctx.comp = u.ctx.comp
      BY <3>2, LeadsReset
    <3> HIDE DEF w
    <3>4. /\ Leads(s, Output(w)) /\ ~Output(w).ctx.conv.command
          /\ Output(w).ctx.conv.result = <<>> /\ Output(w).ctx.comp = w.ctx.comp
      BY <3>3, LeadsOutput
    <3>5. QED
      BY <3>1, <3>2, <3>3, <3>4
  <2>3. QED
    BY <1>0, <1>2, <2>1, <2>2
<1>4. QED
  BY <1>1, <1>3, ResetToDirectStep

\* InputMode.
LEMMA InputModeStep ==
    ASSUME NEW s, Good(s), NEW t \in InputMode(s)
    PROVE  Step(s, t)
<1> DEFINE u == SetSessionState(s, "PRECOMPOSITION")
<1>0. /\ Leads(s, s) /\ ~s.ctx.conv.command /\ Covers(s.ctx.conv, s.ctx.comp.len)
      /\ Agree(s.ctx.state, s.ctx.comp.len, s.ctx.conv.state) /\ Shown(s.ctx)
      /\ Plain(s) => s.ctx.conv.result = <<>>
      /\ Step(s, s)
  BY GoodFacts
<1>1. CASE s.ctx.state = "DIRECT"
  <2>1. s.ctx.conv.state = "COMPOSITION" /\ s.ctx.comp.len = 0
    BY <1>0, <1>1 DEF Agree, Shown
  <2>2. Step(s, u) /\ Step(s, Output(u))
    BY <1>0, <2>1, EmptiedStep
  <2>3. t = u \/ t = Output(u)
    BY <1>1 DEF InputMode, EnsureIMEIsOn, State
  <2> HIDE DEF u
  <2>4. QED
    BY <2>2, <2>3
<1>2. CASE s.ctx.state # "DIRECT"
  <2>1. t = s \/ t = Output(s)
    BY <1>2 DEF InputMode, EnsureIMEIsOn, State
  <2>2. QED
    BY <1>0, <2>1, OutputStep
<1>3. QED
  BY <1>1, <1>2

\* A composition is thrown away.
LEMMA DiscardStep ==
    ASSUME NEW s, NEW u, Leads(s, u), ~u.ctx.conv.command,
           Plain(s) => u.ctx.conv.result = <<>>,
           u.ctx.conv.state \in {"COMPOSITION", "SUGGESTION"}
    PROVE  Step(s, Discards(SetSessionState(u, "PRECOMPOSITION")))
<1> DEFINE v == SetSessionState(u, "PRECOMPOSITION")
           t == Discards(v)
<1>1. /\ Formed(s, v) /\ v.ctx.conv = u.ctx.conv /\ v.ctx.state = "PRECOMPOSITION"
      /\ v.ctx.comp.len = 0
  BY SMT, FormedState DEF Leads
<1> HIDE DEF v
<1>2. /\ t \in SessionType /\ t.ctx = v.ctx /\ t.undo = v.undo /\ t.out.discards
      /\ t.out.config = v.out.config
  BY <1>1 DEF Formed, SessionType, OutputType, Discards
<1> HIDE DEF t
<1>3. Leads(s, t)
  BY <1>1, <1>2 DEF Leads, Formed, Balanced
<1>4. /\ Covers(t.ctx.conv, t.ctx.comp.len) /\ Shown(t.ctx)
      /\ Agree(t.ctx.state, t.ctx.comp.len, t.ctx.conv.state)
  BY <1>1, <1>2 DEF Covers, Shown, Agree
<1>5. Step(s, t)
  BY <1>1, <1>2, <1>3, <1>4, LeadsEnd
<1>6. QED
  BY <1>5 DEF t, v

\* Revert.
LEMMA RevertStep ==
    ASSUME NEW s, Good(s), NEW t \in Revert(s)
    PROVE  Step(s, t)
<1> DEFINE u == ClearUndoContext(s)
           c == SC!Cancel(s.ctx.conv)
           v == [u EXCEPT !.ctx.conv = c]
<1>0. /\ Leads(s, s) /\ ~s.ctx.conv.command /\ WellFormed(s.ctx.conv)
      /\ Agree(s.ctx.state, s.ctx.comp.len, s.ctx.conv.state) /\ Shown(s.ctx)
      /\ Plain(s) => s.ctx.conv.result = <<>>
  BY GoodFacts
<1>1. Leads(s, u) /\ u.ctx = s.ctx
  BY <1>0, LeadsClearUndo
<1>2. \/ s.ctx.state = "PRECOMPOSITION" /\ t \in EchoBackAndClearUndoContext(s)
      \/ s.ctx.state = "COMPOSITION" /\ t = Discards(SetSessionState(u, "PRECOMPOSITION"))
      \/ s.ctx.state = "CONVERSION" /\ t = Discards(SetSessionState(v, "PRECOMPOSITION"))
      \/ t = DoNothing(s)
  <2>1. CASE s.ctx.state = "CONVERSION"
    <3>1. t = Discards(SetSessionState([u EXCEPT !.ctx.conv = SC!Cancel(@)], "PRECOMPOSITION"))
      BY <2>1 DEF Revert, Only, State
    <3>2. [u EXCEPT !.ctx.conv = SC!Cancel(@)] = v
      BY <1>1
    <3>3. QED
      BY <2>1, <3>1, <3>2
  <2>2. CASE s.ctx.state = "COMPOSITION"
    BY <2>2 DEF Revert, Only, State
  <2>3. CASE s.ctx.state \notin {"COMPOSITION", "CONVERSION"}
    BY <2>3 DEF Revert, Only, State
  <2>4. QED
    BY <2>1, <2>2, <2>3
<1> HIDE DEF u
<1>3. CASE s.ctx.state = "PRECOMPOSITION" /\ t \in EchoBackAndClearUndoContext(s)
  BY <1>0, <1>3, EchoBackStep
<1>4. CASE s.ctx.state = "COMPOSITION" /\ t = Discards(SetSessionState(u, "PRECOMPOSITION"))
  BY <1>0, <1>1, <1>4, DiscardStep DEF Agree
<1>5. CASE s.ctx.state = "CONVERSION" /\ t = Discards(SetSessionState(v, "PRECOMPOSITION"))
  <2>1. /\ WellFormed(c) /\ c.state = "COMPOSITION"
        /\ s.ctx.conv.result = <<>> => c.result = <<>>
        /\ c.command = s.ctx.conv.command /\ c.request = s.ctx.conv.request
        /\ SC!IsActive(s.ctx.conv) => c.failed = s.ctx.conv.failed
    BY <1>0, ResetFacts
  <2>2. Sound(s) /\ ~u.ctx.conv.failed => ~c.failed
    <3>1. Sound(s) => SC!IsActive(s.ctx.conv)
      BY <1>0, <1>5 DEF Sound, ConvertsNothing, Agree, SC!IsActive, SC!CheckState
    <3>2. QED
      BY <1>1, <2>1, <3>1
  <2> HIDE DEF c
  <2>3. Leads(s, v) /\ v.ctx.conv = c
    BY SMTT(30), <1>0, <1>1, <2>1, <2>2, LeadsConv
  <2> HIDE DEF v
  <2>4. QED
    BY <1>0, <1>5, <2>1, <2>3, DiscardStep
<1>6. QED
  BY <1>2, <1>3, <1>4, <1>5, DoNothingStep

\* ResetContext.
LEMMA ResetContextStep ==
    ASSUME NEW s, Good(s), NEW t \in ResetContext(s)
    PROVE  Step(s, t)
<1> DEFINE u == [s EXCEPT !.ctx.conv = SC!Reset(@)]
           v == ClearUndoContext(u)
<1>0. /\ Leads(s, s) /\ ~s.ctx.conv.command /\ Shown(s.ctx)
      /\ Plain(s) => s.ctx.conv.result = <<>>
  BY GoodFacts
<1>1. /\ Leads(s, u) /\ u.ctx.conv.state = "COMPOSITION"
      /\ u.ctx.conv.command = s.ctx.conv.command
      /\ Plain(s) => u.ctx.conv.result = <<>>
      /\ u.ctx.state = s.ctx.state /\ u.ctx.comp = s.ctx.comp
  BY <1>0, LeadsReset
<1>2. \/ s.ctx.state = "PRECOMPOSITION" /\ t \in EchoBackAndClearUndoContext(u)
      \/ t = Discards(SetSessionState(v, "PRECOMPOSITION"))
  BY DEF ResetContext, State
<1> HIDE DEF u
<1>3. Leads(s, v) /\ v.ctx = u.ctx
  BY <1>1, LeadsClearUndo
<1> HIDE DEF v
<1>4. CASE s.ctx.state = "PRECOMPOSITION" /\ t \in EchoBackAndClearUndoContext(u)
  <2>1. Shown(u.ctx)
    BY <1>0, <1>1 DEF Shown
  <2>2. QED
    BY <1>0, <1>1, <1>4, <2>1, EchoBackStep
<1>5. CASE t = Discards(SetSessionState(v, "PRECOMPOSITION"))
  BY <1>0, <1>1, <1>3, <1>5, DiscardStep
<1>6. QED
  BY <1>2, <1>4, <1>5

\* TryCancelConvertReverse: what is composed is committed, or is discarded.
LEMMA CancelReverseFacts ==
    ASSUME NEW s, Good(s), NEW o \in TryCancelConvertReverse(s)
    PROVE  /\ Leads(s, o.s) /\ ~o.s.ctx.conv.command
           /\ Plain(s) => o.s.ctx.conv.result = <<>>
           /\ o.s.out.discards \/ o.s.ctx.comp.len = 0
           /\ s.ctx.conv.state \in {"COMPOSITION", "SUGGESTION"} =>
                 o.s.ctx.conv.state \in {"COMPOSITION", "SUGGESTION"}
<1>0. /\ Leads(s, s) /\ ~s.ctx.conv.command /\ s.ctx.comp.len \in Nat
      /\ Plain(s) => s.ctx.conv.result = <<>>
  BY GoodFacts
<1>1. CASE o = [ok |-> FALSE, s |-> Discards(s)]
  <2>1. o.s = Discards(s)
    BY <1>1
  <2>2. LET t == Discards(s)
        IN  Leads(s, t) /\ t.ctx = s.ctx /\ t.out.discards /\ t.undo = s.undo
    BY <1>0, LeadsDiscards
  <2>3. QED
    BY <1>0, <2>1, <2>2
<1>2. ASSUME NEW t \in CommitStringDirectly(s), o = [ok |-> TRUE, s |-> t]
      PROVE  /\ Leads(s, o.s) /\ ~o.s.ctx.conv.command
             /\ Plain(s) => o.s.ctx.conv.result = <<>>
             /\ o.s.out.discards \/ o.s.ctx.comp.len = 0
             /\ s.ctx.conv.state \in {"COMPOSITION", "SUGGESTION"} =>
                   o.s.ctx.conv.state \in {"COMPOSITION", "SUGGESTION"}
  <2>1. o.s = t
    BY <1>2
  <2>2. /\ Leads(s, t)
        /\ s.ctx.comp.len = 0 => t = s
        /\ s.ctx.comp.len > 0 =>
              /\ t.ctx.state = "PRECOMPOSITION" /\ t.ctx.comp.len = 0
              /\ t.ctx.conv.state \in {"COMPOSITION", "SUGGESTION"}
              /\ t.ctx.conv.result = <<>> /\ ~t.ctx.conv.command
    BY <1>0, LeadsCommitString
  <2>3. QED
    BY SMTT(30), <1>0, <2>1, <2>2
<1>3. QED
  BY <1>1, <1>2 DEF TryCancelConvertReverse

\* EditCancel, of a composition that is not converted.
LEMMA EditCancelStep ==
    ASSUME NEW s, Good(s), s.ctx.state \in {"PRECOMPOSITION", "COMPOSITION"},
           NEW t \in EditCancel(s)
    PROVE  Step(s, t)
<1>0. /\ Leads(s, s) /\ ~s.ctx.conv.command /\ Covers(s.ctx.conv, s.ctx.comp.len)
      /\ Agree(s.ctx.state, s.ctx.comp.len, s.ctx.conv.state) /\ Shown(s.ctx)
      /\ Plain(s) => s.ctx.conv.result = <<>>
  BY GoodFacts
<1>1. CASE s.ctx.comp.field = "PASSWORD"
  BY <1>0, <1>1, CommitStringStep DEF EditCancel, CommitIfPassword,
     CommitCompositionDirectly
<1>2. CASE s.ctx.comp.field # "PASSWORD"
  <2>1. PICK o \in TryCancelConvertReverse(s) :
              \/ t = Output(SetSessionState(o.s, "PRECOMPOSITION"))
              \/ t = SetSessionState(o.s, "PRECOMPOSITION")
    BY <1>2 DEF EditCancel, CommitIfPassword
  <2>2. /\ Leads(s, o.s) /\ ~o.s.ctx.conv.command
        /\ Plain(s) => o.s.ctx.conv.result = <<>>
        /\ o.s.out.discards \/ o.s.ctx.comp.len = 0
        /\ s.ctx.conv.state \in {"COMPOSITION", "SUGGESTION"} =>
              o.s.ctx.conv.state \in {"COMPOSITION", "SUGGESTION"}
    BY <2>1, CancelReverseFacts
  <2>3. o.s.ctx.conv.state \in {"COMPOSITION", "SUGGESTION"}
    BY <1>0, <2>2 DEF Agree
  <2>4. /\ Step(s, SetSessionState(o.s, "PRECOMPOSITION"))
        /\ Step(s, Output(SetSessionState(o.s, "PRECOMPOSITION")))
    BY <2>2, <2>3, EmptiedStep
  <2>5. QED
    BY <2>1, <2>4
<1>3. QED
  BY <1>1, <1>2

\* EditCancelAndIMEOff.
LEMMA EditCancelAndIMEOffStep ==
    ASSUME NEW s, Good(s), NEW t \in EditCancelAndIMEOff(s)
    PROVE  Step(s, t)
<1>0. /\ Leads(s, s) /\ ~s.ctx.conv.command /\ Covers(s.ctx.conv, s.ctx.comp.len)
      /\ Agree(s.ctx.state, s.ctx.comp.len, s.ctx.conv.state) /\ Shown(s.ctx)
      /\ Plain(s) => s.ctx.conv.result = <<>>
  BY GoodFacts
<1>1. \/ t \in CommitStringDirectly(s)
      \/ t = DoNothing(s)
      \/ \E o \in TryCancelConvertReverse(s) :
            t = Output(ResetToDirect(ClearUndoContext(o.s)))
  BY DEF EditCancelAndIMEOff, CommitIfPassword, CommitCompositionDirectly, Only
<1>2. ASSUME NEW o \in TryCancelConvertReverse(s),
             t = Output(ResetToDirect(ClearUndoContext(o.s)))
      PROVE  Step(s, t)
  <2> DEFINE u == ClearUndoContext(o.s)
  <2>1. /\ Leads(s, o.s) /\ ~o.s.ctx.conv.command
        /\ Plain(s) => o.s.ctx.conv.result = <<>>
        /\ o.s.out.discards \/ o.s.ctx.comp.len = 0
    BY CancelReverseFacts
  <2>2. Leads(s, u) /\ u.ctx = o.s.ctx /\ u.out = o.s.out
    BY <2>1, LeadsClearUndo
  <2>3. t = Output(ResetToDirect(u))
    BY <1>2
  <2> HIDE DEF u
  <2>4. QED
    BY <2>1, <2>2, <2>3, ResetToDirectStep
<1>3. QED
  BY <1>0, <1>1, <1>2, CommitStringStep, DoNothingStep

-----------------------------------------------------------------------------
(***************************************************************************)
(* Converting.                                                             *)
(***************************************************************************)
\* The converter of a session changes, and its output is popped or it has none.
LEMMA ConvStep ==
    ASSUME NEW s, NEW u, Leads(s, u), Shown(u.ctx),
           Plain(s) => u.ctx.conv.result = <<>>,
           NEW c, WellFormed(c), c.request = u.ctx.conv.request,
           Sound(s) /\ ~u.ctx.conv.failed => ~c.failed,
           c.command = u.ctx.conv.command,
           u.ctx.conv.result = <<>> => c.result = <<>>,
           Covers(c, u.ctx.comp.len), Agree(u.ctx.state, u.ctx.comp.len, c.state)
    PROVE  LET t == [u EXCEPT !.ctx.conv = c]
           IN  Step(s, Output(t)) /\ (~c.command => Step(s, t))
<1> DEFINE t == [u EXCEPT !.ctx.conv = c]
<1>1. /\ Leads(s, t) /\ t.ctx.conv = c
      /\ t.ctx.state = u.ctx.state /\ t.ctx.comp = u.ctx.comp
  BY SMTT(30), LeadsConv
<1> HIDE DEF t
<1>2. Shown(t.ctx)
  BY <1>1 DEF Shown
<1>3. Step(s, Output(t)) /\ (~c.command => Step(s, t))
  BY <1>1, <1>2, OutputStep, LeadsEnd
<1>4. QED
  BY <1>3 DEF t

\* StartConversion.
LEMMA StartConversionStep ==
    ASSUME NEW s, NEW u, Leads(s, u), ~u.ctx.conv.command,
           Plain(s) => u.ctx.conv.result = <<>>,
           NEW outcomes,
           \A o \in outcomes :
              /\ o.ok \in BOOLEAN
              /\ WellFormed(o.c) /\ o.c.request = u.ctx.conv.request
              /\ Sound(s) /\ ~u.ctx.conv.failed => ~o.c.failed
              /\ o.c.command = u.ctx.conv.command
              /\ u.ctx.conv.result = <<>> => o.c.result = <<>>
              /\ o.ok => /\ o.c.state \in {"PREDICTION", "CONVERSION"}
                         /\ Covers(o.c, u.ctx.comp.len)
              /\ ~o.ok => /\ o.c.state = "COMPOSITION" /\ Shown(u.ctx)
                          /\ Agree(u.ctx.state, u.ctx.comp.len, "COMPOSITION"),
           NEW t \in StartConversion(u, outcomes)
    PROVE  Step(s, t)
<1>1. PICK o \in outcomes :
            LET v == [u EXCEPT !.ctx.conv = o.c]
            IN  t = IF o.ok THEN Output(SetSessionState(v, "CONVERSION")) ELSE v
  BY DEF StartConversion
<1> DEFINE c == o.c
           v == [u EXCEPT !.ctx.conv = c]
           w == SetSessionState(v, "CONVERSION")
<1>2. /\ o.ok \in BOOLEAN
      /\ WellFormed(c) /\ c.request = u.ctx.conv.request
      /\ Sound(s) /\ ~u.ctx.conv.failed => ~c.failed
      /\ c.command = u.ctx.conv.command
      /\ u.ctx.conv.result = <<>> => c.result = <<>>
      /\ o.ok => c.state \in {"PREDICTION", "CONVERSION"} /\ Covers(c, u.ctx.comp.len)
      /\ ~o.ok => /\ c.state = "COMPOSITION" /\ Shown(u.ctx)
                  /\ Agree(u.ctx.state, u.ctx.comp.len, c.state)
  BY <1>1
<1>3. t = IF o.ok THEN Output(w) ELSE v
  BY <1>1
<1> HIDE DEF c
<1>4. CASE ~o.ok
  <2>1. t = v /\ ~c.command /\ Covers(c, u.ctx.comp.len)
    BY <1>2, <1>3, <1>4 DEF Covers
  <2>2. Shown(u.ctx) /\ Agree(u.ctx.state, u.ctx.comp.len, c.state)
    BY <1>2, <1>4
  <2>3. Step(s, v)
    BY <1>2, <2>1, <2>2, ConvStep
  <2>4. QED
    BY <2>1, <2>3
<1>5. CASE o.ok
  <2>1. /\ Leads(s, v) /\ v.ctx.conv = c /\ v.ctx.comp = u.ctx.comp
    BY SMTT(30), <1>2, LeadsConv
  <2> HIDE DEF v
  <2>2. /\ Leads(s, w) /\ w.ctx.conv = v.ctx.conv /\ w.ctx.state = "CONVERSION"
        /\ w.ctx.comp = v.ctx.comp
    BY <2>1, LeadsState
  <2> HIDE DEF w
  <2>3. /\ Covers(w.ctx.conv, w.ctx.comp.len) /\ Shown(w.ctx)
        /\ Agree(w.ctx.state, w.ctx.comp.len, w.ctx.conv.state)
    BY <1>2, <1>5, <2>1, <2>2 DEF Shown, Agree
  <2>4. Step(s, Output(w))
    BY <2>2, <2>3, OutputStep
  <2>5. QED
    BY <1>3, <1>5, <2>4
<1>6. QED
  BY <1>2, <1>4, <1>5

\* A composition is converted.
LEMMA ConvertCompositionStep ==
    ASSUME NEW s, NEW u, Leads(s, u), ~u.ctx.conv.command, ~EngineMayFail,
           Plain(s) => u.ctx.conv.result = <<>>,
           u.ctx.conv.state \in {"COMPOSITION", "SUGGESTION"},
           u.ctx.state # "CONVERSION",
           NEW t \in ConvertComposition(u)
    PROVE  Step(s, t)
<1> DEFINE outcomes == SC!ConvertWithPreferences(u.ctx.conv, u.ctx.comp)
<1>0. /\ WellFormed(u.ctx.conv) /\ u.ctx.comp \in ComposerType
      /\ u.ctx.state \in {"DIRECT", "PRECOMPOSITION", "COMPOSITION"}
  BY SessionFacts DEF Leads, Formed
<1>1. ASSUME NEW o \in outcomes
      PROVE  /\ o.ok \in BOOLEAN
             /\ WellFormed(o.c) /\ o.c.request = u.ctx.conv.request
             /\ o.c.failed = u.ctx.conv.failed
             /\ o.c.command = u.ctx.conv.command
             /\ o.c.result = u.ctx.conv.result
             /\ o.ok => o.c.state = "CONVERSION" /\ Covers(o.c, u.ctx.comp.len)
             /\ ~o.ok => o.c.state = "COMPOSITION" /\ u.ctx.comp.len = 0
  BY SMTT(30), <1>0, ConvertFacts
<1>2. t \in StartConversion(u, outcomes)
  BY DEF ConvertComposition
<1> HIDE DEF outcomes
<1>3. Agree(u.ctx.state, u.ctx.comp.len, "COMPOSITION")
  BY <1>0 DEF Agree
<1>4. u.ctx.comp.len = 0 => Shown(u.ctx)
  BY DEF Shown
<1>5. \A o \in outcomes :
         /\ o.ok \in BOOLEAN
         /\ WellFormed(o.c) /\ o.c.request = u.ctx.conv.request
         /\ Sound(s) /\ ~u.ctx.conv.failed => ~o.c.failed
         /\ o.c.command = u.ctx.conv.command
         /\ u.ctx.conv.result = <<>> => o.c.result = <<>>
         /\ o.ok => /\ o.c.state \in {"PREDICTION", "CONVERSION"}
                    /\ Covers(o.c, u.ctx.comp.len)
         /\ ~o.ok => /\ o.c.state = "COMPOSITION" /\ Shown(u.ctx)
                     /\ Agree(u.ctx.state, u.ctx.comp.len, "COMPOSITION")
  BY <1>1, <1>3, <1>4
<1>6. QED
  BY <1>2, <1>5, StartConversionStep

-----------------------------------------------------------------------------
(***************************************************************************)
(* Composing.                                                              *)
(***************************************************************************)
\* InsertCharacterKeyEvent.
LEMMA InsertFacts ==
    ASSUME NEW s, NEW u, Leads(s, u), NEW t \in InsertCharacterKeyEvent(u)
    PROVE  /\ Leads(s, t) /\ t.ctx.conv = u.ctx.conv /\ t.ctx.state = u.ctx.state
           /\ t.ctx.comp.len > 0
           /\ OnePasswordCharacter /\ u.ctx.comp.len = 0 /\ t.ctx.comp.field = "PASSWORD" =>
                 t.ctx.comp.len = 1
           /\ t.undo = u.undo
<1> DEFINE after == u.ctx.comp.len - u.ctx.comp.cursor
<1>0. /\ u.ctx.comp.len \in 0..MaxLen /\ u.ctx.comp.cursor \in 0..MaxLen
      /\ u.ctx.comp.cursor <= u.ctx.comp.len
  BY SessionFacts DEF Leads, Formed
<1>1. PICK n \in {m \in (after + 1)..MaxLen : m <= u.ctx.comp.len + MaxInsert}
                 \cup (IF u.ctx.comp.len > 0 THEN {u.ctx.comp.len} ELSE {}) :
            t = Resized(u, n, n - after)
  BY DEF InsertCharacterKeyEvent
<1>2. MaxLen \in Nat /\ MaxInsert \in Nat
  BY SMTT(30), SessionAssumptions
<1>3. /\ n \in 0..MaxLen /\ n > 0 /\ n - after \in 0..MaxLen /\ n - after <= n
      /\ MaxInsert = 1 /\ u.ctx.comp.len = 0 => n = 1
  <2>1. \/ n \in (after + 1)..MaxLen /\ n <= u.ctx.comp.len + MaxInsert
        \/ u.ctx.comp.len > 0 /\ n = u.ctx.comp.len
    BY <1>1
  <2>2. QED
    BY SMTT(30), <1>0, <1>2, <2>1
<1> DEFINE cursor == n - after
<1> HIDE DEF after
<1>4. t = Resized(u, n, cursor) /\ cursor \in 0..MaxLen /\ cursor <= n
  BY <1>1, <1>3
<1> HIDE DEF cursor
<1>5. /\ Leads(s, t) /\ t.ctx.conv = u.ctx.conv /\ t.ctx.state = u.ctx.state
      /\ t.ctx.comp.len = n /\ t.undo = u.undo
  BY SMTT(20), <1>3, <1>4, LeadsResized
<1>6. t.ctx.comp.field \in Fields \cup {"NORMAL"}
  BY <1>5, SessionFacts DEF Leads, Formed, ComposerType
<1>7. QED
  BY <1>3, <1>5, <1>6 DEF OnePasswordCharacter

\* ClearUndoContext at the end of a handler.
LEMMA ClearUndoStep ==
    ASSUME NEW s, NEW u, Step(s, u)
    PROVE  Step(s, ClearUndoContext(u))
<1> DEFINE t == ClearUndoContext(u)
<1>1. t \in SessionType /\ t.ctx = u.ctx /\ t.out = u.out /\ t.undo = {}
  BY DEF Step, Good, Ready, SessionType, ClearUndoContext
<1> HIDE DEF t
<1>2. Text(t) = Text(u)
  BY <1>1 DEF Text
<1>3. Step(s, t)
  BY <1>1, <1>2 DEF Step, Good, Ready
<1>4. QED
  BY <1>3 DEF t

\* What is inserted is committed as it is.
LEMMA InsertAndCommitStep ==
    ASSUME NEW s, NEW u, Leads(s, u), ~u.ctx.conv.command,
           Plain(s) => u.ctx.conv.result = <<>>,
           NEW v \in InsertCharacterKeyEvent(u), NEW t \in CommitCompositionDirectly(v)
    PROVE  Step(s, t)
<1>1. Leads(s, v) /\ v.ctx.conv = u.ctx.conv /\ v.ctx.comp.len > 0
  BY InsertFacts
<1>2. t \in CommitStringDirectly(v)
  BY DEF CommitCompositionDirectly
<1>3. QED
  BY <1>1, <1>2, CommitStringStep

\* InsertDirectly.
LEMMA InsertDirectlyStep ==
    ASSUME NEW s, NEW u, Leads(s, u), ~u.ctx.conv.command,
           Plain(s) => u.ctx.conv.result = <<>>,
           u.ctx.state # "CONVERSION", Shown(u.ctx),
           NEW t \in InsertDirectly(u)
    PROVE  Step(s, t)
<1>1. CASE t = EchoBack(ClearUndoContext(u))
  <2> DEFINE w == ClearUndoContext(u)
  <2>1. Leads(s, w) /\ w.ctx = u.ctx
    BY LeadsClearUndo
  <2>2. t = EchoBack(w)
    BY <1>1
  <2> HIDE DEF w
  <2>3. QED
    BY <2>1, <2>2, LeadsEchoBack
<1>2. CASE \E v \in InsertCharacterKeyEvent(u) : \E w \in CommitCompositionDirectly(v) :
              t = ClearUndoContext(w)
  <2>0. PICK v \in InsertCharacterKeyEvent(u) :
              \E w \in CommitCompositionDirectly(v) : t = ClearUndoContext(w)
    BY <1>2
  <2>1. PICK w \in CommitCompositionDirectly(v) : t = ClearUndoContext(w)
    BY <2>0
  <2>2. Step(s, w)
    BY <2>1, InsertAndCommitStep
  <2>3. QED
    BY <2>1, <2>2, ClearUndoStep
<1>3. QED
  BY <1>1, <1>2 DEF InsertDirectly

\* Compose: of a composition in a state that may not be set yet.
LEMMA ComposeStep ==
    ASSUME NEW s, NEW u, Leads(s, u), ~u.ctx.conv.command, ~EngineMayFail,
           Plain(s) => u.ctx.conv.result = <<>>,
           u.ctx.state \in {"PRECOMPOSITION", "COMPOSITION"},
           u.ctx.conv.state \in {"COMPOSITION", "SUGGESTION"},
           u.ctx.comp.len > 0,
           u.ctx.state = "PRECOMPOSITION" /\ u.ctx.comp.field = "PASSWORD" =>
               u.ctx.comp.len = 1,
           NEW t \in Compose(u)
    PROVE  Step(s, t)
<1> DEFINE v == SetSessionState(u, "COMPOSITION")
           comp == u.ctx.comp
           n == IF comp.field = "PASSWORD" THEN comp.len - 1 ELSE comp.len
<1>0. comp.len \in Nat /\ comp.field = s.ctx.comp.field
  BY SessionFacts DEF Leads, Formed
<1>1. \/ t \in CommitStringDirectly(u)
      \/ ShouldCommitHead(comp) /\ t \in CommitHead(u, n)
      \/ t \in SuggestAndOutput(v)
      \/ t \in ConvertComposition(v)
  BY DEF Compose, CommitCompositionDirectly
<1>2. Leads(s, v) /\ v.ctx.conv = u.ctx.conv /\ v.ctx.state = "COMPOSITION"
  BY LeadsState
<1> HIDE DEF v
<1>3. CASE t \in CommitStringDirectly(u)
  BY <1>3, CommitStringStep
<1>4. CASE ShouldCommitHead(comp) /\ t \in CommitHead(u, n)
  <2>1. /\ comp.field # "NORMAL"
        /\ comp.field = "PASSWORD" => comp.len > 1
    BY <1>4 DEF ShouldCommitHead
  <2>2. u.ctx.state = "PRECOMPOSITION" => n = comp.len
    BY SMTT(30), <2>1
  <2>3. n \in 0..comp.len
    BY SMTT(30), <1>0
  <2> HIDE DEF n
  <2>4. QED
    BY <1>0, <1>4, <2>1, <2>2, <2>3, CommitHeadStep
<1>5. CASE t \in SuggestAndOutput(v)
  BY <1>2, <1>5, SuggestStep
<1>6. CASE t \in ConvertComposition(v)
  BY <1>2, <1>6, ConvertCompositionStep
<1>7. QED
  BY <1>1, <1>3, <1>4, <1>5, <1>6

\* InsertAndCompose.
LEMMA InsertAndComposeStep ==
    ASSUME NEW s, NEW u, Leads(s, u), ~u.ctx.conv.command, ~EngineMayFail,
           OnePasswordCharacter,
           Plain(s) => u.ctx.conv.result = <<>>,
           u.ctx.state \in {"PRECOMPOSITION", "COMPOSITION"},
           u.ctx.conv.state \in {"COMPOSITION", "SUGGESTION"},
           u.ctx.state = "PRECOMPOSITION" => u.ctx.comp.len = 0,
           NEW t \in InsertAndCompose(u)
    PROVE  Step(s, t)
<1>1. PICK v \in InsertCharacterKeyEvent(u) : t \in Compose(v)
  BY DEF InsertAndCompose
<1>2. /\ Leads(s, v) /\ v.ctx.conv = u.ctx.conv /\ v.ctx.state = u.ctx.state
      /\ v.ctx.comp.len > 0
      /\ u.ctx.comp.len = 0 /\ v.ctx.comp.field = "PASSWORD" => v.ctx.comp.len = 1
  BY InsertFacts
<1>3. QED
  BY <1>1, <1>2, ComposeStep

\* A handler of CONVERSION gives the session another converter.  Its methods
\* fail their DCHECK when a prediction of nothing was canceled before.
LEMMA InConversionStep ==
    ASSUME NEW s, Good(s), s.ctx.state = "CONVERSION", NEW c,
           s.ctx.conv.state \in {"PREDICTION", "CONVERSION"} =>
              /\ WellFormed(c) /\ c.state \in {"PREDICTION", "CONVERSION"}
              /\ c.request = s.ctx.conv.request /\ c.command = s.ctx.conv.command
              /\ c.failed = s.ctx.conv.failed
              /\ s.ctx.conv.result = <<>> => c.result = <<>>
              /\ Covers(c, s.ctx.comp.len),
           s.ctx.conv.state = "COMPOSITION" => c = SC!Failed(s.ctx.conv)
    PROVE  Step(s, Output([s EXCEPT !.ctx.conv = c]))
<1>0. /\ Leads(s, s) /\ WellFormed(s.ctx.conv) /\ Shown(s.ctx)
      /\ Agree(s.ctx.state, s.ctx.comp.len, s.ctx.conv.state)
      /\ Plain(s) => s.ctx.conv.result = <<>>
  BY GoodFacts
<1>1. CASE s.ctx.conv.state \in {"PREDICTION", "CONVERSION"}
  <2>1. Agree(s.ctx.state, s.ctx.comp.len, c.state)
    BY <1>1 DEF Agree
  <2>2. QED
    BY <1>0, <1>1, <2>1, ConvStep
<1>2. CASE s.ctx.conv.state = "COMPOSITION" /\ s.ctx.comp.len = 0
  <2>1. /\ WellFormed(c) /\ c.state = "COMPOSITION" /\ c.request = s.ctx.conv.request
        /\ c.command = s.ctx.conv.command /\ c.result = s.ctx.conv.result
    BY SMTT(30), <1>0, <1>2, FailedFacts
  <2>2. ~Sound(s)
    BY <1>2 DEF Sound, ConvertsNothing
  <2>3. Agree(s.ctx.state, s.ctx.comp.len, c.state) /\ Covers(c, s.ctx.comp.len)
    BY <1>2, <2>1 DEF Agree, Covers
  <2>4. QED
    BY <1>0, <2>1, <2>2, <2>3, ConvStep
<1>3. QED
  BY <1>0, <1>1, <1>2 DEF Agree

\* Another candidate: MaybeSelectCandidate, ConvertNext and ConvertMove.
LEMMA ConvertNextStep ==
    ASSUME NEW s, Good(s), s.ctx.state = "CONVERSION",
           NEW c \in SC!CandidateNext(s.ctx.conv, s.ctx.comp)
                     \cup {SC!CandidateMove(s.ctx.conv)}
    PROVE  Step(s, Output([s EXCEPT !.ctx.conv = c]))
<1> DEFINE b == s.ctx.conv
<1>0. WellFormed(b) /\ s.ctx.comp \in ComposerType /\ Covers(b, s.ctx.comp.len)
  BY GoodFacts
<1>1. ASSUME b.state \in {"PREDICTION", "CONVERSION"}
      PROVE  /\ WellFormed(c) /\ c.state \in {"PREDICTION", "CONVERSION"}
             /\ c.request = b.request /\ c.command = b.command /\ c.failed = b.failed
             /\ b.result = <<>> => c.result = <<>>
             /\ Covers(c, s.ctx.comp.len)
  <2>1. SC!IsActive(b)
    BY <1>1 DEF SC!IsActive, SC!CheckState
  <2>2. b.state # "SUGGESTION"
    BY <1>1
  <2> HIDE DEF b
  <2>3. QED
    BY SMTT(20), <1>0, <1>1, <2>1, <2>2, CandidateFacts DEF b
<1>2. b.state = "COMPOSITION" => c = SC!Failed(b)
  BY DEF SC!CandidateNext, SC!CandidateMove, SC!CheckState
<1>3. QED
  BY <1>1, <1>2, InConversionStep

\* ConvertNext and ConvertMove.
LEMMA ConvertMoveStep ==
    ASSUME NEW s, Good(s),
           NEW t, \/ t \in ConvertMove(s)
                  \/ s.ctx.state = "CONVERSION" /\ t \in ConvertNext(s)
    PROVE  Step(s, t)
<1>1. CASE s.ctx.state = "CONVERSION"
  <2>1. PICK c \in SC!CandidateNext(s.ctx.conv, s.ctx.comp)
                   \cup {SC!CandidateMove(s.ctx.conv)} :
              t = Output([s EXCEPT !.ctx.conv = c])
    BY <1>1 DEF ConvertMove, ConvertNext, InConversion, Only, State, Converted
  <2>2. QED
    BY <1>1, <2>1, ConvertNextStep
<1>2. CASE s.ctx.state # "CONVERSION"
  BY <1>2, DoNothingStep DEF ConvertMove, InConversion, Only, State
<1>3. QED
  BY <1>1, <1>2

\* SegmentFocus.
LEMMA SegmentFocusStep ==
    ASSUME NEW s, Good(s), s.ctx.state = "CONVERSION", NEW t \in SegmentFocus(s)
    PROVE  Step(s, t)
<1> DEFINE b == s.ctx.conv
<1>0. WellFormed(b) /\ Covers(b, s.ctx.comp.len)
  BY GoodFacts
<1>1. PICK c \in {SC!SegmentFocusRight(b), SC!SegmentFocusLeft(b),
                  SC!SegmentFocusLast(b), SC!SegmentFocusLeftEdge(b)} :
            t = Output([s EXCEPT !.ctx.conv = c])
  BY DEF SegmentFocus, InConversion, Only, State, Converted
<1>2. b.state \in {"PREDICTION", "CONVERSION"} =>
         /\ WellFormed(c) /\ c.state = b.state /\ c.keys = b.keys
         /\ c.command = b.command /\ c.request = b.request /\ c.failed = b.failed
         /\ b.result = <<>> => c.result = <<>>
  <2> HIDE DEF b
  <2> QED
    BY <1>0, <1>1, FocusFacts
<1>3. b.state = "COMPOSITION" => c = SC!Failed(b)
  BY <1>1 DEF SC!SegmentFocusRight, SC!SegmentFocusLeft, SC!SegmentFocusLast,
              SC!SegmentFocusLeftEdge, SC!SegmentFocusInternal, SC!CheckState
<1>4. b.state \in {"PREDICTION", "CONVERSION"} => Covers(c, s.ctx.comp.len)
  BY <1>0, <1>2 DEF Covers
<1>5. QED
  BY <1>1, <1>2, <1>3, <1>4, InConversionStep

\* SegmentWidthExpand and SegmentWidthShrink.
LEMMA SegmentWidthStep ==
    ASSUME NEW s, Good(s), s.ctx.state = "CONVERSION",
           NEW t \in SegmentWidthExpand(s) \cup SegmentWidthShrink(s)
    PROVE  Step(s, t)
<1> DEFINE b == s.ctx.conv
<1>0. WellFormed(b) /\ Covers(b, s.ctx.comp.len) /\ s.ctx.comp.len \in 0..MaxLen
  BY GoodFacts, SessionFacts
<1>1. PICK delta \in {1, -1} : \E c \in SC!ResizeSegmentWidth(b, delta) :
            t = Output([s EXCEPT !.ctx.conv = c])
  BY DEF SegmentWidthExpand, SegmentWidthShrink, InConversion, Only, State, Converted
<1>2. PICK c \in SC!ResizeSegmentWidth(b, delta) : t = Output([s EXCEPT !.ctx.conv = c])
  BY <1>1
<1>3. b.state \in {"PREDICTION", "CONVERSION"} =>
         /\ WellFormed(c) /\ c.state = b.state /\ Covers(c, s.ctx.comp.len)
         /\ c.command = b.command /\ c.request = b.request /\ c.failed = b.failed
         /\ b.result = <<>> => c.result = <<>>
  <2> DEFINE len == s.ctx.comp.len
  <2>1. len \in 0..MaxLen /\ Covers(b, len)
    BY <1>0
  <2> HIDE DEF b, len
  <2>2. b.state \in {"PREDICTION", "CONVERSION"} =>
         /\ WellFormed(c) /\ c.state = b.state /\ Covers(c, len)
         /\ c.command = b.command /\ c.request = b.request /\ c.failed = b.failed
         /\ b.result = <<>> => c.result = <<>>
    <3> SUFFICES ASSUME b.state \in {"PREDICTION", "CONVERSION"}
                 PROVE  /\ WellFormed(c) /\ c.state = b.state /\ Covers(c, len)
                        /\ c.command = b.command /\ c.request = b.request
                        /\ c.failed = b.failed
                        /\ b.result = <<>> => c.result = <<>>
      OBVIOUS
    <3>1. WellFormed(b) /\ c \in SC!ResizeSegmentWidth(b, delta)
      BY <1>0, <1>2
    <3>2. QED
      BY <2>1, <3>1, ResizeFacts
  <2>3. QED
    BY <2>2 DEF len
<1>4. b.state = "COMPOSITION" => c = SC!Failed(b)
  BY <1>2 DEF SC!ResizeSegmentWidth, SC!CheckState
<1>5. QED
  BY <1>2, <1>3, <1>4, InConversionStep

-----------------------------------------------------------------------------
(***************************************************************************)
(* The handlers of a composition.                                          *)
(***************************************************************************)
\* CommitAndInsert.
LEMMA CommitAndInsertStep ==
    ASSUME NEW s, Starts(s), s.ctx.state \in {"COMPOSITION", "CONVERSION"},
           ~EngineMayFail, OnePasswordCharacter, NEW t \in CommitAndInsert(s)
    PROVE  Step(s, t)
<1> DEFINE Direct(u) == UNION {CommitCompositionDirectly(v) :
                                 v \in InsertCharacterKeyEvent(ClearUndoContext(u))}
<1>0. PICK u \in CommitInternal(s, FALSE) : t \in InsertAndCompose(u) \cup Direct(u)
  <2>1. t \in UNION {InsertAndCompose(u) \cup Direct(u) : u \in CommitInternal(s, FALSE)}
    BY DEF CommitAndInsert, CommitNotTriggeringZeroQuerySuggest
  <2> HIDE DEF Direct
  <2>2. QED
    BY <2>1
<1>1. \/ t \in InsertAndCompose(u)
      \/ \E v \in InsertCharacterKeyEvent(ClearUndoContext(u)) :
            t \in CommitCompositionDirectly(v)
  BY <1>0
<1> HIDE DEF Direct
<1>2. Committable(s, s)
  BY CommittableStart DEF Starts
<1>3. /\ Leads(s, u) /\ u.ctx.state = "PRECOMPOSITION" /\ u.ctx.comp.len = 0
      /\ u.ctx.conv.state \in {"COMPOSITION", "SUGGESTION"}
      /\ u.ctx.conv.result = <<>> /\ ~u.ctx.conv.command
  BY <1>0, <1>2, CommitStep
<1> DEFINE w == ClearUndoContext(u)
<1>4. Leads(s, w) /\ w.ctx = u.ctx
  BY <1>3, LeadsClearUndo
<1>5. CASE t \in InsertAndCompose(u)
  BY <1>3, <1>5, InsertAndComposeStep
<1>6. CASE \E v \in InsertCharacterKeyEvent(w) : t \in CommitCompositionDirectly(v)
  <2> HIDE DEF w
  <2> QED
    BY <1>3, <1>4, <1>6, InsertAndCommitStep
<1>7. QED
  BY <1>1, <1>5, <1>6

\* InsertCharacter.
LEMMA InsertCharacterStep ==
    ASSUME NEW s, Starts(s), s.ctx.state # "DIRECT",
           ~EngineMayFail, OnePasswordCharacter, NEW t \in InsertCharacter(s)
    PROVE  Step(s, t)
<1>0. /\ Good(s) /\ Leads(s, s) /\ ~s.ctx.conv.command /\ Shown(s.ctx)
      /\ s.ctx.state \in {"DIRECT", "PRECOMPOSITION", "COMPOSITION", "CONVERSION"}
      /\ Agree(s.ctx.state, s.ctx.comp.len, s.ctx.conv.state)
      /\ Plain(s) => s.ctx.conv.result = <<>>
  BY GoodFacts DEF Starts
<1>1. CASE t \in InsertDirectly(s) /\ s.ctx.state = "PRECOMPOSITION"
  BY <1>0, <1>1, InsertDirectlyStep
<1>2. CASE t \in InsertAndCompose(s) /\ s.ctx.state \in {"PRECOMPOSITION", "COMPOSITION"}
  BY <1>0, <1>2, InsertAndComposeStep DEF Agree, Shown
<1>3. CASE t \in CommitAndInsert(s) /\ s.ctx.state \in {"COMPOSITION", "CONVERSION"}
  BY <1>3, CommitAndInsertStep
<1>4. CASE t \in MaybeSelectCandidate(s) /\ s.ctx.state = "CONVERSION"
  <2>1. t = Output([s EXCEPT !.ctx.conv = SC!CandidateMove(s.ctx.conv)])
    BY <1>4 DEF MaybeSelectCandidate
  <2>2. QED
    BY <1>0, <1>4, <2>1, ConvertNextStep
<1>5. QED
  BY <1>0, <1>1, <1>2, <1>3, <1>4 DEF InsertCharacter, State

\* InsertSpace.
LEMMA InsertSpaceStep ==
    ASSUME NEW s, Starts(s), s.ctx.state # "DIRECT",
           ~EngineMayFail, OnePasswordCharacter, NEW t \in InsertSpace(s)
    PROVE  Step(s, t)
<1> DEFINE u == [s EXCEPT !.ctx.conv = SC!Reset(@)]
<1>0. /\ Leads(s, s) /\ ~s.ctx.conv.command /\ Shown(s.ctx)
      /\ Plain(s) => s.ctx.conv.result = <<>>
  BY GoodFacts DEF Starts
<1>1. CASE s.ctx.state = "PRECOMPOSITION"
  <2>1. \/ t \in EchoBackAndClearUndoContext(s) \/ t \in InsertDirectly(s)
        \/ t \in InsertDirectly(u)
    BY <1>1 DEF InsertSpace, State
  <2>2. /\ Leads(s, u) /\ u.ctx.conv.command = s.ctx.conv.command
        /\ Plain(s) => u.ctx.conv.result = <<>>
        /\ u.ctx.state = s.ctx.state /\ u.ctx.comp = s.ctx.comp
    BY <1>0, LeadsReset
  <2> HIDE DEF u
  <2>3. Shown(u.ctx)
    BY <1>0, <2>2 DEF Shown
  <2>4. CASE t \in EchoBackAndClearUndoContext(s)
    BY <1>0, <1>1, <2>4, EchoBackStep
  <2>5. CASE t \in InsertDirectly(s)
    BY <1>0, <1>1, <2>5, InsertDirectlyStep
  <2>6. CASE t \in InsertDirectly(u)
    BY <1>0, <1>1, <2>2, <2>3, <2>6, InsertDirectlyStep
  <2>7. QED
    BY <2>1, <2>4, <2>5, <2>6
<1>2. CASE s.ctx.state # "PRECOMPOSITION"
  BY <1>2, InsertCharacterStep DEF InsertSpace, State
<1>3. QED
  BY <1>1, <1>2

\* A character before or after the cursor is deleted.
LEMMA DeletedFacts ==
    ASSUME NEW s, Good(s), NEW t \in {Backspaced(s), Deleted(s)}
    PROVE  /\ Leads(s, t) /\ t.ctx.conv = s.ctx.conv /\ t.ctx.state = s.ctx.state
<1> DEFINE comp == s.ctx.comp
<1>0. Leads(s, s)
  BY GoodFacts
<1>1. /\ comp.len \in 0..MaxLen /\ comp.cursor \in 0..MaxLen
      /\ comp.cursor <= comp.len /\ MaxLen \in Nat
  BY GoodFacts, SessionFacts, SessionAssumptions
<1>2. ASSUME NEW len \in 0..MaxLen, NEW cursor \in 0..MaxLen, cursor <= len,
             t = Resized(s, len, cursor)
      PROVE  Leads(s, t) /\ t.ctx.conv = s.ctx.conv /\ t.ctx.state = s.ctx.state
  BY SMTT(20), <1>0, <1>2, LeadsResized
<1>3. CASE t = s
  BY <1>0, <1>3
<1>4. CASE t = Resized(s, comp.len - 1, comp.cursor - 1) /\ comp.cursor # 0
  <2>1. /\ comp.len - 1 \in 0..MaxLen /\ comp.cursor - 1 \in 0..MaxLen
        /\ comp.cursor - 1 <= comp.len - 1
    BY SMTT(30), <1>1, <1>4
  <2>2. QED
    BY <1>2, <1>4, <2>1
<1>5. CASE t = Resized(s, comp.len - 1, comp.cursor) /\ comp.cursor # comp.len
  <2>1. /\ comp.len - 1 \in 0..MaxLen /\ comp.cursor <= comp.len - 1
    BY SMTT(30), <1>1, <1>5
  <2>2. QED
    BY <1>1, <1>2, <1>5, <2>1
<1>6. QED
  BY <1>3, <1>4, <1>5 DEF Backspaced, Deleted

\* Delete and Backspace.
LEMMA DeleteStep ==
    ASSUME NEW s, Good(s), s.ctx.state = "COMPOSITION",
           NEW t \in Delete(s) \cup Backspace(s)
    PROVE  Step(s, t)
<1>0. /\ ~s.ctx.conv.command /\ (Plain(s) => s.ctx.conv.result = <<>>)
      /\ s.ctx.conv.state \in {"COMPOSITION", "SUGGESTION"}
  BY GoodFacts DEF Agree
<1>1. PICK u \in {Backspaced(s), Deleted(s)} : t \in AfterDeletion(u)
  BY DEF Delete, Backspace
<1>2. Leads(s, u) /\ u.ctx.conv = s.ctx.conv /\ u.ctx.state = s.ctx.state
  BY <1>1, DeletedFacts
<1>3. CASE u.ctx.comp.len = 0
  <2>1. t = SetSessionState(u, "PRECOMPOSITION")
    BY <1>1, <1>3 DEF AfterDeletion
  <2>2. QED
    BY <1>0, <1>2, <1>3, <2>1, EmptiedStep
<1>4. CASE u.ctx.comp.len # 0
  <2>1. t \in SuggestAndOutput(u)
    BY <1>1, <1>4 DEF AfterDeletion
  <2>2. QED
    BY <1>0, <1>2, <2>1, SuggestStep
<1>5. QED
  BY <1>3, <1>4

\* Commit and CommitNotTriggeringZeroQuerySuggest, in any state.
LEMMA CommitHandlerStep ==
    ASSUME NEW s, Starts(s), NEW trigger \in BOOLEAN, NEW t \in CommitInternal(s, trigger)
    PROVE  Step(s, t)
<1>0. Committable(s, s) /\ Good(s)
  BY CommittableStart DEF Starts
<1>1. CASE s.ctx.state \in {"COMPOSITION", "CONVERSION"}
  BY <1>0, <1>1, CommitStep
<1>2. CASE s.ctx.state \notin {"COMPOSITION", "CONVERSION"}
  BY <1>0, <1>2, DoNothingStep DEF CommitInternal, Only, State
<1>3. QED
  BY <1>1, <1>2

\* CommitRawText.
LEMMA CommitRawTextStep ==
    ASSUME NEW s, Good(s), NEW t \in CommitRawText(s)
    PROVE  Step(s, t)
BY GoodFacts, CommitStringStep DEF CommitRawText

\* The handlers that move the cursor, and the commands that change the last
\* character.
LEMMA CursorStep ==
    ASSUME NEW s, Starts(s), s.ctx.state = "COMPOSITION",
           NEW t \in MoveCursorToEnd(s) \cup MoveCursorToBeginning(s) \cup MoveCursorLeft(s)
                     \cup MoveCursorRight(s) \cup MoveCursorTo(s)
                     \cup SendComposerCommand(s)
    PROVE  Step(s, t)
<1> DEFINE comp == s.ctx.comp
<1>0. /\ Leads(s, s) /\ ~s.ctx.conv.command /\ (Plain(s) => s.ctx.conv.result = <<>>)
      /\ s.ctx.conv.state \in {"COMPOSITION", "SUGGESTION"}
      /\ comp.len \in Nat /\ comp.cursor \in Nat /\ comp.cursor <= comp.len
  BY GoodFacts DEF Agree, Starts
<1>1. \/ \E trigger \in BOOLEAN : t \in CommitInternal(s, trigger)
      \/ t \in SuggestAndOutput(s)
      \/ \E cursor \in 0..comp.len : t \in MoveCursor(s, cursor)
  <2> DEFINE right == IF comp.cursor = comp.len THEN comp.len ELSE comp.cursor + 1
             left == IF comp.cursor = 0 THEN 0 ELSE comp.cursor - 1
  <2>1. 0 \in 0..comp.len /\ comp.len \in 0..comp.len /\ right \in 0..comp.len
        /\ left \in 0..comp.len
    BY SMTT(30), <1>0
  <2>2. \/ t \in CommitInternal(s, TRUE) \/ t \in CommitInternal(s, FALSE)
        \/ t \in SuggestAndOutput(s)
        \/ t \in MoveCursor(s, comp.len) \/ t \in MoveCursor(s, 0)
        \/ t \in MoveCursor(s, right) \/ t \in MoveCursor(s, left)
        \/ \E cursor \in 0..comp.len : t \in MoveCursor(s, cursor)
    BY DEF MoveCursorToEnd, MoveCursorToBeginning, MoveCursorLeft, MoveCursorRight,
           MoveCursorTo, SendComposerCommand, Only, State, Commit,
           CommitNotTriggeringZeroQuerySuggest
  <2> HIDE DEF left, right, comp
  <2>3. QED
    BY <2>1, <2>2
<1>2. ASSUME NEW cursor \in 0..comp.len, t \in MoveCursor(s, cursor)
      PROVE  Step(s, t)
  BY <1>0, <1>2, MoveCursorStep
<1>3. CASE t \in SuggestAndOutput(s)
  BY <1>0, <1>3, SuggestStep
<1>4. QED
  BY <1>1, <1>2, <1>3, CommitHandlerStep

\* MoveCursorTo and StopKeyToggling, in any state.
LEMMA CursorCommandStep ==
    ASSUME NEW s, Starts(s), NEW t \in MoveCursorTo(s) \cup StopKeyToggling(s)
    PROVE  Step(s, t)
<1>1. CASE s.ctx.state = "COMPOSITION"
  BY <1>1, CursorStep DEF StopKeyToggling, Only, State
<1>2. CASE s.ctx.state # "COMPOSITION"
  BY <1>2, DoNothingStep DEF MoveCursorTo, StopKeyToggling, Only, State, Starts
<1>3. QED
  BY <1>1, <1>2

\* A space has been added to a composition that is then committed.
LEMMA CommittableSpaced ==
    ASSUME NEW s, Starts(s), s.ctx.state = "COMPOSITION", s.ctx.comp.len # MaxLen
    PROVE  Committable(s, Resized(s, s.ctx.comp.len + 1, s.ctx.comp.cursor + 1))
<1> DEFINE len == s.ctx.comp.len + 1
           cursor == s.ctx.comp.cursor + 1
           u == Resized(s, len, cursor)
<1>0. /\ Leads(s, s) /\ ~s.ctx.conv.command /\ (Plain(s) => s.ctx.conv.result = <<>>)
      /\ s.ctx.conv.state \in {"COMPOSITION", "SUGGESTION"}
      /\ s.ctx.comp.cursor <= s.ctx.comp.len /\ s \in SessionType
  BY GoodFacts DEF Agree, Starts
<1>1. s.ctx.comp.len \in 0..MaxLen /\ s.ctx.comp.cursor \in 0..MaxLen /\ MaxLen \in Nat
  BY <1>0, SessionFacts, SessionAssumptions
<1>2. len \in 0..MaxLen /\ cursor \in 0..MaxLen /\ cursor <= len
  <2> DEFINE n == s.ctx.comp.len
             m == s.ctx.comp.cursor
  <2>1. n \in 0..MaxLen /\ m \in 0..MaxLen /\ MaxLen \in Nat /\ m <= n /\ n # MaxLen
    BY <1>0, <1>1
  <2>2. len = n + 1 /\ cursor = m + 1
    OBVIOUS
  <2> HIDE DEF n, m, len, cursor
  <2>3. QED
    BY SMTT(30), <2>1, <2>2
<1> HIDE DEF len, cursor
<1>3. /\ Leads(s, u) /\ u.ctx.conv = s.ctx.conv /\ u.ctx.state = s.ctx.state
      /\ u.ctx.comp.len = len /\ u.out.result = s.out.result
  BY SMTT(30), <1>0, <1>2, LeadsResized
<1> HIDE DEF u
<1>4. u.ctx \in ContextType /\ WellFormed(u.ctx.conv) /\ u.ctx.comp.cursor <= u.ctx.comp.len
  BY <1>3, SessionFacts DEF Leads, Formed
<1>5. /\ Covers(u.ctx.conv, u.ctx.comp.len) /\ Shown(u.ctx)
      /\ Agree(u.ctx.state, u.ctx.comp.len, u.ctx.conv.state)
  BY <1>0, <1>3 DEF Covers, Shown, Agree
<1>6. ~ConvertsNothing(u.ctx)
  BY <1>3 DEF ConvertsNothing
<1>7. Committable(s, u)
  BY <1>0, <1>3, <1>4, <1>5, <1>6 DEF Committable, Fit, Starts
<1>8. QED
  BY <1>7 DEF u, len, cursor

\* Convert and ConvertWithoutHistory.
LEMMA ConvertStep ==
    ASSUME NEW s, Starts(s), s.ctx.state = "COMPOSITION",
           ~EngineMayFail, OnePasswordCharacter,
           NEW t \in Convert(s) \cup ConvertWithoutHistory(s)
    PROVE  Step(s, t)
<1> DEFINE comp == s.ctx.comp
           u == Resized(s, comp.len + 1, comp.cursor + 1)
<1>0. /\ Good(s) /\ Leads(s, s) /\ ~s.ctx.conv.command
      /\ (Plain(s) => s.ctx.conv.result = <<>>)
      /\ s.ctx.conv.state \in {"COMPOSITION", "SUGGESTION"}
  BY GoodFacts DEF Agree, Starts
<1>1. \/ t \in ConvertComposition(s) \/ t \in ConvertComposition(Backspaced(s))
      \/ t \in CommitInternal(s, TRUE)
      \/ comp.len # MaxLen /\ t \in CommitInternal(u, TRUE)
      \/ t \in InsertCharacter(s)
  BY DEF Convert, ConvertWithoutHistory, Commit
<1>2. CASE t \in ConvertComposition(s)
  BY <1>0, <1>2, ConvertCompositionStep
<1>3. CASE t \in ConvertComposition(Backspaced(s))
  <2> DEFINE v == Backspaced(s)
  <2>1. Leads(s, v) /\ v.ctx.conv = s.ctx.conv /\ v.ctx.state = s.ctx.state
    BY <1>0, DeletedFacts
  <2>2. t \in ConvertComposition(v)
    BY <1>3
  <2> HIDE DEF v
  <2>3. QED
    BY <1>0, <2>1, <2>2, ConvertCompositionStep
<1>4. CASE comp.len # MaxLen /\ t \in CommitInternal(u, TRUE)
  <2>1. Committable(s, u)
    BY <1>4, CommittableSpaced
  <2>2. u.ctx.state = "COMPOSITION"
    <3>1. s \in SessionType /\ comp.len \in Nat /\ comp.cursor \in Nat
      BY <1>0, GoodFacts
    <3>2. u.ctx.state = s.ctx.state
      BY <3>1 DEF Resized, SessionType, ContextType, ComposerType
    <3>3. QED
      BY <3>2
  <2> HIDE DEF u
  <2>3. QED
    BY <1>4, <2>1, <2>2, CommitStep
<1>5. QED
  BY <1>0, <1>1, <1>2, <1>3, <1>4, CommitHandlerStep, InsertCharacterStep

-----------------------------------------------------------------------------
(***************************************************************************)
(* The handlers of a conversion, and the commands.                         *)
(***************************************************************************)
\* ConvertReverse.
LEMMA ConvertReverseStep ==
    ASSUME NEW s, Good(s), ~EngineMayFail, NEW t \in ConvertReverse(s)
    PROVE  Step(s, t)
<1>0. /\ Leads(s, s) /\ ~s.ctx.conv.command /\ (Plain(s) => s.ctx.conv.result = <<>>)
      /\ Agree(s.ctx.state, s.ctx.comp.len, s.ctx.conv.state)
  BY GoodFacts
<1>1. CASE t = DoNothing(s)
  BY <1>1, DoNothingStep
<1>2. ASSUME s.ctx.state \in {"PRECOMPOSITION", "DIRECT"},
             NEW n \in 1..MaxLen, t \in ConvertComposition(Resized(s, n, n))
      PROVE  Step(s, t)
  <2> DEFINE u == Resized(s, n, n)
  <2>1. n \in 0..MaxLen /\ n <= n
    BY SMTT(30), SessionAssumptions
  <2>2. Leads(s, u) /\ u.ctx.conv = s.ctx.conv /\ u.ctx.state = s.ctx.state
    BY SMTT(30), <1>0, <2>1, LeadsResized
  <2>3. t \in ConvertComposition(u)
    BY <1>2
  <2> HIDE DEF u
  <2>4. s.ctx.conv.state \in {"COMPOSITION", "SUGGESTION"}
    BY <1>0, <1>2 DEF Agree
  <2>5. QED
    BY <1>0, <1>2, <2>2, <2>3, <2>4, ConvertCompositionStep
<1>3. QED
  BY <1>1, <1>2 DEF ConvertReverse, Only, State

\* ConvertToTransliteration, ConvertToHalfWidth, SwitchKanaType, DisplayAs* and
\* Translate*.
LEMMA TransliterateStep ==
    ASSUME NEW s, Good(s), ~EngineMayFail,
           NEW t \in ConvertToTransliteration(s) \cup ConvertToHalfWidth(s)
                     \cup SwitchKanaType(s) \cup DisplayAs(s) \cup TranslateHalfWidth(s)
    PROVE  Step(s, t)
<1> DEFINE b == s.ctx.conv
           outcomes == SC!ConvertToTransliteration(b, s.ctx.comp)
                       \cup SC!SwitchKanaType(b, s.ctx.comp)
                       \cup SC!ConvertToHalfWidth(b, s.ctx.comp)
<1>0. /\ Leads(s, s) /\ ~b.command /\ (Plain(s) => b.result = <<>>)
      /\ WellFormed(b) /\ s.ctx.comp \in ComposerType /\ Covers(b, s.ctx.comp.len)
      /\ Shown(s.ctx) /\ Step(s, s)
  BY GoodFacts
<1>1. \/ t = s \/ t = DoNothing(s)
      \/ s.ctx.state \in {"CONVERSION", "COMPOSITION"} /\ t \in StartConversion(s, outcomes)
  BY DEF ConvertToTransliteration, ConvertToHalfWidth, SwitchKanaType, DisplayAs,
         TranslateHalfWidth, StartConversion, Only, State
<1>2. CASE s.ctx.state \in {"CONVERSION", "COMPOSITION"} /\ t \in StartConversion(s, outcomes)
  <2>1. \A o \in outcomes :
           /\ o.ok \in BOOLEAN
           /\ WellFormed(o.c)
           /\ o.c.command = b.command /\ o.c.request = b.request /\ o.c.failed = b.failed
           /\ b.result = <<>> => o.c.result = <<>>
           /\ o.ok => o.c.state = "CONVERSION" /\ Covers(o.c, s.ctx.comp.len)
           /\ ~o.ok => o.c.state = "COMPOSITION" /\ s.ctx.comp.len = 0
    <3> HIDE DEF b
    <3> QED
      BY <1>0, HalfWidthFacts
  <2>2. s.ctx.comp.len = 0 => Agree(s.ctx.state, s.ctx.comp.len, "COMPOSITION")
    BY <1>2 DEF Agree
  <2> HIDE DEF outcomes
  <2>3. \A o \in outcomes :
           /\ o.ok \in BOOLEAN
           /\ WellFormed(o.c) /\ o.c.request = s.ctx.conv.request
           /\ Sound(s) /\ ~s.ctx.conv.failed => ~o.c.failed
           /\ o.c.command = s.ctx.conv.command
           /\ s.ctx.conv.result = <<>> => o.c.result = <<>>
           /\ o.ok => /\ o.c.state \in {"PREDICTION", "CONVERSION"}
                      /\ Covers(o.c, s.ctx.comp.len)
           /\ ~o.ok => /\ o.c.state = "COMPOSITION" /\ Shown(s.ctx)
                       /\ Agree(s.ctx.state, s.ctx.comp.len, "COMPOSITION")
    BY <1>0, <2>1, <2>2
  <2>4. QED
    BY <1>0, <1>2, <2>3, StartConversionStep
<1>3. QED
  BY <1>0, <1>1, <1>2, DoNothingStep

\* ConvertCancel, of a conversion or a suggestion.
LEMMA ConvertCancelStep ==
    ASSUME NEW s, Good(s), s.ctx.state # "DIRECT",
           s.ctx.state = "CONVERSION" \/ SC!IsActive(s.ctx.conv),
           NEW t \in ConvertCancel(s)
    PROVE  Step(s, t)
<1> DEFINE u == SetSessionState(s, "COMPOSITION")
           c == SC!Cancel(u.ctx.conv)
           v == [u EXCEPT !.ctx.conv = c]
<1>0. /\ Leads(s, s) /\ ~s.ctx.conv.command /\ (Plain(s) => s.ctx.conv.result = <<>>)
      /\ WellFormed(s.ctx.conv)
      /\ Agree(s.ctx.state, s.ctx.comp.len, s.ctx.conv.state)
  BY GoodFacts
<1>1. t \in SuggestAndOutput([u EXCEPT !.ctx.conv = SC!Cancel(@)])
  BY DEF ConvertCancel
<1>2. Leads(s, u) /\ u.ctx.conv = s.ctx.conv /\ u.ctx.state = "COMPOSITION"
  BY <1>0, LeadsState
<1> HIDE DEF u
<1>3. t \in SuggestAndOutput(v)
  BY <1>1
<1>4. /\ WellFormed(c) /\ c.state = "COMPOSITION"
      /\ u.ctx.conv.result = <<>> => c.result = <<>>
      /\ c.command = u.ctx.conv.command /\ c.request = u.ctx.conv.request
      /\ SC!IsActive(u.ctx.conv) => c.failed = u.ctx.conv.failed
  BY <1>0, <1>2, ResetFacts
<1>5. Sound(s) => SC!IsActive(u.ctx.conv)
  BY <1>0, <1>2 DEF Sound, ConvertsNothing, Agree, SC!IsActive, SC!CheckState
<1> HIDE DEF c
<1>6. Sound(s) /\ ~u.ctx.conv.failed => ~c.failed
  BY <1>4, <1>5
<1>7. Leads(s, v) /\ v.ctx.conv = c /\ v.ctx.state = u.ctx.state
  BY SMTT(30), <1>0, <1>2, <1>4, <1>6, LeadsConv
<1> HIDE DEF v
<1>8. QED
  BY <1>0, <1>2, <1>3, <1>4, <1>7, SuggestStep

\* DeleteCandidateFromHistory.
LEMMA DeleteCandidateStep ==
    ASSUME NEW s, Good(s), NEW t \in DeleteCandidateFromHistory(s)
    PROVE  Step(s, t)
<1>1. SC!IsActive(s.ctx.conv) => s.ctx.state # "DIRECT"
  BY GoodFacts DEF Agree, SC!IsActive, SC!CheckState
<1>2. QED
  BY <1>1, DoNothingStep, ConvertCancelStep DEF DeleteCandidateFromHistory

\* PredictAndConvert.
LEMMA PredictAndConvertStep ==
    ASSUME NEW s, Good(s), s.ctx.state # "DIRECT", NEW t \in PredictAndConvert(s)
    PROVE  Step(s, t)
<1> DEFINE outcomes == SC!PredictWithPreferences(s.ctx.conv, s.ctx.comp)
<1>0. /\ Leads(s, s) /\ ~s.ctx.conv.command /\ (Plain(s) => s.ctx.conv.result = <<>>)
      /\ WellFormed(s.ctx.conv) /\ s.ctx.comp \in ComposerType /\ Shown(s.ctx)
      /\ s.ctx.state \in {"DIRECT", "PRECOMPOSITION", "COMPOSITION", "CONVERSION"}
  BY GoodFacts
<1>1. CASE s.ctx.state = "CONVERSION"
  BY <1>1, ConvertMoveStep DEF PredictAndConvert, State
<1>2. CASE s.ctx.state # "CONVERSION"
  <2>1. t \in StartConversion(s, outcomes)
    BY <1>2 DEF PredictAndConvert, State
  <2>2. \A o \in outcomes :
           /\ o.ok \in BOOLEAN
           /\ WellFormed(o.c)
           /\ o.c.command = s.ctx.conv.command /\ o.c.request = s.ctx.conv.request
           /\ o.c.result = <<>> /\ o.c.failed = s.ctx.conv.failed
           /\ o.ok => o.c.state = "PREDICTION"
           /\ ~o.ok => o.c.state = "COMPOSITION"
    BY SMTT(30), <1>0, PredictFacts
  <2>3. Agree(s.ctx.state, s.ctx.comp.len, "COMPOSITION")
    BY <1>0, <1>2 DEF Agree
  <2> HIDE DEF outcomes
  <2>4. \A o \in outcomes :
           /\ o.ok \in BOOLEAN
           /\ WellFormed(o.c) /\ o.c.request = s.ctx.conv.request
           /\ Sound(s) /\ ~s.ctx.conv.failed => ~o.c.failed
           /\ o.c.command = s.ctx.conv.command
           /\ s.ctx.conv.result = <<>> => o.c.result = <<>>
           /\ o.ok => /\ o.c.state \in {"PREDICTION", "CONVERSION"}
                      /\ Covers(o.c, s.ctx.comp.len)
           /\ ~o.ok => /\ o.c.state = "COMPOSITION" /\ Shown(s.ctx)
                       /\ Agree(s.ctx.state, s.ctx.comp.len, "COMPOSITION")
    BY <1>0, <2>2, <2>3 DEF Covers
  <2>5. QED
    BY <1>0, <2>1, <2>4, StartConversionStep
<1>3. QED
  BY <1>1, <1>2

\* ExpandSuggestion.
LEMMA ExpandSuggestionStep ==
    ASSUME NEW s, Good(s), ~EngineMayFail, NEW t \in ExpandSuggestion(s)
    PROVE  Step(s, t)
<1>0. /\ Leads(s, s) /\ ~s.ctx.conv.command /\ (Plain(s) => s.ctx.conv.result = <<>>)
      /\ WellFormed(s.ctx.conv) /\ s.ctx.comp \in ComposerType /\ Shown(s.ctx)
      /\ Agree(s.ctx.state, s.ctx.comp.len, s.ctx.conv.state)
  BY GoodFacts
<1>1. CASE s.ctx.state \in {"PRECOMPOSITION", "COMPOSITION"}
  <2>1. PICK c \in SC!ExpandSuggestionWithPreferences(s.ctx.conv, s.ctx.comp) :
              t = Output([s EXCEPT !.ctx.conv = c])
    BY <1>1 DEF ExpandSuggestion, Only, State, Converted
  <2>2. s.ctx.conv.state \in {"COMPOSITION", "SUGGESTION"}
    BY <1>0, <1>1 DEF Agree
  <2>3. /\ WellFormed(c) /\ c.state = s.ctx.conv.state
        /\ c.command = s.ctx.conv.command /\ c.request = s.ctx.conv.request
        /\ c.failed = s.ctx.conv.failed
        /\ s.ctx.conv.result = <<>> => c.result = <<>>
    BY <1>0, <2>1, <2>2, ExpandFacts
  <2>4. Covers(c, s.ctx.comp.len) /\ Agree(s.ctx.state, s.ctx.comp.len, c.state)
    BY <1>0, <2>2, <2>3 DEF Covers
  <2>5. QED
    BY <1>0, <2>1, <2>3, <2>4, ConvStep
<1>2. CASE s.ctx.state \notin {"PRECOMPOSITION", "COMPOSITION"}
  BY <1>2, DoNothingStep DEF ExpandSuggestion, Only, State
<1>3. QED
  BY <1>1, <1>2

\* SelectCandidate and HighlightCandidate: the suggestions become predictions.
LEMMA SelectCandidateStep ==
    ASSUME NEW s, Good(s), NEW t \in SelectCandidate(s) \cup HighlightCandidate(s)
    PROVE  Step(s, t)
<1>0. /\ Leads(s, s) /\ ~s.ctx.conv.command /\ (Plain(s) => s.ctx.conv.result = <<>>)
      /\ WellFormed(s.ctx.conv) /\ s.ctx.comp \in ComposerType
      /\ Covers(s.ctx.conv, s.ctx.comp.len) /\ Step(s, s)
  BY GoodFacts
<1>1. ASSUME SC!IsActive(s.ctx.conv),
             NEW c \in SC!CandidateMoveToId(s.ctx.conv, s.ctx.comp),
             t = Output(SetSessionState([s EXCEPT !.ctx.conv = c], "CONVERSION"))
      PROVE  Step(s, t)
  <2> DEFINE u == [s EXCEPT !.ctx.conv = c]
             v == SetSessionState(u, "CONVERSION")
  <2>1. /\ WellFormed(c) /\ c.request = s.ctx.conv.request /\ c.command = s.ctx.conv.command
        /\ s.ctx.conv.result = <<>> => c.result = <<>>
        /\ c.state \in {"PREDICTION", "CONVERSION"} /\ c.failed = s.ctx.conv.failed
        /\ Covers(c, s.ctx.comp.len)
    BY SMTT(30), <1>0, <1>1, CandidateFacts
  <2>2. Leads(s, u) /\ u.ctx.conv = c /\ u.ctx.comp = s.ctx.comp
    BY SMTT(30), <1>0, <2>1, LeadsConv
  <2>3. t = Output(v)
    BY <1>1
  <2> HIDE DEF u
  <2>4. /\ Leads(s, v) /\ v.ctx.conv = u.ctx.conv /\ v.ctx.state = "CONVERSION"
        /\ v.ctx.comp = u.ctx.comp
    BY <2>2, LeadsState
  <2> HIDE DEF v
  <2>5. /\ Covers(v.ctx.conv, v.ctx.comp.len) /\ Shown(v.ctx)
        /\ Agree(v.ctx.state, v.ctx.comp.len, v.ctx.conv.state)
    BY <2>1, <2>2, <2>4 DEF Shown, Agree
  <2>6. QED
    BY <2>3, <2>4, <2>5, OutputStep
<1>2. QED
  BY <1>0, <1>1, DoNothingStep
     DEF SelectCandidate, HighlightCandidate, SelectCandidateInternal, Converted

\* Undo: the context that comes back was one between two commands.
LEMMA UndoStep ==
    ASSUME NEW s, Good(s), NEW t \in Undo(s)
    PROVE  Step(s, t)
<1>0. s \in SessionType
  BY GoodFacts
<1>1. CASE t = DoNothing(s)
  BY <1>1, DoNothingStep
<1>2. ASSUME NEW context \in s.undo,
             t = Output(Discards([ClearUndoContext(s) EXCEPT !.ctx = context]))
      PROVE  Step(s, t)
  <2> DEFINE u == ClearUndoContext(s)
             v == [u EXCEPT !.ctx = context]
             w == Discards(v)
  <2>1. Fit(context) /\ Shown(context)
    BY DEF Good, Ready
  <2>2. u \in SessionType /\ u.undo = {}
    BY <1>0 DEF SessionType, ClearUndoContext
  <2>3. t = Output(w)
    BY <1>2
  <2> HIDE DEF u
  <2>4. v \in SessionType /\ v.ctx = context /\ v.undo = {}
    BY <2>1, <2>2 DEF Fit, SessionType
  <2> HIDE DEF v
  <2>5. w \in SessionType /\ w.ctx = context /\ w.undo = {} /\ w.out.discards
    BY <2>4 DEF SessionType, OutputType, Discards
  <2> HIDE DEF w
  <2>6. WellFormed(w.ctx.conv)
    BY <2>1, <2>5 DEF Fit
  <2>7. /\ t \in SessionType /\ t.ctx.state = context.state /\ t.ctx.comp = context.comp
        /\ WellFormed(t.ctx.conv) /\ t.ctx.conv.state = context.conv.state
        /\ t.ctx.conv.keys = context.conv.keys /\ t.ctx.conv.result = <<>>
        /\ t.ctx.conv.failed = context.conv.failed
        /\ ~t.ctx.conv.command /\ t.undo = {} /\ t.out.discards
        /\ w.out.config => t.out.config
    BY <2>3, <2>5, <2>6, OutputFacts
  <2>8. s.out.config => w.out.config
    BY <1>0, <2>2, <2>4 DEF SessionType, OutputType, Discards, ClearUndoContext, u,
       v, w
  <2>9. Fit(t.ctx) /\ Shown(t.ctx)
    BY <2>1, <2>7, SessionFacts DEF Fit, Shown, Covers
  <2>10. ~context.conv.failed
    BY DEF Good, Ready
  <2>11. QED
    BY <2>7, <2>8, <2>9, <2>10 DEF Step, Good, Ready
<1>3. QED
  <2>1. \/ t = DoNothing(s)
        \/ \E v \in PopUndoContext(s) : t = Output(Discards(v))
    BY DEF Undo, Only
  <2>2. QED
    BY <1>1, <1>2, <2>1 DEF PopUndoContext

\* UndoOrRewind.
LEMMA UndoOrRewindStep ==
    ASSUME NEW s, Starts(s), NEW t \in UndoOrRewind(s)
    PROVE  Step(s, t)
BY DoNothingStep, UndoStep, CursorStep DEF UndoOrRewind, State, Starts

\* RequestUndo and RequestConvertReverse.
LEMMA RequestStep ==
    ASSUME NEW s, Good(s), NEW t \in RequestUndo(s) \cup RequestConvertReverse(s)
    PROVE  Step(s, t)
<1>0. /\ Leads(s, s) /\ ~s.ctx.conv.command /\ (Plain(s) => s.ctx.conv.result = <<>>)
      /\ Covers(s.ctx.conv, s.ctx.comp.len) /\ Shown(s.ctx)
      /\ Agree(s.ctx.state, s.ctx.comp.len, s.ctx.conv.state)
  BY GoodFacts
<1>1. \/ t = DoNothing(s) \/ t = Output(s)
      \/ s.ctx.state = "PRECOMPOSITION" /\ t = EchoBack(s)
  BY DEF RequestUndo, RequestConvertReverse, Only, State
<1>2. CASE t = Output(s)
  BY <1>0, <1>2, OutputStep
<1>3. CASE s.ctx.state = "PRECOMPOSITION" /\ t = EchoBack(s)
  BY <1>0, <1>3, LeadsEchoBack
<1>4. QED
  BY <1>1, <1>2, <1>3, DoNothingStep

\* MakeSureIMEOn and MakeSureIMEOff.
LEMMA MakeSureStep ==
    ASSUME NEW s, Starts(s), NEW t \in MakeSureIMEOn(s) \cup MakeSureIMEOff(s)
    PROVE  Step(s, t)
<1>1. Good(s) /\ Step(s, s)
  BY GoodFacts DEF Starts
<1>2. QED
  BY <1>1, IMEOnStep, IMEOffStep DEF MakeSureIMEOn, MakeSureIMEOff, State

\* SwitchInputFieldType.
LEMMA SwitchInputFieldTypeStep ==
    ASSUME NEW s, Good(s), NEW t \in SwitchInputFieldType(s)
    PROVE  Step(s, t)
<1>0. /\ s \in SessionType /\ WellFormed(s.ctx.conv) /\ ~s.ctx.conv.command
      /\ Covers(s.ctx.conv, s.ctx.comp.len) /\ Shown(s.ctx)
      /\ Agree(s.ctx.state, s.ctx.comp.len, s.ctx.conv.state)
      /\ s.ctx.comp.cursor <= s.ctx.comp.len
  BY GoodFacts
<1>1. PICK f \in Fields : t = Output([s EXCEPT !.ctx.comp.field = f])
  BY DEF SwitchInputFieldType
<1> DEFINE u == [s EXCEPT !.ctx.comp.field = f]
<1>2. /\ u \in SessionType /\ u.ctx.conv = s.ctx.conv /\ u.ctx.state = s.ctx.state
      /\ u.ctx.comp.len = s.ctx.comp.len /\ u.ctx.comp.cursor = s.ctx.comp.cursor
      /\ u.undo = s.undo /\ u.out = s.out
  BY <1>0 DEF SessionType, ContextType, ComposerType
<1>3. t = Output(u)
  BY <1>1
<1> HIDE DEF u
<1>4. /\ t \in SessionType
      /\ t.ctx.state = u.ctx.state /\ t.ctx.comp = u.ctx.comp
      /\ WellFormed(t.ctx.conv) /\ t.ctx.conv.state = u.ctx.conv.state
      /\ t.ctx.conv.keys = u.ctx.conv.keys
      /\ t.ctx.conv.result = <<>> /\ t.ctx.conv.failed = u.ctx.conv.failed
      /\ ~t.ctx.conv.command /\ t.undo = u.undo
      /\ t.out.inserted = u.out.inserted /\ t.out.discards = u.out.discards
      /\ t.out.config = (u.out.config \/ u.ctx.conv.command)
      /\ t.out.result = IF u.ctx.conv.result = <<>> THEN u.out.result ELSE u.ctx.conv.result
  BY <1>0, <1>2, <1>3, OutputFacts
<1>5. /\ Fit(t.ctx) /\ Shown(t.ctx)
      /\ \A v \in t.undo : Fit(v) /\ Shown(v) /\ ~v.conv.failed
  BY <1>0, <1>2, <1>4, SessionFacts DEF Fit, Shown, Covers, Good, Ready
<1>6. Plain(s) => Text(t) = Text(s)
  BY <1>2, <1>4 DEF Plain, Text, ResultSize
<1>7. QED
  BY <1>0, <1>2, <1>4, <1>5, <1>6 DEF Step, Good, Ready, Sound

-----------------------------------------------------------------------------
(***************************************************************************)
(* The promise of the handlers.                                            *)
(***************************************************************************)
\* SetRequest.
LEMMA SetRequestKept ==
    ASSUME NEW r, Starts(r), r.out = NoOutput, NEW request \in Requests,
           NEW t, t = [ClearUndoContext(r) EXCEPT !.ctx.conv.request = request]
    PROVE  Kept(r, t)
<1> DEFINE u == ClearUndoContext(r)
           c == [r.ctx.conv EXCEPT !.request = request]
<1>0. /\ r \in SessionType /\ WellFormed(r.ctx.conv) /\ ~r.ctx.conv.command
      /\ r.ctx.comp.len \in Nat /\ Fit(r.ctx) /\ Shown(r.ctx)
  BY GoodFacts DEF Starts, Good, Ready
<1>1. u \in SessionType /\ u.ctx = r.ctx /\ u.out = r.out /\ u.undo = {}
  BY <1>0 DEF SessionType, ClearUndoContext
<1>2. request \in RequestType
  BY SessionAssumptions DEF RequestType
<1>3. /\ c \in ConverterType /\ c.state = r.ctx.conv.state /\ c.keys = r.ctx.conv.keys
      /\ c.index = r.ctx.conv.index /\ c.indices = r.ctx.conv.indices
      /\ c.result = r.ctx.conv.result /\ c.command = r.ctx.conv.command
      /\ c.failed = r.ctx.conv.failed
  BY <1>0, <1>2 DEF WellFormed, ConverterType
<1> HIDE DEF u
<1>4. t = [u EXCEPT !.ctx.conv = c]
  BY <1>1 DEF u
<1> HIDE DEF c
<1>5. WellFormed(c)
  BY <1>0, <1>3 DEF WellFormed
<1>6. /\ t \in SessionType /\ t.ctx.conv = c
      /\ t.ctx.state = r.ctx.state /\ t.ctx.comp = r.ctx.comp
      /\ t.undo = {} /\ t.out = r.out
  <2> DEFINE v == [u EXCEPT !.ctx.conv = c]
  <2>1. /\ v \in SessionType /\ v.ctx.conv = c
        /\ v.ctx.state = u.ctx.state /\ v.ctx.comp = u.ctx.comp
        /\ v.undo = u.undo /\ v.out = u.out
    BY <1>1, <1>3, ConvFacts
  <2>2. t = v
    BY <1>4
  <2> HIDE DEF v
  <2>3. QED
    BY <1>1, <2>1, <2>2
<1>7. Fit(t.ctx) /\ Shown(t.ctx)
  BY <1>0, <1>3, <1>5, <1>6, SessionFacts DEF Fit, Shown, Covers
<1>8. Good(t)
  BY <1>0, <1>3, <1>6, <1>7 DEF Good, Ready
<1>9. ~Loses(r, t)
  BY SMTT(30), <1>0, <1>6 DEF Loses, NoOutput, ResultSize
<1>10. QED
  BY <1>3, <1>6, <1>8, <1>9 DEF Kept, Plain, Starts

\* TestSendKey in the state the key event is sent in, or that IMEOn makes of it.
LEMMA TestSendKeyInStep ==
    ASSUME NEW s, Good(s), NEW state, NEW t \in TestSendKeyIn(s, state),
           state = s.ctx.state \/ (s.ctx.state = "DIRECT" /\ state = "PRECOMPOSITION")
    PROVE  Step(s, t)
<1>0. /\ Leads(s, s) /\ ~s.ctx.conv.command /\ Shown(s.ctx)
      /\ Plain(s) => s.ctx.conv.result = <<>>
  BY GoodFacts
<1>1. CASE state \in {"DIRECT", "PRECOMPOSITION"}
  <2>1. s.ctx.state # "CONVERSION"
    BY <1>1
  <2>2. \/ t \in EchoBackAndClearUndoContext(s) \/ t \in Revert(s)
        \/ t = EchoBack(s) \/ t = DoNothing(s)
    BY <1>1 DEF TestSendKeyIn
  <2>3. QED
    BY <1>0, <2>1, <2>2, EchoBackStep, LeadsEchoBack, RevertStep, DoNothingStep
<1>2. CASE state \notin {"DIRECT", "PRECOMPOSITION"}
  <2>1. t = DoNothing(s)
    BY <1>2 DEF TestSendKeyIn
  <2>2. QED
    BY <2>1, DoNothingStep
<1>3. QED
  BY <1>1, <1>2

\* The handlers of SendKeyDirectInputState.
LEMMA DirectHandlers ==
    ASSUME NEW s, Good(s), s.ctx.state = "DIRECT", NEW t \in DirectOutcomes(s)
    PROVE  Step(s, t)
<1>1. CASE t \in EchoBackAndClearUndoContext(s)
  <2>1. /\ Leads(s, s) /\ ~s.ctx.conv.command /\ Shown(s.ctx)
        /\ Plain(s) => s.ctx.conv.result = <<>>
    BY GoodFacts
  <2>2. QED
    BY <1>1, <2>1, EchoBackStep
<1>2. CASE t \in IMEOn(s)
  BY <1>2, IMEOnStep
<1>3. CASE t \in InputMode(s)
  BY <1>3, InputModeStep
<1>4. CASE t \in RequestConvertReverse(s)
  BY <1>4, RequestStep
<1>5. QED
  BY <1>1, <1>2, <1>3, <1>4 DEF DirectOutcomes

\* The handlers of SendKeyPrecompositionState.
LEMMA PrecompositionHandlers ==
    ASSUME NEW s, Starts(s), s.ctx.state = "PRECOMPOSITION",
           ~EngineMayFail, OnePasswordCharacter, NEW t \in PrecompositionOutcomes(s)
    PROVE  Step(s, t)
<1>0. Good(s)
  BY DEF Starts
<1>1. CASE t \in EchoBackAndClearUndoContext(s)
  <2>1. /\ Leads(s, s) /\ ~s.ctx.conv.command /\ Shown(s.ctx)
        /\ Plain(s) => s.ctx.conv.result = <<>>
    BY <1>0, GoodFacts
  <2>2. QED
    BY <1>1, <2>1, EchoBackStep
<1>2. CASE t \in InsertCharacter(s)
  BY <1>0, <1>2, InsertCharacterStep
<1>3. CASE t \in InsertSpace(s)
  BY <1>0, <1>3, InsertSpaceStep
<1>4. CASE t \in InputMode(s)
  BY <1>0, <1>4, InputModeStep
<1>5. CASE t \in Revert(s)
  BY <1>0, <1>5, RevertStep
<1>6. CASE t \in RequestUndo(s) \cup RequestConvertReverse(s)
  BY <1>0, <1>6, RequestStep
<1>7. CASE t \in IMEOff(s)
  BY <1>0, <1>7, IMEOffStep
<1>8. CASE t \in Nothing(s)
  BY <1>0, <1>8, DoNothingStep DEF Nothing
<1>9. CASE t \in EditCancel(s)
  BY <1>0, <1>9, EditCancelStep
<1>10. CASE t \in EditCancelAndIMEOff(s)
  BY <1>0, <1>10, EditCancelAndIMEOffStep
<1>11. CASE t \in CommitFirstSuggestion(s)
  BY <1>0, <1>11, CommitFirstSuggestionStep
<1>12. CASE t \in PredictAndConvert(s)
  BY <1>0, <1>12, PredictAndConvertStep
<1>13. QED
  BY <1>1, <1>2, <1>3, <1>4, <1>5, <1>6, <1>7, <1>8, <1>9, <1>10, <1>11, <1>12 DEF
     PrecompositionOutcomes

\* The handlers of SendKeyCompositionState.
LEMMA CompositionHandlers ==
    ASSUME NEW s, Starts(s), s.ctx.state = "COMPOSITION",
           ~EngineMayFail, OnePasswordCharacter, NEW t \in CompositionOutcomes(s)
    PROVE  Step(s, t)
<1>0. Good(s)
  BY DEF Starts
<1>1. CASE t \in InsertCharacter(s)
  BY <1>0, <1>1, InsertCharacterStep
<1>2. CASE t \in Commit(s)
  BY <1>0, <1>2, CommitHandlerStep DEF Commit
<1>3. CASE t \in CommitFirstSuggestion(s)
  BY <1>0, <1>3, CommitFirstSuggestionStep
<1>4. CASE t \in Convert(s) \cup ConvertWithoutHistory(s)
  BY <1>0, <1>4, ConvertStep
<1>5. CASE t \in PredictAndConvert(s)
  BY <1>0, <1>5, PredictAndConvertStep
<1>6. CASE t \in Delete(s) \cup Backspace(s)
  BY <1>0, <1>6, DeleteStep
<1>7. CASE t \in InsertSpace(s)
  BY <1>0, <1>7, InsertSpaceStep
<1>8. CASE t \in MoveCursorLeft(s) \cup MoveCursorRight(s)
             \cup MoveCursorToBeginning(s) \cup MoveCursorToEnd(s)
  BY <1>0, <1>8, CursorStep
<1>9. CASE t \in EditCancel(s)
  BY <1>0, <1>9, EditCancelStep
<1>10. CASE t \in EditCancelAndIMEOff(s)
  BY <1>0, <1>10, EditCancelAndIMEOffStep
<1>11. CASE t \in RequestUndo(s)
  BY <1>0, <1>11, RequestStep
<1>12. CASE t \in IMEOff(s)
  BY <1>0, <1>12, IMEOffStep
<1>13. CASE t \in Nothing(s)
  BY <1>0, <1>13, DoNothingStep DEF Nothing
<1>14. CASE t \in ConvertToTransliteration(s) \cup ConvertToHalfWidth(s) \cup SwitchKanaType(s)
             \cup DisplayAs(s) \cup TranslateHalfWidth(s)
  BY <1>0, <1>14, TransliterateStep
<1>15. CASE t \in InputMode(s)
  BY <1>0, <1>15, InputModeStep
<1>16. QED
  BY <1>1, <1>2, <1>3, <1>4, <1>5, <1>6, <1>7, <1>8, <1>9, <1>10, <1>11, <1>12,
     <1>13, <1>14, <1>15 DEF CompositionOutcomes

\* The handlers of SendKeyConversionState.
LEMMA ConversionHandlers ==
    ASSUME NEW s, Starts(s), s.ctx.state = "CONVERSION",
           ~EngineMayFail, OnePasswordCharacter, NEW t \in ConversionOutcomes(s)
    PROVE  Step(s, t)
<1>0. Good(s)
  BY DEF Starts
<1>1. CASE t \in InsertCharacter(s)
  BY <1>0, <1>1, InsertCharacterStep
<1>2. CASE t \in InsertSpace(s)
  BY <1>0, <1>2, InsertSpaceStep
<1>3. CASE t \in Commit(s)
  BY <1>0, <1>3, CommitHandlerStep DEF Commit
<1>4. CASE t \in CommitSegment(s)
  BY <1>0, <1>4, CommitSegmentStep
<1>5. CASE t \in ConvertNext(s) \cup ConvertMove(s)
  BY <1>0, <1>5, ConvertMoveStep
<1>6. CASE t \in PredictAndConvert(s)
  BY <1>0, <1>6, PredictAndConvertStep
<1>7. CASE t \in SegmentFocus(s)
  BY <1>0, <1>7, SegmentFocusStep
<1>8. CASE t \in SegmentWidthExpand(s) \cup SegmentWidthShrink(s)
  BY <1>0, <1>8, SegmentWidthStep
<1>9. CASE t \in ConvertCancel(s)
  BY <1>0, <1>9, ConvertCancelStep
<1>10. CASE t \in EditCancelAndIMEOff(s)
  BY <1>0, <1>10, EditCancelAndIMEOffStep
<1>11. CASE t \in RequestUndo(s)
  BY <1>0, <1>11, RequestStep
<1>12. CASE t \in IMEOff(s)
  BY <1>0, <1>12, IMEOffStep
<1>13. CASE t \in Nothing(s)
  BY <1>0, <1>13, DoNothingStep DEF Nothing
<1>14. CASE t \in ConvertToTransliteration(s) \cup ConvertToHalfWidth(s) \cup SwitchKanaType(s)
             \cup DisplayAs(s) \cup TranslateHalfWidth(s)
  BY <1>0, <1>14, TransliterateStep
<1>15. CASE t \in InputMode(s)
  BY <1>0, <1>15, InputModeStep
<1>16. CASE t \in DeleteCandidateFromHistory(s)
  BY <1>0, <1>16, DeleteCandidateStep
<1>17. QED
  BY <1>1, <1>2, <1>3, <1>4, <1>5, <1>6, <1>7, <1>8, <1>9, <1>10, <1>11, <1>12,
     <1>13, <1>14, <1>15, <1>16 DEF ConversionOutcomes

\* The handlers of SendCommand.
LEMMA CommandHandlers ==
    ASSUME NEW s, Starts(s), ~EngineMayFail, NEW t \in CommandOutcomes(s)
    PROVE  Step(s, t)
<1>0. Good(s)
  BY DEF Starts
<1>1. CASE t \in Nothing(s)
  BY <1>0, <1>1, DoNothingStep DEF Nothing
<1>2. CASE t \in InputMode(s)
  BY <1>0, <1>2, InputModeStep
<1>3. CASE t \in Revert(s)
  BY <1>0, <1>3, RevertStep
<1>4. CASE t \in Commit(s)
  BY <1>0, <1>4, CommitHandlerStep DEF Commit
<1>5. CASE t \in SelectCandidate(s) \cup HighlightCandidate(s)
  BY <1>0, <1>5, SelectCandidateStep
<1>6. CASE t \in CommitCandidate(s)
  BY <1>0, <1>6, CommitCandidateStep
<1>7. CASE t \in ConvertReverse(s)
  BY <1>0, <1>7, ConvertReverseStep
<1>8. CASE t \in Undo(s)
  BY <1>0, <1>8, UndoStep
<1>9. CASE t \in ResetContext(s)
  BY <1>0, <1>9, ResetContextStep
<1>10. CASE t \in MoveCursorTo(s) \cup StopKeyToggling(s)
  BY <1>0, <1>10, CursorCommandStep
<1>11. CASE t \in ExpandSuggestion(s)
  BY <1>0, <1>11, ExpandSuggestionStep
<1>12. CASE t \in SwitchInputFieldType(s)
  BY <1>0, <1>12, SwitchInputFieldTypeStep
<1>13. CASE t \in UndoOrRewind(s)
  BY <1>0, <1>13, UndoOrRewindStep
<1>14. CASE t \in CommitRawText(s)
  BY <1>0, <1>14, CommitRawTextStep
<1>15. CASE t \in ConvertMove(s)
  BY <1>0, <1>15, ConvertMoveStep
<1>16. CASE t \in MakeSureIMEOn(s) \cup MakeSureIMEOff(s)
  BY <1>0, <1>16, MakeSureStep
<1>17. CASE t \in DeleteCandidateFromHistory(s)
  BY <1>0, <1>17, DeleteCandidateStep
<1>18. QED
  BY <1>1, <1>2, <1>3, <1>4, <1>5, <1>6, <1>7, <1>8, <1>9, <1>10, <1>11, <1>12, <1>13,
     <1>14, <1>15, <1>16, <1>17 DEF CommandOutcomes

\* Every handler keeps the promise.
LEMMA HandlersKeepPromise ==
    ASSUME ~EngineMayFail, OnePasswordCharacter
    PROVE  Promise
<1>1. HandlersStep
  BY DirectHandlers, PrecompositionHandlers, CompositionHandlers,
     ConversionHandlers,
     CommandHandlers DEF HandlersStep
<1>2. TestsStep
  BY TestSendKeyInStep DEF TestsStep
<1>3. SwitchesLead
  BY IMEOnStep, IMEOffStep DEF SwitchesLead, Starts
<1>4. RequestsKept
  BY SetRequestKept DEF RequestsKept
<1>5. QED
  BY <1>1, <1>2, <1>3, <1>4 DEF Promise

\* IInv is inductive.
LEMMA Inductive ==
    ASSUME ~EngineMayFail, ~TestsOff, OnePasswordCharacter
    PROVE  Spec => []IInv
<1>1. Init => IInv
  BY InitGood
<1>2. IInv /\ [Next]_vars => IInv'
  BY HandlersKeepPromise, StepsHold
<1>3. QED
  BY <1>1, <1>2, PTL DEF Spec

\* Whatever key events and commands come, in whatever order, the state of the
\* session and the state of its converter agree, also in every context that
\* Undo brings back (session.cc, session_converter.cc).
THEOREM SessionStatesAgree ==
    ASSUME ~EngineMayFail, ~TestsOff, OnePasswordCharacter
    PROVE  Spec => []StatesAgree
<1>1. IInv => StatesAgree
  BY GoodAgrees
<1>2. QED
  BY <1>1, Inductive, PTL

\* The segments of a conversion are a split of what the composer holds, and
\* the focused segment and the selected candidate indices are those of
\* segments that are there (session_converter.cc).
THEOREM SessionSegmentsCover ==
    ASSUME ~EngineMayFail, ~TestsOff, OnePasswordCharacter
    PROVE  Spec => []SegmentsCover
<1>1. IInv => SegmentsCover
  BY GoodCovers
<1>2. QED
  BY <1>1, Inductive, PTL

\* Text in the composer is text the user sees, with the cursor in it.
THEOREM SessionComposedIsShown ==
    ASSUME ~EngineMayFail, ~TestsOff, OnePasswordCharacter
    PROVE  Spec => []ComposedIsShown
<1>1. IInv => ComposedIsShown
  BY GoodIsShown
<1>2. QED
  BY <1>1, Inductive, PTL

\* No method of the converter runs in a state that its DCHECK excludes, except
\* after a prediction of nothing.
THEOREM SessionDChecksHold ==
    ASSUME ~EngineMayFail, ~TestsOff, OnePasswordCharacter
    PROVE  Spec => DChecksHold
<1>1. IInv /\ [Next]_vars =>
          [~ConvertsNothing(session.ctx) => ~session'.ctx.conv.failed]_vars
  BY HandlersKeepPromise, StepsHold
<1>2. QED
  BY <1>1, Inductive, PTL DEF Spec, DChecksHold

\* What a command commits is in its own output.
THEOREM SessionResultDelivered ==
    ASSUME ~EngineMayFail, ~TestsOff, OnePasswordCharacter
    PROVE  Spec => ResultDelivered
<1>1. IInv /\ [Next]_vars =>
          [NoPartialResult => session'.ctx.conv.result = <<>>]_vars
  BY HandlersKeepPromise, StepsHold
<1>2. QED
  BY <1>1, Inductive, PTL DEF Spec, ResultDelivered

\* A command in a normal field that neither cancels nor undoes keeps every
\* character.
THEOREM SessionNothingLost ==
    ASSUME ~EngineMayFail, ~TestsOff, OnePasswordCharacter
    PROVE  Spec => NothingLost
<1>1. IInv /\ [Next]_vars =>
          [NoPartialResult /\ session.ctx.comp.field = "NORMAL" => ~lost']_vars
  BY HandlersKeepPromise, StepsHold
<1>2. QED
  BY <1>1, Inductive, PTL DEF Spec, NothingLost
=============================================================================
