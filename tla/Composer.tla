------------------------------ MODULE Composer ------------------------------
(***************************************************************************)
(* Composer, Composition and CharChunk (composer/composer.cc, composer/    *)
(* internal/composition.cc, char_chunk.cc): the text being typed, as a     *)
(* list of chunks that the romanization table turns from letters to kana.  *)
(*                                                                         *)
(* A character is a string of one code point; a kana takes three bytes and *)
(* a letter one, which matters where the code compares sizes.  The width   *)
(* and the case of a letter are left out, and so are hiragana and katakana *)
(* of one kana; half-width katakana write a voiced kana as two characters. *)
(* The rules carry no attributes and no special keys, as in the tables of  *)
(* a hardware keyboard.  Left out: typing correction, AutoSwitchMode.      *)
(***************************************************************************)
EXTENDS Integers, Sequences, FiniteSets, SequencesExt

CONSTANTS
    Rules,             \* the table: a set of [input, result, pending]
    KeyEvents,         \* keys: [style, shift, raw, conversion]
    Kana,              \* the characters that take three bytes
    Voiced,            \* voiced kana, each the pair of half-width characters
    InputModes,        \* the modes a user may choose to type in
    OutputModes,       \* and to show the text in
    max_length,
    MaxCommands        \* bound on the commands

VARIABLES
    chunks,            \* Composition::chunks_
    input_t12r,        \* Composition::input_t12r_
    position,          \* position_
    is_new_input,      \* is_new_input_
    input_mode,        \* input_mode_
    comeback_input_mode,
    shifted_sequence_count,
    update_input_mode, \* request: update_input_mode_from_surrounding_text
    chosen,            \* history: the mode the user last asked for
    commands           \* commands so far

modes == <<input_t12r, is_new_input, input_mode, comeback_input_mode,
           shifted_sequence_count>>
vars == <<chunks, position, modes, update_input_mode, chosen, commands>>

NPOS == 999            \* an empty local_length_cache_
-----------------------------------------------------------------------------
(***************************************************************************)
(* The table.  LookUpPrefix follows the trie as long as the key allows and *)
(* takes the rule that ends there, never a shorter one.                    *)
(***************************************************************************)
HasSubRules(input) == \E r \in Rules : IsPrefix(input, r.input)

\* The length of the longest beginning of the key that the trie knows.
Depth(key) ==
    CHOOSE n \in 0..Len(key) :
        /\ n > 0 => HasSubRules(SubSeq(key, 1, n))
        /\ n < Len(key) => ~HasSubRules(SubSeq(key, 1, n + 1))

\* The rule at a node, as a set of at most one; fixed where no longer rule follows.
AtNode(node) ==
    [entry |-> {r \in Rules : r.input = node},
     key_length |-> Len(node),
     fixed |-> ~\E r \in Rules : IsStrictPrefix(node, r.input)]

LookUpPrefix(key) == AtNode(SubSeq(key, 1, Depth(key)))

Found(e) == e.entry # {}
Entry(e) == CHOOSE r \in e.entry : TRUE
-----------------------------------------------------------------------------
(***************************************************************************)
(* Transliterators.                                                        *)
(***************************************************************************)
\* The bytes of a string.
Size(s) == Len(s) + 2 * Cardinality({i \in DOMAIN s : s[i] \in Kana})

\* The first n bytes of s.
Bytes(s, n) == SubSeq(s, 1, Max({i \in 0..Len(s) : Size(SubSeq(s, 1, i)) <= n}))

ToHalfKatakana(s) ==
    FlattenSeq([i \in DOMAIN s |-> IF s[i] \in DOMAIN Voiced THEN Voiced[s[i]] ELSE <<s[i]>>])

\* HalfKatakanaToHiragana joins a mark with the kana before it.
RECURSIVE HalfKatakanaToHiragana(_)
HalfKatakanaToHiragana(s) ==
    IF s = <<>> THEN <<>>
    ELSE LET joined == {v \in DOMAIN Voiced : IsPrefix(Voiced[v], s)}
         IN  IF joined = {} THEN <<Head(s)>> \o HalfKatakanaToHiragana(Tail(s))
             ELSE <<CHOOSE v \in joined : TRUE>>
                      \o HalfKatakanaToHiragana(SubSeq(s, 3, Len(s)))

Transliterate(t12r, raw, converted) ==
    CASE t12r = "HALF_ASCII" -> IF raw = <<>> THEN converted ELSE raw
      [] t12r = "HALF_KATAKANA" -> ToHalfKatakana(converted)
      [] OTHER -> converted

\* Divides primary at the position, and secondary where it has the same end.
Divide(lhs, rhs, secondary) ==
    [primary |-> <<lhs, rhs>>,
     same |-> IsSuffix(rhs, secondary),
     secondary |-> IF IsSuffix(rhs, secondary)
                   THEN <<SubSeq(secondary, 1, Len(secondary) - Len(rhs)), rhs>>
                   ELSE <<lhs, rhs>>]
SplitPrimaryString(pos, primary, secondary) ==
    Divide(SubSeq(primary, 1, pos), SubSeq(primary, pos + 1, Len(primary)), secondary)

RawFirst(d) == [raw |-> d.primary, converted |-> d.secondary]
ConvertedFirst(d) == [raw |-> d.secondary, converted |-> d.primary]
Both(p) == [i \in 1..2 |-> HalfKatakanaToHiragana(p[i])]
HalfKatakanaFirst(d) ==
    [raw |-> IF d.same THEN d.secondary ELSE Both(d.secondary), converted |-> Both(d.primary)]

Split(t12r, pos, raw, converted) ==
    CASE t12r = "HALF_ASCII" -> RawFirst(SplitPrimaryString(pos, raw, converted))
      [] t12r = "HALF_KATAKANA" ->
             HalfKatakanaFirst(SplitPrimaryString(pos, ToHalfKatakana(converted), raw))
      [] OTHER -> ConvertedFirst(SplitPrimaryString(pos, converted, raw))
-----------------------------------------------------------------------------
(***************************************************************************)
(* CharChunk.  Every operation that changes a chunk empties its cache.     *)
(***************************************************************************)
CharChunk(t12r) ==
    [raw |-> <<>>, conversion |-> <<>>, pending |-> <<>>, ambiguous |-> <<>>,
     t12r |-> t12r, cache |-> NPOS]

TextAs(t12r, c) == Transliterate(t12r, c.raw, c.conversion \o c.pending)
Text(c) == TextAs(c.t12r, c)

\* GetLength(LOCAL) and GetLength of another transliterator.
Length(c) == IF c.cache # NPOS THEN c.cache ELSE Len(Text(c))
LengthAs(t12r, c) == IF t12r = "LOCAL" THEN Length(c) ELSE Len(TextAs(t12r, c))

IsAppendable(c, t12r) == c.pending # <<>> /\ c.t12r = t12r

IsFixedBy(e, key) == Found(e) /\ e.fixed /\ e.key_length = Len(key)
IsConvertible(c, t12r, input) ==
    IsAppendable(c, t12r) /\ IsFixedBy(LookUpPrefix(c.pending \o input), c.pending \o input)

Combine(c, left) ==
    [c EXCEPT !.conversion = left.conversion \o @,
              !.raw = left.raw \o @,
              !.ambiguous = IF left.ambiguous = <<>> THEN <<>>
                            ELSE left.ambiguous \o (IF @ = <<>> THEN c.pending ELSE @),
              !.pending = left.pending \o @,
              !.cache = NPOS]

\* DeleteEnd: cuts target at the last place where end occurs.
DeleteEnd(end, target) ==
    LET at == {i \in 1..Len(target) + 1 :
                   /\ i + Len(end) - 1 <= Len(target)
                   /\ SubSeq(target, i, i + Len(end) - 1) = end}
    IN  IF at = {} THEN target ELSE SubSeq(target, 1, Max(at) - 1)

\* A step of AddInput and AddInputAndConvertedChar: the chunk, what is left of
\* the input and of its conversion, and kLoop.
Step(c, input, conversion, loop) ==
    [c |-> [c EXCEPT !.cache = NPOS], input |-> input, conversion |-> conversion, loop |-> loop]

\* AddInputInternal, where key is pending_ and the input, and e what it leads to.
NoRule(c, input, used) ==
    CASE c.pending = <<>> /\ used = 0 ->
            Step([c EXCEPT !.conversion = Append(@, Head(input)),
                           !.raw = Append(@, Head(input))], Tail(input), <<>>, FALSE)
      [] c.pending # <<>> /\ used <= 0 -> Step(c, input, <<>>, FALSE)
      [] used > 0 ->
            Step([c EXCEPT !.raw = @ \o SubSeq(input, 1, used),
                           !.pending = @ \o SubSeq(input, 1, used),
                           !.ambiguous = IF @ = <<>> THEN @ ELSE @ \o SubSeq(input, 1, used)],
                 SubSeq(input, used + 1, Len(input)), <<>>, FALSE)

WholeKey_KeepsAmbiguous(c, input, key, e, rule) ==
    Step(IF e.fixed
         THEN [c EXCEPT !.raw = @ \o input, !.conversion = @ \o rule.result,
                        !.pending = rule.pending]
         ELSE [c EXCEPT !.raw = @ \o input, !.pending = key, !.ambiguous = rule.result],
         <<>>, <<>>, FALSE)
WholeKey(c, input, key, e, rule) ==
    Step(IF e.fixed
         THEN [c EXCEPT !.raw = @ \o input, !.conversion = @ \o rule.result,
                        !.pending = rule.pending, !.ambiguous = <<>>]
         ELSE [c EXCEPT !.raw = @ \o input, !.pending = key, !.ambiguous = rule.result],
         <<>>, <<>>, FALSE)

PartOfKey(c, key, n, rule) ==
    Step([c EXCEPT !.raw = DeleteEnd(c.pending, @) \o SubSeq(key, 1, n),
                   !.conversion = @ \o rule.result,
                   !.pending = rule.pending, !.ambiguous = <<>>],
         SubSeq(key, n + 1, Len(key)), <<>>, rule.pending # <<>>)

AddKey(c, input, key, e) ==
    IF ~Found(e) THEN NoRule(c, input, e.key_length - Len(c.pending))
    ELSE IF e.key_length = Len(key) THEN WholeKey(c, input, key, e, Entry(e))
    ELSE PartOfKey(c, key, e.key_length, Entry(e))

AddInputInternal(c, input) ==
    AddKey(c, input, c.pending \o input, LookUpPrefix(c.pending \o input))

RECURSIVE AddInput(_)
AddInput(s) == IF s.loop THEN AddInput(AddInputInternal(s.c, s.input)) ELSE s

Taken(c, key, rule) ==
    [c EXCEPT !.raw = @ \o key, !.conversion = @ \o rule.result, !.pending = rule.pending]

AddConverted(c, key, converted_char, input, e) ==
    IF ~Found(e) \/ (e.key_length < Len(input) /\ e.key_length = Len(c.pending))
    THEN Step(c, key, converted_char, FALSE)
    ELSE IF e.key_length < Len(input)
    THEN Step(Taken(c, key, Entry(e)), <<>>,
              SubSeq(input, e.key_length + 1, Len(input)), FALSE)
    ELSE Step(IF e.fixed THEN [Taken(c, key, Entry(e)) EXCEPT !.ambiguous = <<>>]
              ELSE [c EXCEPT !.raw = @ \o key, !.pending = Entry(e).result,
                             !.ambiguous = Entry(e).result],
              <<>>, <<>>, FALSE)

AddInputAndConvertedChar(c, key, converted_char) ==
    IF c.raw \o c.pending \o c.conversion = <<>>
    THEN Step([c EXCEPT !.raw = key, !.pending = converted_char,
                        !.ambiguous = converted_char], <<>>, <<>>, FALSE)
    ELSE AddConverted(c, key, converted_char, c.pending \o converted_char,
                      LookUpPrefix(c.pending \o converted_char))

\* A new input that starts no rule does not join a chunk with contents.
ShouldInsertNewChunk(c, raw, new) ==
    c.raw \o c.conversion \o c.pending # <<>> /\ new /\ ~HasSubRules(raw)

\* An input is [raw, conversion, new, t12r]; conversion is <<>> for none.
AddCompositionInput(c, in) ==
    IF in.conversion # <<>> THEN AddInputAndConvertedChar(c, in.raw, in.conversion)
    ELSE AddInput(Step(c, in.raw, <<>>, ~ShouldInsertNewChunk(c, in.raw, in.new)))

\* SplitChunk: the new left chunk and what stays of c on its right, inside the
\* pending part or before it.
SplitPending(c, raw, lhs, rhs) ==
    <<[CharChunk(c.t12r) EXCEPT !.raw = raw[1], !.conversion = c.conversion,
           !.pending = SubSeq(lhs, Len(Bytes(lhs, Size(c.conversion))) + 1, Len(lhs))],
      [c EXCEPT !.raw = raw[2], !.conversion = <<>>, !.pending = rhs, !.ambiguous = <<>>,
                !.cache = NPOS]>>
SplitConversion(c, raw, lhs, rhs) ==
    <<[CharChunk(c.t12r) EXCEPT !.raw = raw[1], !.conversion = lhs],
      [c EXCEPT !.raw = raw[2], !.cache = NPOS,
                !.conversion = IF Size(rhs) < Size(c.pending) THEN rhs
                               ELSE Bytes(rhs, Size(rhs) - Size(c.pending))]>>
SplitBy(c, d) ==
    IF Size(d.converted[1]) > Size(c.conversion)
    THEN SplitPending(c, d.raw, d.converted[1], d.converted[2])
    ELSE SplitConversion(c, d.raw, d.converted[1], d.converted[2])
SplitChunk(c, pos) == SplitBy(c, Split(c.t12r, pos, c.raw, c.conversion \o c.pending))
-----------------------------------------------------------------------------
(***************************************************************************)
(* Composition.  A position divides the chunks before chunk number         *)
(* right, where right may be one past the last.                            *)
(***************************************************************************)
GetPosition(t12r, cs, right) ==
    LET upTo[i \in 0..right - 1] == IF i = 0 THEN 0 ELSE upTo[i - 1] + LengthAs(t12r, cs[i])
    IN  upTo[right - 1]

GetLength(cs) == GetPosition("LOCAL", cs, Len(cs) + 1)
GetString(cs) ==
    LET upTo[i \in 0..Len(cs)] == IF i = 0 THEN <<>> ELSE upTo[i - 1] \o Text(cs[i])
    IN  upTo[Len(cs)]

\* The first chunk that reaches the position, or the end of the last one.
Within(t12r, cs, pos, reach) ==
    IF reach = {} THEN [i |-> Len(cs), inner |-> LengthAs(t12r, cs[Len(cs)])]
    ELSE [i |-> Min(reach), inner |-> pos - GetPosition(t12r, cs, Min(reach))]
GetChunkAt(t12r, cs, pos) ==
    Within(t12r, cs, pos, {i \in DOMAIN cs : pos <= GetPosition(t12r, cs, i + 1)})

SplitInto(cs, i, pair) == ReplaceAt(InsertAt(cs, i, pair[1]), i + 1, pair[2])
SplitWhere(cs, at) ==
    [cs |-> IF at.inner = Length(cs[at.i]) THEN cs
            ELSE SplitInto(cs, at.i, SplitChunk(cs[at.i], at.inner)),
     right |-> at.i + 1]
MaybeSplitChunkAt(cs, pos) ==
    IF pos = 0 THEN [cs |-> cs, right |-> 1] ELSE SplitWhere(cs, GetChunkAt("LOCAL", cs, pos))

\* GetInsertionChunk: afterwards the input goes to the chunk left of right.
GetInsertionChunk(d, t12r) ==
    IF d.right > 1 /\ IsAppendable(d.cs[d.right - 1], t12r) THEN d
    ELSE [cs |-> InsertAt(d.cs, d.right, CharChunk(t12r)), right |-> d.right + 1]

RECURSIVE CombinePendingChunks(_, _)
CombinePendingChunks(d, in) ==
    LET i == d.right - 1
        next_input == IF in.conversion # <<>> THEN in.conversion ELSE in.raw
    IN  IF i > 1 /\ IsConvertible(d.cs[i - 1], in.t12r, d.cs[i].pending \o next_input)
        THEN CombinePendingChunks(
                 [cs |-> RemoveAt(ReplaceAt(d.cs, i, Combine(d.cs[i], d.cs[i - 1])), i - 1),
                  right |-> i], in)
        ELSE d

RECURSIVE AddToChunks(_, _)
Added(d, in, s) ==
    IF s.input \o s.conversion = <<>>
    THEN [d EXCEPT !.cs = ReplaceAt(@, d.right - 1, s.c)]
    ELSE AddToChunks([cs |-> InsertAt(ReplaceAt(d.cs, d.right - 1, s.c), d.right, CharChunk(in.t12r)),
                      right |-> d.right + 1],
                     [in EXCEPT !.raw = s.input, !.conversion = s.conversion, !.new = FALSE])
AddToChunks(d, in) == Added(d, in, AddCompositionInput(d.cs[d.right - 1], in))

InsertInput(cs, pos, in) ==
    AddToChunks(CombinePendingChunks(GetInsertionChunk(MaybeSplitChunkAt(cs, pos), in.t12r), in), in)

\* DeleteAt takes chunks away until the text is shorter.  The position it answers,
\* that of the chunk right of it, is the one it was given.
RECURSIVE DeleteAtLoop(_, _, _)
DeleteRight_LastOfChunk(d, pos, size) ==
    IF d.right > Len(d.cs) THEN d.cs
    ELSE DeleteAtLoop(IF Length(d.cs[d.right]) <= 1 THEN RemoveAt(d.cs, d.right)
                      ELSE ReplaceAt(d.cs, d.right,
                                     SplitChunk(d.cs[d.right], Length(d.cs[d.right]) - 1)[1]),
                      pos, size)
DeleteRight(d, pos, size) ==
    IF d.right > Len(d.cs) THEN d.cs
    ELSE DeleteAtLoop(IF Length(d.cs[d.right]) <= 1 THEN RemoveAt(d.cs, d.right)
                      ELSE ReplaceAt(d.cs, d.right, SplitChunk(d.cs[d.right], 1)[2]),
                      pos, size)
DeleteAtLoop(cs, pos, size) ==
    IF cs = <<>> \/ GetLength(cs) # size THEN cs
    ELSE DeleteRight(MaybeSplitChunkAt(cs, pos), pos, size)

CompositionDeleteAt(cs, pos) == DeleteAtLoop(cs, pos, GetLength(cs))

SetTransliterator(cs, t12r) ==
    [i \in DOMAIN cs |-> [cs[i] EXCEPT !.t12r = t12r, !.cache = NPOS]]

\* A position inside a chunk stays as far inside, or at its end if that is nearer.
ConvertInside_EndInside(at, len_from, len_to) ==
    IF at.inner > len_to THEN len_to ELSE at.inner
ConvertInside(at, len_from, len_to) ==
    IF at.inner = 0 THEN 0
    ELSE IF at.inner = len_from \/ at.inner > len_to THEN len_to ELSE at.inner
ConvertAt(cs, from, to, at) ==
    GetPosition(to, cs, at.i)
        + ConvertInside(at, LengthAs(from, cs[at.i]), LengthAs(to, cs[at.i]))
ConvertPosition(cs, pos, from, to) ==
    IF from = to THEN pos
    ELSE IF cs = <<>> THEN 0
    ELSE ConvertAt(cs, from, to, GetChunkAt(from, cs, pos))
-----------------------------------------------------------------------------
(***************************************************************************)
(* Composer.  What a command leaves is shown at once, and showing it asks  *)
(* every chunk for its length: Shown fills the caches.                     *)
(***************************************************************************)
Shown(cs) == [i \in DOMAIN cs |-> [cs[i] EXCEPT !.cache = Length(cs[i])]]

EnableInsert == GetLength(chunks) < max_length

Enter(mode, comeback) ==
    [t12r |-> mode, new |-> TRUE, mode |-> mode, comeback |-> comeback, shifted |-> 0]
Current ==
    [t12r |-> input_t12r, new |-> is_new_input, mode |-> input_mode,
     comeback |-> comeback_input_mode, shifted |-> shifted_sequence_count]
Become(m) ==
    /\ input_t12r' = m.t12r
    /\ is_new_input' = m.new
    /\ input_mode' = m.mode
    /\ comeback_input_mode' = m.comeback
    /\ shifted_sequence_count' = m.shifted

\* SetInputMode and SetTemporaryInputMode.
SetInputMode(mode) == Enter(mode, mode)
SetTemporaryInputMode(mode) == Enter(mode, input_mode)

\* UpdateInputMode at a position of the composition.
T12rAt(cs, pos) == cs[GetChunkAt("LOCAL", cs, pos).i].t12r
FollowText(t12r) ==
    Enter(IF t12r = "CONVERSION_STRING" THEN comeback_input_mode ELSE t12r, comeback_input_mode)
UpdatedInputMode(cs, pos) ==
    IF /\ pos # 0 /\ update_input_mode
       /\ pos = GetLength(cs) \/ T12rAt(cs, pos) = T12rAt(cs, pos + 1)
    THEN FollowText(T12rAt(cs, pos))
    ELSE SetInputMode(comeback_input_mode)

\* ApplyTemporaryInputMode for a letter, shift_key_mode_switch being
\* ASCII_INPUT_MODE.  The count matters up to two.
ApplyTemporaryInputMode_Always(shift) ==
    IF shift THEN [SetTemporaryInputMode("HALF_ASCII") EXCEPT !.shifted = 1]
    ELSE [IF shifted_sequence_count > 1 THEN SetInputMode(comeback_input_mode) ELSE Current
             EXCEPT !.shifted = 0]
ApplyTemporaryInputMode(shift) ==
    IF shift
    THEN LET m == IF input_mode = "HALF_ASCII" THEN Current ELSE SetTemporaryInputMode("HALF_ASCII")
         IN  [m EXCEPT !.shifted = IF @ < 2 THEN @ + 1 ELSE @]
    ELSE [IF shifted_sequence_count > 1 THEN SetInputMode(comeback_input_mode) ELSE Current
             EXCEPT !.shifted = 0]
-----------------------------------------------------------------------------
Init ==
    /\ chunks = <<>>
    /\ position = 0
    /\ is_new_input = TRUE
    /\ input_t12r = "HIRAGANA" /\ input_mode = "HIRAGANA"
    /\ comeback_input_mode = "HIRAGANA" /\ chosen = "HIRAGANA"
    /\ shifted_sequence_count = 0
    /\ update_input_mode \in BOOLEAN
    /\ commands = 0

\* The mode in which InsertCharacterKeyEvent enters a key, and the mode after it:
\* a letter, with or without shift; a key string; a key string entered as it is.
ModeOf(key) ==
    CASE key.style = "ROMAJI" -> ApplyTemporaryInputMode(key.shift)
      [] key.style = "FOLLOW_MODE" -> Current
      [] key.style = "AS_IS" -> [Current EXCEPT !.t12r = "CONVERSION_STRING"]

ModeAfter(key) ==
    IF key.style = "AS_IS" THEN SetInputMode(comeback_input_mode)
    ELSE [ModeOf(key) EXCEPT !.new = FALSE]

InsertCharacterKeyEvent(key) ==
    /\ EnableInsert
    /\ \E d \in {InsertInput(chunks, position,
                             [raw |-> key.raw, conversion |-> key.conversion,
                              new |-> ModeOf(key).new, t12r |-> ModeOf(key).t12r])} :
           /\ chunks' = Shown(d.cs)
           /\ position' = GetPosition("LOCAL", d.cs, d.right)
    /\ Become(ModeAfter(key))
    /\ UNCHANGED <<update_input_mode, chosen>>

Delete ==
    /\ \E cs \in {CompositionDeleteAt(chunks, position)} :
           /\ chunks' = Shown(cs)
           /\ Become(UpdatedInputMode(cs, position))
    /\ UNCHANGED <<position, update_input_mode, chosen>>

\* The mode is that between the character deleted and the one before it.
Backspace ==
    /\ position > 0
    /\ chunks' = Shown(CompositionDeleteAt(chunks, position - 1))
    /\ position' = position - 1
    /\ Become(UpdatedInputMode(chunks, position - 1))
    /\ UNCHANGED <<update_input_mode, chosen>>

\* DeleteRange(0, length), which calls DeleteAt(0) for each character.
RECURSIVE DeleteFirst(_, _)
DeleteFirst(cs, length) ==
    IF length = 0 \/ GetLength(cs) = 0 THEN cs
    ELSE DeleteFirst(CompositionDeleteAt(cs, 0), length - 1)

DeleteRange(length) ==
    /\ length <= GetLength(chunks)
    /\ chunks' = Shown(DeleteFirst(chunks, length))
    /\ position' = IF position > length THEN position - length ELSE 0
    /\ UNCHANGED <<modes, update_input_mode, chosen>>

MoveCursorTo(new_position) ==
    /\ new_position <= GetLength(chunks)
    /\ position' = new_position
    /\ Become(UpdatedInputMode(chunks, new_position))
    /\ UNCHANGED <<chunks, update_input_mode, chosen>>

MoveCursorLeft == MoveCursorTo(IF position > 0 THEN position - 1 ELSE 0)
MoveCursorRight ==
    MoveCursorTo(IF position < GetLength(chunks) THEN position + 1 ELSE position)

\* MoveCursorToBeginning and MoveCursorToEnd.
MoveCursorToEdge(new_position) ==
    /\ new_position \in {0, GetLength(chunks)}
    /\ position' = new_position
    /\ Become(SetInputMode(comeback_input_mode))
    /\ UNCHANGED <<chunks, update_input_mode, chosen>>

\* SetOutputMode, the display of the whole text in another mode.
SetOutputMode(mode) ==
    /\ chunks' = Shown(SetTransliterator(chunks, mode))
    /\ position' = GetLength(SetTransliterator(chunks, mode))
    /\ UNCHANGED <<modes, update_input_mode, chosen>>

\* SetInputMode and ToggleInputMode at the user's command.
ChooseInputMode(mode) ==
    /\ Become(SetInputMode(mode))
    /\ chosen' = mode
    /\ UNCHANGED <<chunks, position, update_input_mode>>

ToggleInputMode ==
    ChooseInputMode(IF input_mode = "HIRAGANA" THEN "HALF_ASCII" ELSE "HIRAGANA")

\* EditErase, the first step of Reset.
EditErase ==
    /\ chunks' = <<>>
    /\ position' = 0
    /\ Become(SetInputMode(comeback_input_mode))
    /\ UNCHANGED <<update_input_mode, chosen>>

SetNewInput ==
    /\ is_new_input' = TRUE
    /\ UNCHANGED <<chunks, position, input_t12r, input_mode, comeback_input_mode,
                   shifted_sequence_count, update_input_mode, chosen>>

Command ==
    \/ \E key \in KeyEvents : InsertCharacterKeyEvent(key)
    \/ Delete
    \/ Backspace
    \/ \E length \in 1..max_length : DeleteRange(length)
    \/ \E new_position \in 0..max_length : MoveCursorTo(new_position)
    \/ MoveCursorLeft
    \/ MoveCursorRight
    \/ \E new_position \in {0, GetLength(chunks)} : MoveCursorToEdge(new_position)
    \/ \E mode \in OutputModes : SetOutputMode(mode)
    \/ \E mode \in InputModes : ChooseInputMode(mode)
    \/ ToggleInputMode
    \/ EditErase
    \/ SetNewInput

Next ==
    /\ commands < MaxCommands
    /\ commands' = commands + 1
    /\ Command

Spec == Init /\ [][Next]_vars
-----------------------------------------------------------------------------
(***************************************************************************)
(* Correctness.                                                            *)
(***************************************************************************)
Left == SubSeq(GetString(chunks), 1, position)
Right == SubSeq(GetString(chunks), position + 1, Len(GetString(chunks)))

\* What the table makes of pending letters: the result of the longest rule
\* they begin with, and the letters after it.
Fixed(pending) ==
    LET rules == {r \in Rules : IsPrefix(r.input, pending)}
        longest == {r \in rules : \A q \in rules : Len(q.input) <= Len(r.input)}
    IN  {r.result \o SubSeq(pending, Len(r.input) + 1, Len(pending)) : r \in longest}
        \cup (IF rules = {} THEN {pending} ELSE {})

\* What a chunk keeps beside its letters stays true to them, whatever was
\* typed, split, combined, deleted or displayed otherwise since: the cached
\* length is that of the text it shows (local_length_cache_), and the reading
\* sent to the converter is what the table makes of its pending letters
\* (ambiguous_).  The cursor stays within the text.
ChunksAreCurrent ==
    /\ \A i \in DOMAIN chunks :
          LET c == chunks[i]
          IN  /\ Text(c) # <<>>
              /\ c.cache = Len(Text(c))
              /\ c.ambiguous # <<>> => c.ambiguous \in Fixed(c.pending)
    /\ position <= Len(GetString(chunks))

\* An edit changes the text at the cursor only.  A step that changes the text is
\* a key, and whatever it makes of the letters before it, the text right of the
\* cursor is as before and the cursor is in front of it; or Backspace or Delete,
\* which take away the one character left or right of the cursor, though it may be
\* half of a chunk; or the commit of the first characters; or another display.
EditsAreLocal ==
    [][\/ Right' = Right /\ (Len(Left') >= Len(Left) \/ Left' = Front(Left))
       \/ Left' = Left /\ Right' = Tail(Right)
       \/ IsSuffix(GetString(chunks)', GetString(chunks))
       \/ [i \in DOMAIN chunks |-> <<chunks[i].raw, chunks[i].conversion, chunks[i].pending>>]'
           = [i \in DOMAIN chunks |-> <<chunks[i].raw, chunks[i].conversion, chunks[i].pending>>]
      ]_chunks

\* A temporary mode of the shift key never replaces the mode the user chose:
\* that mode is what the composer comes back to.  (With the mode taken from
\* the surrounding text, as on mobile devices, it may be another.)
ComesBackToChosenMode == ~update_input_mode => comeback_input_mode = chosen

\* Positions keep their order and both ends when they are taken from the text
\* shown to the text in another mode: GetTransliteratedText subtracts one
\* such position from another.
PositionsKeepOrder ==
    \A to \in OutputModes :
        \E at \in {[p \in 0..GetLength(chunks) |-> ConvertPosition(chunks, p, "LOCAL", to)]} :
            /\ \A p \in DOMAIN at \ {0} : at[p - 1] <= at[p]
            /\ at[0] = 0
            /\ at[GetLength(chunks)] = GetPosition(to, chunks, Len(chunks) + 1)
=============================================================================
