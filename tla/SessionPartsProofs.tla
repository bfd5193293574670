------------------------- MODULE SessionPartsProofs -------------------------
(***************************************************************************)
(* What the handlers of session.cc are made of: the methods of the         *)
(* converter (lemmas ...Facts, of an arbitrary converter and composer that *)
(* fit), and the helpers the handlers share.  A handler is followed step   *)
(* by step: Leads(s, u) says that u is what the handler, which started     *)
(* from s, has made of the session so far.  A lemma Leads... is about one  *)
(* step of a handler, and a lemma ...Step about how a handler ends.        *)
(***************************************************************************)
EXTENDS SessionInvariant, WellFoundedInduction, TLAPS

\* Nearly every leaf is first-order reasoning about named facts; the ones with
\* arithmetic, sequences or records to compute cite SMT.
USE ZenonT(30)

\* A set of natural numbers that is not empty has a least element.
LEMMA LeastNatural ==
    ASSUME NEW T, T \subseteq Nat, T # {}
    PROVE  \E n \in T : \A m \in T : n <= m
<1> DEFINE R == OpToRel(<, Nat)
<1>1. IsWellFoundedOn(R, Nat)
  BY NatLessThanWellFounded
<1>2. \A n, m \in Nat : n < m => <<n, m>> \in R
  BY DEF OpToRel
<1> HIDE DEF R
<1>3. PICK n \in T : \A m \in T : <<m, n>> \notin R
  BY <1>1, WFMin
<1>4. \A m \in T : ~(m < n)
  BY <1>2, <1>3
<1>5. QED
  BY SMT, <1>4

\* Induction up to k, for the set of the numbers a property holds of.
LEMMA InductionUpTo ==
    ASSUME NEW k \in Nat, NEW S, 0 \in S,
           \A n \in 1..k : n - 1 \in S => n \in S
    PROVE  \A n \in 0..k : n \in S
<1> DEFINE T == (0..k) \ S
<1>1. SUFFICES ASSUME T # {} PROVE FALSE
  OBVIOUS
<1>2. T \subseteq Nat
  BY SMT
<1>3. PICK n \in T : \A m \in T : n <= m
  BY <1>1, <1>2, LeastNatural
<1>4. n \in 1..k /\ n \notin S
  BY SMT
<1>5. n - 1 \in S
  BY SMT, <1>3, <1>4
<1>6. QED
  BY <1>4, <1>5

-----------------------------------------------------------------------------
(***************************************************************************)
(* The sum of the lengths of the segments.                                 *)
(***************************************************************************)
\* The equation of the function that Total computes by.
Sums(sum, keys) ==
    sum = [n \in 0..Len(keys) |-> IF n = 0 THEN 0 ELSE sum[n - 1] + keys[n]]

\* The equation has a solution, for every prefix of the segments.
LEMMA SumsExist ==
    ASSUME NEW keys \in Seq(Int)
    PROVE  \E sum : Sums(sum, keys)
<1>0. Len(keys) \in Nat
  BY SMT
<1> DEFINE SumUpTo(sum, k) ==
             \A n \in 0..k : sum[n] = IF n = 0 THEN 0 ELSE sum[n - 1] + keys[n]
           S == {k \in 0..Len(keys) : \E sum \in [0..k -> Int] : SumUpTo(sum, k)}
<1>1. 0 \in S
  <2> DEFINE none == [n \in 0..0 |-> 0]
  <2>1. none \in [0..0 -> Int] /\ SumUpTo(none, 0)
    BY SMT
  <2>2. 0 \in 0..Len(keys)
    BY SMT, <1>0
  <2>3. QED
    BY <2>1, <2>2
<1>2. ASSUME NEW k \in 1..Len(keys), k - 1 \in S
      PROVE  k \in S
  <2>1. PICK sum \in [0..(k - 1) -> Int] : SumUpTo(sum, k - 1)
    BY <1>2
  <2>2. keys[k] \in Int
    BY SMT
  <2> DEFINE longer == [n \in 0..k |-> IF n = k THEN sum[k - 1] + keys[k] ELSE sum[n]]
  <2>3. longer \in [0..k -> Int]
    BY SMT, <2>1, <2>2
  <2>4. SumUpTo(longer, k)
    BY SMTT(30), <2>1, <2>2
  <2> HIDE DEF longer, SumUpTo
  <2>5. QED
    BY SMT, <1>0, <2>3, <2>4
<1>3. Len(keys) \in S
  <2> HIDE DEF S
  <2>1. \A k \in 0..Len(keys) : k \in S
    BY <1>0, <1>1, <1>2, InductionUpTo
  <2>2. QED
    BY SMT, <1>0, <2>1
<1>4. PICK sum \in [0..Len(keys) -> Int] : SumUpTo(sum, Len(keys))
  BY <1>3
<1>5. sum = [n \in 0..Len(keys) |-> IF n = 0 THEN 0 ELSE sum[n - 1] + keys[n]]
  BY <1>4
<1>6. QED
  BY <1>5 DEF Sums

\* Total is the last of the partial sums of the lengths.
LEMMA TotalBySums ==
    ASSUME NEW keys \in Seq(Int)
    PROVE  \E sum \in [0..Len(keys) -> Int] :
              /\ SC!Total(keys) = sum[Len(keys)]
              /\ sum[0] = 0
              /\ \A n \in 1..Len(keys) : sum[n] = sum[n - 1] + keys[n]
<1>0. Len(keys) \in Nat
  BY SMT
<1> DEFINE sum == CHOOSE f : Sums(f, keys)
<1>1. Sums(sum, keys)
  BY SumsExist
<1>2. SC!Total(keys) = sum[Len(keys)]
  BY DEF SC!Total, Sums
<1> HIDE DEF sum
<1>3. /\ DOMAIN sum = 0..Len(keys)
      /\ sum[0] = 0
      /\ \A n \in 1..Len(keys) : sum[n] = sum[n - 1] + keys[n]
      /\ sum = [n \in 0..Len(keys) |-> sum[n]]
  BY SMT, <1>1 DEF Sums
<1>4. \A n \in 0..Len(keys) : sum[n] \in Int
  <2> DEFINE S == {n \in 0..Len(keys) : sum[n] \in Int}
  <2>1. 0 \in S
    BY SMT, <1>0, <1>3
  <2>2. ASSUME NEW n \in 1..Len(keys), n - 1 \in S PROVE n \in S
    <3>1. keys[n] \in Int /\ sum[n - 1] \in Int
      BY SMT, <2>2
    <3>2. sum[n] = sum[n - 1] + keys[n]
      BY <1>3
    <3>3. sum[n] \in Int
      BY SMT, <3>1, <3>2
    <3>4. QED
      BY SMT, <1>0, <3>3
  <2> HIDE DEF S
  <2>3. \A n \in 0..Len(keys) : n \in S
    BY <1>0, <2>1, <2>2, InductionUpTo
  <2>4. QED
    BY <2>3 DEF S
<1>5. QED
  BY <1>2, <1>3, <1>4

\* No segments have the length 0, one segment has its own length.
LEMMA TotalOfOne ==
    /\ SC!Total(<<>>) = 0
    /\ \A n \in Int : SC!Total(<<n>>) = n
<1>1. SC!Total(<<>>) = 0
  <2>1. <<>> \in Seq(Int) /\ Len(<<>>) = 0
    BY SMT
  <2>2. QED
    BY <2>1, TotalBySums
<1>2. ASSUME NEW n \in Int PROVE SC!Total(<<n>>) = n
  <2>1. <<n>> \in Seq(Int) /\ Len(<<n>>) = 1 /\ <<n>>[1] = n
    BY SMT
  <2>2. PICK sum \in [0..1 -> Int] :
              /\ SC!Total(<<n>>) = sum[1]
              /\ sum[0] = 0
              /\ \A i \in 1..1 : sum[i] = sum[i - 1] + <<n>>[i]
    BY <2>1, TotalBySums
  <2>3. QED
    BY SMT, <2>1, <2>2
<1>3. QED
  BY <1>1, <1>2

\* The elements of two sequences put together.
LEMMA ConcatElements ==
    ASSUME NEW s \in Seq(Int), NEW t \in Seq(Int)
    PROVE  /\ s \o t \in Seq(Int) /\ Len(s \o t) = Len(s) + Len(t)
           /\ \A i \in 1..Len(s) : (s \o t)[i] = s[i]
           /\ \A i \in 1..Len(t) : (s \o t)[Len(s) + i] = t[i]
<1>0. Len(s) \in Nat /\ Len(t) \in Nat
  BY SMT
<1> DEFINE u == s \o t
<1>1. /\ u \in Seq(Int) /\ Len(u) = Len(s) + Len(t)
      /\ \A i \in 1..Len(s) : u[i] = s[i]
      /\ \A i \in 1..Len(t) : u[Len(s) + i] = t[i]
  BY SMT
<1>2. QED
  BY <1>1

\* The length of two runs of segments is the sum of their lengths.
LEMMA TotalOfConcat ==
    ASSUME NEW s \in Seq(Int), NEW t \in Seq(Int)
    PROVE  SC!Total(s \o t) = SC!Total(s) + SC!Total(t)
<1>0. Len(s) \in Nat /\ Len(t) \in Nat
  BY SMT
<1> DEFINE u == s \o t
<1>1. /\ u \in Seq(Int) /\ Len(u) = Len(s) + Len(t)
      /\ \A i \in 1..Len(s) : u[i] = s[i]
      /\ \A i \in 1..Len(t) : u[Len(s) + i] = t[i]
  BY ConcatElements
<1> HIDE DEF u
<1>2. PICK a \in [0..Len(s) -> Int] :
            /\ SC!Total(s) = a[Len(s)] /\ a[0] = 0
            /\ \A n \in 1..Len(s) : a[n] = a[n - 1] + s[n]
  BY TotalBySums
<1>3. PICK b \in [0..Len(t) -> Int] :
            /\ SC!Total(t) = b[Len(t)] /\ b[0] = 0
            /\ \A n \in 1..Len(t) : b[n] = b[n - 1] + t[n]
  BY TotalBySums
<1>4. a[Len(s)] \in Int /\ \A n \in 1..Len(t) : b[n - 1] \in Int /\ t[n] \in Int
  <2>1. a[Len(s)] \in Int
    BY SMTT(20), <1>0
  <2>2. ASSUME NEW n \in 1..Len(t) PROVE t[n] \in Int
    BY SMT, <1>0
  <2>3. ASSUME NEW n \in 1..Len(t) PROVE b[n - 1] \in Int
    <3>1. n - 1 \in 0..Len(t)
      BY SMT, <1>0
    <3>2. QED
      BY <3>1
  <2>4. QED
    BY <2>1, <2>2, <2>3
<1>5. PICK c \in [0..Len(u) -> Int] :
            /\ SC!Total(u) = c[Len(u)] /\ c[0] = 0
            /\ \A n \in 1..Len(u) : c[n] = c[n - 1] + u[n]
  BY <1>1, TotalBySums
<1>6. \A n \in 0..Len(s) : c[n] = a[n]
  <2> DEFINE S == {n \in 0..Len(s) : c[n] = a[n]}
  <2>1. 0 \in S
    BY SMT, <1>0, <1>2, <1>5
  <2>2. ASSUME NEW n \in 1..Len(s), n - 1 \in S PROVE n \in S
    <3>1. c[n] = c[n - 1] + u[n] /\ a[n] = a[n - 1] + s[n] /\ u[n] = s[n]
      BY SMT, <1>1, <1>2, <1>5
    <3>2. QED
      BY SMT, <2>2, <3>1
  <2> HIDE DEF S
  <2>3. \A n \in 0..Len(s) : n \in S
    BY <1>0, <2>1, <2>2, InductionUpTo
  <2>4. QED
    BY <2>3 DEF S
<1>7. \A n \in 0..Len(t) : c[Len(s) + n] = a[Len(s)] + b[n]
  <2> DEFINE S == {n \in 0..Len(t) : c[Len(s) + n] = a[Len(s)] + b[n]}
  <2>1. 0 \in S
    <3>1. c[Len(s) + 0] = a[Len(s)] + b[0]
      BY SMT, <1>4, <1>0, <1>3, <1>6
    <3>2. QED
      BY SMT, <1>0, <3>1
  <2>2. ASSUME NEW n \in 1..Len(t), n - 1 \in S PROVE n \in S
    <3>1. /\ Len(s) + n \in 1..Len(u)
          /\ (Len(s) + n) - 1 = Len(s) + (n - 1)
      BY SMT, <1>0, <1>1
    <3>2. c[Len(s) + n] = c[Len(s) + (n - 1)] + u[Len(s) + n]
      BY <1>5, <3>1
    <3>3. u[Len(s) + n] = t[n] /\ b[n] = b[n - 1] + t[n]
      BY <1>1, <1>3
    <3>4. c[Len(s) + (n - 1)] = a[Len(s)] + b[n - 1]
      BY <2>2
    <3>5. c[Len(s) + n] = a[Len(s)] + b[n]
      BY SMTT(20), <1>4, <3>2, <3>3, <3>4
    <3>6. QED
      BY SMT, <1>0, <3>5
  <2> HIDE DEF S
  <2>3. \A n \in 0..Len(t) : n \in S
    BY <1>0, <2>1, <2>2, InductionUpTo
  <2>4. QED
    BY <2>3 DEF S
<1>8. QED
  <2>1. c[Len(s) + Len(t)] = a[Len(s)] + b[Len(t)]
    BY SMT, <1>0, <1>7
  <2>2. QED
    BY <1>1, <1>2, <1>3, <1>5, <2>1 DEF u

\* Lengths add up to a length.
LEMMA TotalIsNat ==
    ASSUME NEW keys \in Seq(Nat)
    PROVE  SC!Total(keys) \in Nat
<1>0. Len(keys) \in Nat /\ keys \in Seq(Int)
  BY SMT
<1>1. PICK sum \in [0..Len(keys) -> Int] :
            /\ SC!Total(keys) = sum[Len(keys)]
            /\ sum[0] = 0
            /\ \A n \in 1..Len(keys) : sum[n] = sum[n - 1] + keys[n]
  BY <1>0, TotalBySums
<1> DEFINE S == {n \in 0..Len(keys) : sum[n] \in Nat}
<1>2. 0 \in S
  BY SMT, <1>0, <1>1
<1>3. ASSUME NEW n \in 1..Len(keys), n - 1 \in S PROVE n \in S
  <2>1. sum[n - 1] \in Nat /\ keys[n] \in Nat /\ sum[n] = sum[n - 1] + keys[n]
    BY SMTT(30), <1>1, <1>3
  <2>2. sum[n] \in Nat
    BY SMT, <2>1
  <2>3. QED
    BY SMT, <1>0, <2>2
<1> HIDE DEF S
<1>4. \A n \in 0..Len(keys) : n \in S
  BY <1>0, <1>2, <1>3, InductionUpTo
<1>5. QED
  BY SMT, <1>0, <1>1, <1>4 DEF S

-----------------------------------------------------------------------------
(***************************************************************************)
(* What the methods of the converter return.                               *)
(***************************************************************************)
\* ResetState and ResetResult, which end every other method.
LEMMA ResetStateFacts ==
    ASSUME NEW c, WellFormed(c)
    PROVE  LET d == SC!ResetState(c)
               e == SC!ResetResult(c)
           IN  /\ WellFormed(d) /\ d.state = "COMPOSITION" /\ d.result = c.result
               /\ d.command = c.command /\ d.request = c.request /\ d.failed = c.failed
               /\ WellFormed(e) /\ e.state = c.state /\ e.keys = c.keys /\ e.result = <<>>
               /\ e.index = c.index /\ e.indices = c.indices
               /\ e.command = c.command /\ e.request = c.request /\ e.failed = c.failed
<1>1. WellFormed(SC!ResetState(c))
  <2> DEFINE d == SC!ResetState(c)
  <2>1. c \in ConverterType
    BY DEF WellFormed
  <2>0. <<>> \in Seq(Nat)
    BY SMT
  <2>2. d \in ConverterType
    BY <2>1, <2>0 DEF ConverterType, SC!ResetState
  <2>3. d.state = "COMPOSITION"
    BY <2>1 DEF ConverterType, SC!ResetState
  <2>4. QED
    BY <2>2, <2>3 DEF WellFormed
<1>2. WellFormed(SC!ResetResult(c))
  BY DEF WellFormed, ConverterType, Results, SC!ResetResult
<1>3. QED
  BY <1>1, <1>2 DEF WellFormed, ConverterType, SC!ResetState, SC!ResetResult

\* A failed DCHECK changes nothing else.
LEMMA FailedFacts ==
    ASSUME NEW c, WellFormed(c)
    PROVE  LET d == SC!Failed(c)
           IN  /\ WellFormed(d) /\ d.state = c.state /\ d.keys = c.keys
               /\ d.index = c.index /\ d.indices = c.indices /\ d.result = c.result
               /\ d.command = c.command /\ d.request = c.request
<1> DEFINE d == SC!Failed(c)
<1>1. d \in ConverterType
  BY DEF WellFormed, ConverterType, SC!Failed
<1>2. /\ d.state = c.state /\ d.keys = c.keys
      /\ d.index = c.index /\ d.indices = c.indices /\ d.result = c.result
      /\ d.command = c.command /\ d.request = c.request
  BY DEF WellFormed, ConverterType, SC!Failed
<1> HIDE DEF d
<1>3. WellFormed(d)
  BY <1>1, <1>2 DEF WellFormed
<1>4. QED
  BY <1>2, <1>3 DEF d

\* Every segment gets its candidate index.
LEMMA InitializeFacts ==
    ASSUME NEW c \in ConverterType
    PROVE  LET d == SC!InitializeSelectedCandidateIndices(c)
           IN  /\ d \in ConverterType /\ d.state = c.state /\ d.keys = c.keys
               /\ d.index = c.index /\ d.indices = Len(c.keys) /\ d.result = c.result
               /\ d.command = c.command /\ d.request = c.request /\ d.failed = c.failed
<1>1. Len(c.keys) \in Nat
  BY SMT DEF ConverterType
<1>2. PICK n \in Nat : n = Len(c.keys)
  BY <1>1
<1>3. SC!InitializeSelectedCandidateIndices(c) = [c EXCEPT !.indices = n]
  BY <1>2 DEF SC!InitializeSelectedCandidateIndices
<1>4. [c EXCEPT !.indices = n] \in ConverterType
  BY DEF ConverterType
<1>5. QED
  BY <1>2, <1>3, <1>4 DEF ConverterType

\* Reset and Cancel go back to COMPOSITION; a Cancel without a conversion fails
\* its DCHECK.
LEMMA ResetFacts ==
    ASSUME NEW c, WellFormed(c)
    PROVE  LET d == SC!Reset(c)
               e == SC!Cancel(c)
           IN  /\ WellFormed(d) /\ d.state = "COMPOSITION"
               /\ c.result = <<>> => d.result = <<>>
               /\ d.command = c.command /\ d.request = c.request /\ d.failed = c.failed
               /\ WellFormed(e) /\ e.state = "COMPOSITION"
               /\ c.result = <<>> => e.result = <<>>
               /\ e.command = c.command /\ e.request = c.request
               /\ SC!IsActive(c) => e.failed = c.failed /\ e.result = <<>>
<1>1. c \in ConverterType
  BY DEF WellFormed
<1>2. CASE c.state = "COMPOSITION"
  <2>1. SC!Reset(c) = c /\ SC!Cancel(c) = SC!Failed(c) /\ ~SC!IsActive(c)
    BY <1>2 DEF SC!Reset, SC!Cancel, SC!IsActive, SC!CheckState
  <2>2. QED
    BY <1>2, <2>1, FailedFacts
<1>3. CASE c.state # "COMPOSITION"
  <2>1. /\ SC!Reset(c) = SC!ResetState(SC!ResetResult(c))
        /\ SC!Cancel(c) = SC!ResetState(SC!ResetResult(c))
    BY <1>1, <1>3 DEF ConverterType, SC!Reset, SC!Cancel, SC!IsActive, SC!CheckState
  <2>2. QED
    BY SMT, <2>1, ResetStateFacts
<1>4. QED
  BY <1>2, <1>3

\* A split of the composition into segments.
LEMMA SplitFacts ==
    ASSUME NEW n \in 0..MaxLen, NEW k \in SC!Splits[n]
    PROVE  /\ k \in Seq(Nat) /\ SC!Total(k) = n
           /\ \A i \in 1..Len(k) : k[i] > 0
           /\ k # <<>> => n > 0
<1>1. PICK m \in 0..n : k \in [1..m -> 1..n]
  BY DEF SC!Splits
<1>2. SC!Total(k) = n
  BY DEF SC!Splits
<1>3. k \in Seq(1..n) /\ Len(k) = m
  BY SMT, <1>1
<1>4. k # <<>> => n > 0
  <2> SUFFICES ASSUME k # <<>> PROVE n > 0
    OBVIOUS
  <2>1. m >= 1
    BY SMT, <1>3
  <2>2. k[1] \in 1..n
    BY SMT, <1>1, <2>1
  <2>3. QED
    BY SMT, <2>2
<1>5. QED
  BY SMT, <1>1, <1>2, <1>3, <1>4

\* ConvertWithPreferences: the segments of a conversion that starts are the
\* composition, and it fails only for an empty one.
LEMMA ConvertFacts ==
    ASSUME NEW c, WellFormed(c), NEW comp \in ComposerType, ~EngineMayFail,
           NEW o \in SC!ConvertWithPreferences(c, comp)
    PROVE  /\ o.ok \in BOOLEAN
           /\ WellFormed(o.c)
           /\ o.c.command = c.command /\ o.c.request = c.request /\ o.c.result = c.result
           /\ o.ok => /\ o.c.state = "CONVERSION" /\ o.c.index = 0
                      /\ Covers(o.c, comp.len) /\ comp.len > 0
           /\ c.state # "PREDICTION" =>
                 /\ o.c.failed = c.failed
                 /\ ~o.ok => o.c.state = "COMPOSITION" /\ comp.len = 0
<1>1. c \in ConverterType
  BY DEF WellFormed
<1>2. CASE c.state = "PREDICTION"
  <2>1. o = SC!No(SC!Failed(c))
    BY <1>2 DEF SC!ConvertWithPreferences, SC!CheckState
  <2>2. o.ok = FALSE /\ o.c = SC!Failed(c)
    BY <2>1 DEF SC!No
  <2>3. QED
    BY <1>2, <2>2, FailedFacts
<1>3. CASE c.state # "PREDICTION" /\ o = SC!No(SC!ResetState(c)) /\ comp.len = 0
  <2>1. o.ok = FALSE /\ o.c = SC!ResetState(c)
    BY <1>3 DEF SC!No
  <2>2. /\ WellFormed(o.c) /\ o.c.state = "COMPOSITION" /\ o.c.result = c.result
        /\ o.c.command = c.command /\ o.c.request = c.request /\ o.c.failed = c.failed
    BY SMT, <2>1, ResetStateFacts
  <2>3. QED
    BY <1>3, <2>1, <2>2
<1>4. ASSUME c.state # "PREDICTION",
             NEW k \in SC!Splits[comp.len] \ {<<>>},
             o = SC!Yes(SC!InitializeSelectedCandidateIndices(
                     [c EXCEPT !.state = "CONVERSION", !.keys = k, !.index = 0]))
      PROVE  /\ o.ok /\ WellFormed(o.c)
             /\ o.c.command = c.command /\ o.c.request = c.request /\ o.c.result = c.result
             /\ o.c.state = "CONVERSION" /\ o.c.index = 0 /\ Covers(o.c, comp.len)
             /\ o.c.failed = c.failed /\ comp.len > 0
  <2>1. comp.len \in 0..MaxLen
    BY DEF ComposerType
  <2>2. /\ k \in Seq(Nat) /\ SC!Total(k) = comp.len /\ (\A i \in 1..Len(k) : k[i] > 0)
        /\ comp.len > 0
    BY <1>4, <2>1, SplitFacts
  <2>3. Len(k) \in Nat /\ Len(k) > 0
    BY SMT, <2>2, <1>4
  <2> DEFINE d == [c EXCEPT !.state = "CONVERSION", !.keys = k, !.index = 0]
  <2>4. /\ d \in ConverterType /\ d.state = "CONVERSION" /\ d.keys = k /\ d.index = 0
        /\ d.result = c.result /\ d.command = c.command /\ d.request = c.request
        /\ d.failed = c.failed
    BY <1>1, <2>2 DEF ConverterType
  <2>5. o.ok = TRUE /\ o.c = SC!InitializeSelectedCandidateIndices(d)
    BY <1>4 DEF SC!Yes
  <2> HIDE DEF d
  <2>6. /\ o.c \in ConverterType /\ o.c.state = "CONVERSION" /\ o.c.keys = k
        /\ o.c.index = 0 /\ o.c.indices = Len(k) /\ o.c.result = c.result
        /\ o.c.command = c.command /\ o.c.request = c.request /\ o.c.failed = c.failed
    BY <2>4, <2>5, InitializeFacts
  <2>7. WellFormed(o.c) /\ Covers(o.c, comp.len)
    BY SMT, <2>2, <2>3, <2>6 DEF WellFormed, Covers
  <2>8. QED
    BY <2>2, <2>5, <2>6, <2>7
<1>5. QED
  BY <1>1, <1>2, <1>3, <1>4 DEF SC!ConvertWithPreferences, SC!CheckState,
     ConverterType

\* A converter with one segment, the focused one.
LEMMA OneSegmentFacts ==
    ASSUME NEW c \in ConverterType, c.state \in {"SUGGESTION", "PREDICTION"},
           NEW n \in Nat, c.keys = <<n>>, c.index = 0
    PROVE  WellFormed(SC!InitializeSelectedCandidateIndices(c))
<1> DEFINE d == SC!InitializeSelectedCandidateIndices(c)
<1>1. Len(c.keys) = 1
  OBVIOUS
<1>2. /\ d \in ConverterType /\ d.state = c.state /\ d.keys = c.keys
      /\ d.index = c.index /\ d.indices = Len(c.keys)
  BY InitializeFacts
<1> HIDE DEF d
<1>3. WellFormed(d)
  BY SMT, <1>1, <1>2 DEF WellFormed
<1>4. QED
  BY <1>3 DEF d

\* SuggestWithPreferences: a result that waits to be output stays, and there
\* are suggestions for an empty composition only on request.
LEMMA SuggestFacts ==
    ASSUME NEW c, WellFormed(c), NEW comp \in ComposerType, comp.cursor <= comp.len,
           NEW o \in SC!SuggestWithPreferences(c, comp)
    PROVE  /\ o.ok \in BOOLEAN
           /\ WellFormed(o.c)
           /\ o.c.command = c.command /\ o.c.request = c.request /\ o.c.result = c.result
           /\ c.state \in {"COMPOSITION", "SUGGESTION"} =>
                 /\ o.c.failed = c.failed
                 /\ o.c.state \in {"COMPOSITION", "SUGGESTION"}
           /\ c.state \notin {"COMPOSITION", "SUGGESTION"} => o.c.state = c.state
<1> DEFINE r == SC!ResetState(c)
<1>1. /\ WellFormed(r) /\ r.state = "COMPOSITION" /\ r.result = c.result
      /\ r.command = c.command /\ r.request = c.request /\ r.failed = c.failed
  BY ResetStateFacts
<1>2. r.index = 0 /\ r \in ConverterType
  BY <1>1 DEF WellFormed, ConverterType, SC!ResetState
<1>3. CASE o = SC!No(SC!Failed(c)) /\ c.state \notin {"COMPOSITION", "SUGGESTION"}
  <2>1. o.ok = FALSE /\ o.c = SC!Failed(c)
    BY <1>3 DEF SC!No
  <2>2. QED
    BY <1>3, <2>1, FailedFacts
<1>4. CASE o = SC!No(r) /\ c.state \in {"COMPOSITION", "SUGGESTION"}
  <2>1. o.ok = FALSE /\ o.c = r
    BY <1>4 DEF SC!No
  <2> HIDE DEF r
  <2>2. QED
    BY <1>1, <1>4, <2>1
<1>5. ASSUME NEW n \in Nat,
             c.state \in {"COMPOSITION", "SUGGESTION"},
             o = SC!Yes(SC!InitializeSelectedCandidateIndices(
                         [r EXCEPT !.state = "SUGGESTION", !.keys = <<n>>]))
      PROVE  /\ o.ok \in BOOLEAN /\ WellFormed(o.c) /\ o.c.state = "SUGGESTION"
             /\ o.c.command = c.command /\ o.c.request = c.request
             /\ o.c.result = c.result /\ o.c.failed = c.failed
  <2> DEFINE d == [r EXCEPT !.state = "SUGGESTION", !.keys = <<n>>]
  <2> HIDE DEF r
  <2>1. <<n>> \in Seq(Nat)
    BY SMT
  <2>2. /\ d \in ConverterType /\ d.state = "SUGGESTION" /\ d.keys = <<n>> /\ d.index = 0
        /\ d.result = c.result /\ d.command = c.command /\ d.request = c.request
        /\ d.failed = c.failed
    BY <1>1, <1>2, <2>1 DEF ConverterType
  <2>3. o.ok = TRUE /\ o.c = SC!InitializeSelectedCandidateIndices(d)
    BY <1>5 DEF SC!Yes
  <2> HIDE DEF d
  <2>4. WellFormed(o.c)
    BY <2>2, <2>3, OneSegmentFacts
  <2>5. QED
    BY <2>2, <2>3, <2>4, InitializeFacts
<1>6. comp.len \in Nat /\ comp.cursor \in Nat
  BY SMT DEF ComposerType
<1> HIDE DEF r
<1>7. \/ o = SC!No(SC!Failed(c)) /\ c.state \notin {"COMPOSITION", "SUGGESTION"}
      \/ o = SC!No(r) /\ c.state \in {"COMPOSITION", "SUGGESTION"}
      \/ /\ c.state \in {"COMPOSITION", "SUGGESTION"}
         /\ \E n \in Nat : o = SC!Yes(SC!InitializeSelectedCandidateIndices(
                                 [r EXCEPT !.state = "SUGGESTION", !.keys = <<n>>]))
  BY <1>6 DEF SC!SuggestWithPreferences, SC!CheckState, r
<1>8. QED
  BY <1>3, <1>4, <1>5, <1>7

\* PredictWithPreferences succeeds when it goes on from suggestions.
LEMMA PredictFacts ==
    ASSUME NEW c, WellFormed(c), NEW comp \in ComposerType,
           NEW o \in SC!PredictWithPreferences(c, comp)
    PROVE  /\ o.ok \in BOOLEAN
           /\ WellFormed(o.c)
           /\ o.c.command = c.command /\ o.c.request = c.request
           /\ o.c.result = <<>> /\ o.c.failed = c.failed
           /\ o.ok => o.c.state = "PREDICTION"
           /\ ~o.ok => o.c.state = "COMPOSITION" /\ c.state = "COMPOSITION"
<1> DEFINE e == SC!ResetResult(c)
<1>1. /\ WellFormed(e) /\ e.state = c.state /\ e.keys = c.keys /\ e.result = <<>>
      /\ e.command = c.command /\ e.request = c.request /\ e.failed = c.failed
  BY ResetStateFacts
<1> HIDE DEF e
<1>2. CASE o = SC!No(SC!ResetState(e)) /\ c.state = "COMPOSITION"
  <2>1. o.ok = FALSE /\ o.c = SC!ResetState(e)
    BY <1>2 DEF SC!No
  <2>2. /\ WellFormed(o.c) /\ o.c.state = "COMPOSITION" /\ o.c.result = <<>>
        /\ o.c.command = c.command /\ o.c.request = c.request /\ o.c.failed = c.failed
    BY SMT, <1>1, <2>1, ResetStateFacts
  <2>3. QED
    BY <1>2, <2>1, <2>2
<1>3. ASSUME o = SC!Yes(SC!InitializeSelectedCandidateIndices(
                   [e EXCEPT !.state = "PREDICTION", !.keys = <<comp.len>>, !.index = 0]))
      PROVE  /\ o.ok = TRUE /\ WellFormed(o.c) /\ o.c.state = "PREDICTION"
             /\ o.c.command = c.command /\ o.c.request = c.request
             /\ o.c.result = <<>> /\ o.c.failed = c.failed
  <2> DEFINE d == [e EXCEPT !.state = "PREDICTION", !.keys = <<comp.len>>, !.index = 0]
  <2>1. comp.len \in Nat /\ <<comp.len>> \in Seq(Nat)
    BY SMT DEF ComposerType
  <2>2. /\ d \in ConverterType /\ d.state = "PREDICTION" /\ d.keys = <<comp.len>>
        /\ d.index = 0 /\ d.result = <<>> /\ d.command = c.command
        /\ d.request = c.request /\ d.failed = c.failed
    BY <1>1, <2>1 DEF WellFormed, ConverterType
  <2>3. o.ok = TRUE /\ o.c = SC!InitializeSelectedCandidateIndices(d)
    BY <1>3 DEF SC!Yes
  <2> HIDE DEF d
  <2>4. WellFormed(o.c)
    BY <2>1, <2>2, <2>3, OneSegmentFacts
  <2>5. QED
    BY <2>2, <2>3, <2>4, InitializeFacts
<1>4. \/ o = SC!No(SC!ResetState(e)) /\ c.state = "COMPOSITION"
      \/ o = SC!Yes(SC!InitializeSelectedCandidateIndices(
                   [e EXCEPT !.state = "PREDICTION", !.keys = <<comp.len>>, !.index = 0]))
  BY DEF SC!PredictWithPreferences, SC!CheckState, e
<1>5. QED
  BY <1>2, <1>3, <1>4

\* ExpandSuggestionWithPreferences keeps the state.
LEMMA ExpandFacts ==
    ASSUME NEW c, WellFormed(c), NEW comp \in ComposerType, ~EngineMayFail,
           c.state # "CONVERSION",
           NEW d \in SC!ExpandSuggestionWithPreferences(c, comp)
    PROVE  /\ WellFormed(d) /\ d.state = c.state
           /\ d.command = c.command /\ d.request = c.request /\ d.failed = c.failed
           /\ c.result = <<>> => d.result = <<>>
<1> DEFINE e == SC!ResetResult(c)
<1>1. /\ WellFormed(e) /\ e.state = c.state /\ e.keys = c.keys /\ e.result = <<>>
      /\ e.index = c.index /\ e.indices = c.indices
      /\ e.command = c.command /\ e.request = c.request /\ e.failed = c.failed
  BY ResetStateFacts
<1> HIDE DEF e
<1>2. comp.len \in Nat /\ comp.cursor \in Nat
  BY SMT DEF ComposerType
<1>3. \/ d = c
      \/ /\ c.state \in {"SUGGESTION", "PREDICTION"}
         /\ \E n \in Nat : d = [e EXCEPT !.keys = <<n>>, !.index = 0]
  BY <1>2 DEF SC!ExpandSuggestionWithPreferences, SC!CheckState, WellFormed,
     ConverterType, e
<1>4. ASSUME NEW n \in Nat, c.state \in {"SUGGESTION", "PREDICTION"},
             d = [e EXCEPT !.keys = <<n>>, !.index = 0]
      PROVE  /\ WellFormed(d) /\ d.state = c.state /\ d.result = <<>>
             /\ d.command = c.command /\ d.request = c.request /\ d.failed = c.failed
  <2>1. <<n>> \in Seq(Nat) /\ Len(<<n>>) = 1
    BY SMT
  <2>2. /\ d \in ConverterType /\ d.state = c.state /\ d.keys = <<n>> /\ d.index = 0
        /\ d.indices = c.indices /\ d.result = <<>>
        /\ d.command = c.command /\ d.request = c.request /\ d.failed = c.failed
    BY <1>1, <1>4, <2>1 DEF WellFormed, ConverterType
  <2>3. QED
    BY <1>4, <2>1, <2>2 DEF WellFormed
<1>5. QED
  BY <1>3, <1>4

\* Transliterate: a conversion of the composition as one segment.  What it
\* cancels, a prediction of nothing, is all that it may leave canceled.
LEMMA TransliterateFacts ==
    ASSUME NEW c, WellFormed(c), NEW comp \in ComposerType, Covers(c, comp.len),
           NEW resizes \in BOOLEAN, ~EngineMayFail,
           NEW o \in SC!Transliterate(c, comp, resizes)
    PROVE  /\ o.ok \in BOOLEAN
           /\ WellFormed(o.c)
           /\ o.c.command = c.command /\ o.c.request = c.request /\ o.c.failed = c.failed
           /\ c.result = <<>> => o.c.result = <<>>
           /\ o.ok => o.c.state = "CONVERSION" /\ Covers(o.c, comp.len)
           /\ ~o.ok => o.c.state = "COMPOSITION" /\ comp.len = 0
<1> DEFINE d == IF SC!CheckState(c, {"PREDICTION"}) THEN SC!Cancel(c) ELSE c
           Merge(e) == [e EXCEPT !.keys = <<SC!Total(@)>>,
                                 !.indices = IF resizes THEN 1 ELSE @]
<1>1. /\ WellFormed(d) /\ d.state \in {"COMPOSITION", "SUGGESTION", "CONVERSION"}
      /\ d.command = c.command /\ d.request = c.request /\ d.failed = c.failed
      /\ c.result = <<>> => d.result = <<>>
      /\ Covers(d, comp.len)
  <2>1. CASE c.state = "PREDICTION"
    <3>1. d = SC!Cancel(c) /\ SC!IsActive(c)
      BY <2>1 DEF SC!CheckState, SC!IsActive
    <3> HIDE DEF d
    <3>2. QED
      BY <3>1, ResetFacts DEF Covers
  <2>2. CASE c.state # "PREDICTION"
    <3>1. d = c
      BY <2>2 DEF SC!CheckState
    <3> HIDE DEF d
    <3>2. QED
      BY <2>2, <3>1 DEF WellFormed, ConverterType
  <2>3. QED
    BY <2>1, <2>2
<1> HIDE DEF d
<1>2. CASE d.state = "CONVERSION"
  <2>1. o = SC!Yes(d)
    BY <1>2 DEF SC!Transliterate, SC!CheckState, d
  <2>2. o.ok = TRUE /\ o.c = d
    BY <2>1 DEF SC!Yes
  <2>3. QED
    BY <1>1, <1>2, <2>2
<1>3. CASE d.state # "CONVERSION"
  <2>1. PICK p \in SC!ConvertWithPreferences(d, comp) :
               o = IF p.ok THEN SC!Yes(Merge(p.c)) ELSE p
    BY <1>1, <1>3 DEF SC!Transliterate, SC!CheckState, d
  <2>2. /\ p.ok \in BOOLEAN /\ WellFormed(p.c)
        /\ p.c.command = d.command /\ p.c.request = d.request /\ p.c.result = d.result
        /\ p.ok => /\ p.c.state = "CONVERSION" /\ p.c.index = 0
                   /\ Covers(p.c, comp.len) /\ comp.len > 0
        /\ p.c.failed = d.failed
        /\ ~p.ok => p.c.state = "COMPOSITION" /\ comp.len = 0
    BY <1>1, <1>3, ConvertFacts
  <2>3. CASE ~p.ok
    BY <1>1, <2>1, <2>2, <2>3
  <2>4. CASE p.ok
    <3> DEFINE e == p.c
               m == Merge(e)
    <3>1. /\ e \in ConverterType /\ e.state = "CONVERSION" /\ SC!Total(e.keys) = comp.len
          /\ e.keys \in Seq(Nat) /\ e.index = 0 /\ e.index < Len(e.keys) /\ e.indices >= Len(e.keys)
          /\ \A i \in 1..Len(e.keys) : e.keys[i] > 0
      BY <2>2, <2>4 DEF WellFormed, ConverterType, Covers
    <3>2. PICK n \in Nat : n = comp.len
      BY SMT DEF ComposerType
    <3>3. <<n>> \in Seq(Nat) /\ Len(<<n>>) = 1 /\ <<n>>[1] = n
      BY SMT
    <3>4. PICK k \in Nat : k = IF resizes THEN 1 ELSE e.indices
      BY <3>1 DEF ConverterType
    <3>5. o.ok = TRUE /\ o.c = m
      BY <2>1, <2>4 DEF SC!Yes
    <3> HIDE DEF e
    <3>6. m = [e EXCEPT !.keys = <<n>>, !.indices = k]
      BY <3>1, <3>2, <3>4
    <3> HIDE DEF m
    <3>7. /\ m \in ConverterType /\ m.state = "CONVERSION" /\ m.keys = <<n>>
          /\ m.index = e.index /\ m.indices = k /\ m.result = e.result
          /\ m.command = e.command /\ m.request = e.request /\ m.failed = e.failed
      BY <3>1, <3>3, <3>6 DEF ConverterType
    <3>8. n > 0 /\ k >= 1 /\ SC!Total(<<n>>) = n
      BY SMTT(30), <2>2, <2>4, <3>1, <3>2, <3>4, TotalOfOne
    <3>9. WellFormed(m) /\ Covers(m, comp.len)
      BY SMTT(30), <3>1, <3>2, <3>3, <3>7, <3>8 DEF WellFormed, Covers
    <3>10. QED
      BY <1>1, <2>2, <3>5, <3>7, <3>9 DEF e
  <2>5. QED
    BY <2>2, <2>3, <2>4
<1>4. QED
  BY <1>2, <1>3

\* ConvertToHalfWidth cancels a prediction first.
LEMMA HalfWidthFacts ==
    ASSUME NEW c, WellFormed(c), NEW comp \in ComposerType, Covers(c, comp.len),
           ~EngineMayFail,
           NEW o \in SC!ConvertToTransliteration(c, comp) \cup SC!SwitchKanaType(c, comp)
                     \cup SC!ConvertToHalfWidth(c, comp)
    PROVE  /\ o.ok \in BOOLEAN
           /\ WellFormed(o.c)
           /\ o.c.command = c.command /\ o.c.request = c.request /\ o.c.failed = c.failed
           /\ c.result = <<>> => o.c.result = <<>>
           /\ o.ok => o.c.state = "CONVERSION" /\ Covers(o.c, comp.len)
           /\ ~o.ok => o.c.state = "COMPOSITION" /\ comp.len = 0
<1>1. CASE o \in SC!ConvertToTransliteration(c, comp)
  BY <1>1, TransliterateFacts DEF SC!ConvertToTransliteration
<1>2. CASE o \in SC!SwitchKanaType(c, comp)
  BY <1>2, TransliterateFacts DEF SC!SwitchKanaType
<1>3. CASE o \in SC!ConvertToHalfWidth(c, comp) /\ c.state # "PREDICTION"
  <2>1. o \in SC!Transliterate(c, comp, TRUE)
    BY <1>3 DEF SC!ConvertToHalfWidth, SC!ConvertToTransliteration, SC!CheckState
  <2>2. QED
    BY <2>1, TransliterateFacts
<1>4. CASE o \in SC!ConvertToHalfWidth(c, comp) /\ c.state = "PREDICTION"
  <2>1. o \in SC!Transliterate(SC!Cancel(c), comp, TRUE)
    BY <1>4 DEF SC!ConvertToHalfWidth, SC!ConvertToTransliteration, SC!CheckState
  <2> DEFINE d == SC!Cancel(c)
  <2>2. SC!IsActive(c)
    BY <1>4 DEF SC!IsActive, SC!CheckState
  <2>3. /\ WellFormed(d) /\ d.state = "COMPOSITION" /\ d.result = <<>>
        /\ d.command = c.command /\ d.request = c.request /\ d.failed = c.failed
    BY <2>2, ResetFacts
  <2> HIDE DEF d
  <2>4. Covers(d, comp.len)
    BY <2>3 DEF Covers
  <2>5. o \in SC!Transliterate(d, comp, TRUE)
    BY <2>1 DEF d
  <2>6. QED
    BY <2>3, <2>4, <2>5, TransliterateFacts
<1>5. QED
  BY <1>1, <1>2, <1>3, <1>4

\* What a candidate consumes of the key is not more than the key.
LEMMA ConsumedFacts ==
    ASSUME NEW c, WellFormed(c), NEW comp \in ComposerType, comp.cursor <= comp.len,
           NEW n \in SC!ConsumedSizes(c, comp)
    PROVE  /\ n \in 0..comp.len
           /\ ~c.request.partial /\ ~c.request.mixed => n = comp.len
BY SMT DEF SC!ConsumedSizes, SC!Inside, ComposerType

\* Performed: the command of a candidate is output instead of a result.
LEMMA PerformedFacts ==
    ASSUME NEW c, WellFormed(c), SC!IsActive(c)
    PROVE  LET d == SC!Performed(c)
           IN  /\ WellFormed(d) /\ d.state = "COMPOSITION" /\ d.result = <<>>
               /\ d.command = TRUE /\ d.request = c.request /\ d.failed = c.failed
<1> DEFINE e == SC!Cancel(c)
           d == [e EXCEPT !.command = TRUE]
<1>1. /\ WellFormed(e) /\ e.state = "COMPOSITION" /\ e.result = <<>>
      /\ e.request = c.request /\ e.failed = c.failed
  BY ResetFacts
<1> HIDE DEF e
<1>2. /\ d \in ConverterType /\ d.state = "COMPOSITION" /\ d.result = <<>>
      /\ d.command = TRUE /\ d.request = c.request /\ d.failed = c.failed
  BY <1>1 DEF WellFormed, ConverterType
<1> HIDE DEF d
<1>3. WellFormed(d)
  BY <1>2 DEF WellFormed
<1>4. QED
  BY <1>2, <1>3 DEF SC!Performed, d, e

\* A result replaces the one before it.
LEMMA ResultFacts ==
    ASSUME NEW c, WellFormed(c), NEW n \in Nat
    PROVE  LET d == [c EXCEPT !.result = <<n>>]
           IN  /\ WellFormed(d) /\ d.state = c.state /\ d.keys = c.keys
               /\ d.index = c.index /\ d.indices = c.indices /\ d.result = <<n>>
               /\ d.command = c.command /\ d.request = c.request /\ d.failed = c.failed
<1> DEFINE d == [c EXCEPT !.result = <<n>>]
<1>1. <<n>> \in Results
  BY DEF Results
<1>2. /\ d \in ConverterType /\ d.state = c.state /\ d.keys = c.keys
      /\ d.index = c.index /\ d.indices = c.indices /\ d.result = <<n>>
      /\ d.command = c.command /\ d.request = c.request /\ d.failed = c.failed
  BY <1>1 DEF WellFormed, ConverterType
<1> HIDE DEF d
<1>3. WellFormed(d)
  BY <1>2 DEF WellFormed
<1>4. QED
  BY <1>2, <1>3 DEF d

\* Commit: either the command of a candidate is performed, or the result is
\* what the candidates consume of the composition.
LEMMA CommitFacts ==
    ASSUME NEW c, WellFormed(c), NEW comp \in ComposerType, comp.cursor <= comp.len,
           Covers(c, comp.len),
           NEW d \in SC!Commit(c, comp)
    PROVE  /\ WellFormed(d) /\ d.request = c.request
           /\ c.state \in {"COMPOSITION", "SUGGESTION"} =>
                 d.state = c.state /\ d.result = c.result
           /\ c.state \in {"PREDICTION", "CONVERSION"} =>
                 /\ d.state = "COMPOSITION" /\ d.failed = c.failed
                 /\ \/ d.command = TRUE
                    \/ \E n \in 0..comp.len :
                          d.result = <<n>> /\ (Whole(c) => n = comp.len)
<1>1. CASE c.state \in {"COMPOSITION", "SUGGESTION"}
  <2>1. d = SC!Failed(c)
    BY <1>1 DEF SC!Commit, SC!CheckState
  <2>2. QED
    BY <1>1, <2>1, FailedFacts
<1>2. CASE c.state \in {"PREDICTION", "CONVERSION"} /\ d = SC!Performed(c)
  <2>1. SC!IsActive(c)
    BY <1>2 DEF SC!IsActive, SC!CheckState
  <2>2. QED
    BY <1>2, <2>1, PerformedFacts
<1>3. ASSUME c.state \in {"PREDICTION", "CONVERSION"},
             NEW n \in 0..comp.len, Whole(c) => n = comp.len,
             d = SC!ResetState([c EXCEPT !.result = <<n>>])
      PROVE  /\ WellFormed(d) /\ d.request = c.request /\ d.state = "COMPOSITION"
             /\ d.failed = c.failed /\ d.result = <<n>>
  <2>1. n \in Nat
    BY SMT DEF ComposerType
  <2> DEFINE e == [c EXCEPT !.result = <<n>>]
  <2>2. WellFormed(e) /\ e.result = <<n>> /\ e.request = c.request /\ e.failed = c.failed
    BY <2>1, ResultFacts
  <2> HIDE DEF e
  <2>3. d = SC!ResetState(e)
    BY <1>3 DEF e
  <2>4. QED
    BY <2>2, <2>3, ResetStateFacts
<1>4. c.state \in {"PREDICTION", "CONVERSION"} =>
         \/ d = SC!Performed(c)
         \/ \E n \in 0..comp.len :
               (Whole(c) => n = comp.len) /\ d = SC!ResetState([c EXCEPT !.result = <<n>>])
  <2>1. comp.len \in Nat
    BY SMT DEF ComposerType
  <2>2. \A n \in SC!ConsumedSizes(c, comp) : n \in 0..comp.len /\ (Whole(c) => n = comp.len)
    BY ConsumedFacts DEF Whole
  <2>3. c.state = "CONVERSION" => SC!Total(c.keys) = comp.len
    BY DEF Covers
  <2>4. CASE c.state = "PREDICTION"
    <3>1. \/ d = SC!Performed(c)
          \/ \E n \in SC!ConsumedSizes(c, comp) : d = SC!ResetState([c EXCEPT !.result = <<n>>])
      BY <2>4 DEF SC!Commit, SC!CheckState
    <3>2. QED
      BY <2>2, <3>1
  <2>5. CASE c.state = "CONVERSION"
    <3>1. d = SC!Performed(c) \/ d = SC!ResetState([c EXCEPT !.result = <<SC!Total(c.keys)>>])
      BY <2>5 DEF SC!Commit, SC!CheckState
    <3>2. comp.len \in 0..comp.len
      BY SMT, <2>1
    <3>3. QED
      BY <2>3, <2>5, <3>1, <3>2
  <2>6. QED
    BY <2>4, <2>5
<1>5. c.state \in {"COMPOSITION", "SUGGESTION", "PREDICTION", "CONVERSION"}
  BY DEF WellFormed, ConverterType
<1>6. QED
  BY <1>1, <1>2, <1>3, <1>4, <1>5

\* A sequence is what it is cut into.
LEMMA CutInTwo ==
    ASSUME NEW keys \in Seq(Nat), NEW k \in 0..Len(keys)
    PROVE  LET first == SubSeq(keys, 1, k)
               rest == SubSeq(keys, k + 1, Len(keys))
           IN  /\ first \in Seq(Nat) /\ Len(first) = k
               /\ \A i \in 1..k : first[i] = keys[i]
               /\ rest \in Seq(Nat) /\ Len(rest) = Len(keys) - k
               /\ \A i \in 1..(Len(keys) - k) : rest[i] = keys[k + i]
               /\ first \o rest = keys
<1> DEFINE first == SubSeq(keys, 1, k)
           m == k + 1
           n == Len(keys)
           rest == SubSeq(keys, m, n)
           all == first \o rest
<1>0. /\ m \in Nat /\ n \in Nat /\ m >= 1 /\ m <= n + 1 /\ n = Len(keys) /\ m = k + 1
      /\ k \in Nat
  BY SMT
<1>1. /\ first \in Seq(Nat) /\ Len(first) = k
      /\ \A i \in 1..k : first[i] = keys[i]
  BY SMT, <1>0
<1> HIDE DEF m, n
<1>2. rest \in Seq(Nat) /\ Len(rest) = 1 + n - m
  BY SMT, <1>0
<1>3. \A i \in 1..(1 + n - m) : rest[i] = keys[i + m - 1]
  BY SMT, <1>0
<1> HIDE DEF first, rest
<1>4. Len(rest) = n - k /\ \A i \in 1..(n - k) : rest[i] = keys[k + i]
  BY SMT, <1>0, <1>2, <1>3
<1>5. all \in Seq(Nat) /\ Len(all) = n
  BY SMT, <1>0, <1>1, <1>2, <1>4
<1>6. /\ \A i \in 1..Len(first) : all[i] = first[i]
      /\ \A i \in 1..Len(rest) : all[Len(first) + i] = rest[i]
  <2>1. first \in Seq(Int) /\ rest \in Seq(Int)
    BY SMT, <1>1, <1>2
  <2>2. QED
    BY <2>1, ConcatElements
<1> HIDE DEF all
<1>7. ASSUME NEW i \in 1..n PROVE all[i] = keys[i]
  <2>1. CASE i <= k
    BY SMT, <1>0, <1>1, <1>6, <2>1
  <2>2. CASE i > k
    <3>1. i - k \in 1..(n - k) /\ k + (i - k) = i
      BY SMT, <1>0, <2>2
    <3>2. all[k + (i - k)] = rest[i - k] /\ rest[i - k] = keys[k + (i - k)]
      BY <1>1, <1>4, <1>6, <3>1
    <3>3. QED
      BY <3>1, <3>2
  <2>3. QED
    BY SMT, <1>0, <2>1, <2>2
<1>8. all = keys
  <2>1. all = [i \in 1..n |-> all[i]] /\ keys = [i \in 1..n |-> keys[i]]
    BY SMT, <1>0, <1>5
  <2>2. [i \in 1..n |-> all[i]] = [i \in 1..n |-> keys[i]]
    BY <1>7
  <2>3. QED
    BY <2>1, <2>2
<1>9. QED
  BY <1>0, <1>1, <1>2, <1>4, <1>8 DEF all, first, rest, m, n

\* The lengths of the first segments and of the others add up.
LEMMA SplitAt ==
    ASSUME NEW keys \in Seq(Nat), NEW k \in 0..Len(keys)
    PROVE  LET first == SubSeq(keys, 1, k)
               rest  == SubSeq(keys, k + 1, Len(keys))
           IN  /\ first \in Seq(Nat) /\ Len(first) = k
               /\ rest \in Seq(Nat) /\ Len(rest) = Len(keys) - k
               /\ \A i \in 1..k : first[i] = keys[i]
               /\ \A i \in 1..(Len(keys) - k) : rest[i] = keys[k + i]
               /\ SC!Total(keys) = SC!Total(first) + SC!Total(rest)
               /\ SC!Total(first) \in Nat /\ SC!Total(rest) \in Nat
<1> DEFINE first == SubSeq(keys, 1, k)
           rest  == SubSeq(keys, k + 1, Len(keys))
<1>1. /\ first \in Seq(Nat) /\ Len(first) = k
      /\ \A i \in 1..k : first[i] = keys[i]
      /\ rest \in Seq(Nat) /\ Len(rest) = Len(keys) - k
      /\ \A i \in 1..(Len(keys) - k) : rest[i] = keys[k + i]
      /\ first \o rest = keys
  BY CutInTwo
<1> HIDE DEF first, rest
<1>4. first \in Seq(Int) /\ rest \in Seq(Int)
  BY SMT, <1>1
<1>5. SC!Total(keys) = SC!Total(first) + SC!Total(rest)
  BY <1>1, <1>4, TotalOfConcat
<1>6. QED
  BY <1>1, <1>5, TotalIsNat DEF first, rest

\* CommitSegmentsInternal: all segments are committed, or the first ones, and
\* then the segments that are left are what is left of the composition once
\* the size that is returned is taken out of it.
LEMMA CommitSegmentsFacts ==
    ASSUME NEW c, WellFormed(c), NEW comp \in ComposerType, comp.cursor <= comp.len,
           Covers(c, comp.len),
           NEW k \in {1, c.index + 1},
           NEW o \in SC!CommitSegmentsInternal(c, comp, k)
    PROVE  /\ WellFormed(o.c) /\ o.c.request = c.request
           /\ o.size \in 0..comp.len
           /\ c.state \in {"COMPOSITION", "SUGGESTION"} =>
                 o.size = 0 /\ o.c.state = c.state /\ o.c.result = c.result
           /\ c.state \in {"PREDICTION", "CONVERSION"} =>
                 /\ o.c.failed = c.failed
                 /\ \/ /\ o.c.state = "COMPOSITION" /\ o.size = 0
                       /\ \/ o.c.command = TRUE
                          \/ \E n \in 0..comp.len :
                                o.c.result = <<n>> /\ (Whole(c) => n = comp.len)
                    \/ /\ o.c.state = "CONVERSION" /\ Covers(o.c, comp.len - o.size)
                       /\ c.state = "CONVERSION" /\ o.c.result = <<o.size>>
<1>0. /\ comp.len \in Nat /\ c \in ConverterType /\ c.index \in Nat
      /\ k \in Nat /\ k > 0 /\ k <= c.index + 1
  <2>1. comp.len \in Nat /\ c \in ConverterType
    BY SMT DEF ComposerType, WellFormed
  <2>2. c.index \in Nat
    BY <2>1 DEF ConverterType
  <2>3. k = 1 \/ k = c.index + 1
    OBVIOUS
  <2>4. QED
    BY SMT, <2>1, <2>2, <2>3
<1>1. CASE c.state \in {"COMPOSITION", "SUGGESTION"}
  <2>1. o = [size |-> 0, c |-> SC!Failed(c)]
    BY <1>1 DEF SC!CommitSegmentsInternal, SC!CheckState
  <2>2. o.size = 0 /\ o.c = SC!Failed(c)
    BY <2>1
  <2>3. QED
    BY SMT, <1>0, <1>1, <2>2, FailedFacts
<1>2. CASE /\ c.state \in {"PREDICTION", "CONVERSION"}
           /\ \E d \in SC!Commit(c, comp) : o = [size |-> 0, c |-> d]
  <2>1. PICK d \in SC!Commit(c, comp) : o = [size |-> 0, c |-> d]
    BY <1>2
  <2>2. o.size = 0 /\ o.c = d
    BY <2>1
  <2>3. /\ WellFormed(d) /\ d.request = c.request
        /\ d.state = "COMPOSITION" /\ d.failed = c.failed
        /\ \/ d.command = TRUE
           \/ \E n \in 0..comp.len : d.result = <<n>> /\ (Whole(c) => n = comp.len)
    BY <1>2, CommitFacts
  <2>4. 0 \in 0..comp.len
    BY SMT, <1>0
  <2>5. c.state \notin {"COMPOSITION", "SUGGESTION"}
    BY <1>2
  <2>6. QED
    BY <2>2, <2>3, <2>4, <2>5
<1>3. CASE c.state \in {"PREDICTION", "CONVERSION"} /\ o = [size |-> 0, c |-> SC!Performed(c)]
  <2>1. o.size = 0 /\ o.c = SC!Performed(c)
    BY <1>3
  <2>2. SC!IsActive(c)
    BY <1>3 DEF SC!IsActive, SC!CheckState
  <2>3. LET d == SC!Performed(c)
        IN  /\ WellFormed(d) /\ d.state = "COMPOSITION"
            /\ d.command = TRUE /\ d.request = c.request /\ d.failed = c.failed
    BY <2>2, PerformedFacts
  <2>4. 0 \in 0..comp.len
    BY SMT, <1>0
  <2>5. c.state \notin {"COMPOSITION", "SUGGESTION"}
    BY <1>3
  <2>6. QED
    BY <2>1, <2>3, <2>4, <2>5
<1> DEFINE size == SC!Total(SubSeq(c.keys, 1, k))
           rest == SubSeq(c.keys, k + 1, Len(c.keys))
           left == [c EXCEPT !.result = <<size>>,
                             !.keys = SubSeq(@, k + 1, Len(@)),
                             !.indices = @ - k,
                             !.index = IF @ > k THEN @ - k ELSE 0]
<1>4. CASE /\ c.state \in {"PREDICTION", "CONVERSION"} /\ Len(c.keys) # k
           /\ o = [size |-> size, c |-> left]
  <2>0. c.keys \in Seq(Nat) /\ c.indices \in Nat
    BY <1>0 DEF ConverterType
  <2>a. Len(c.keys) \in Nat
    BY SMT, <2>0
  <2>b. c.state # "PREDICTION"
    <3>1. SUFFICES ASSUME c.state = "PREDICTION" PROVE FALSE
      OBVIOUS
    <3>2. Len(c.keys) = 1 /\ c.index = 0
      BY <3>1 DEF WellFormed
    <3>3. k = 1
      BY SMT, <3>2
    <3>4. QED
      BY <1>4, <3>2, <3>3
  <2>1. /\ c.state = "CONVERSION" /\ c.keys \in Seq(Nat) /\ Len(c.keys) \in Nat
        /\ c.index < Len(c.keys) /\ c.indices >= Len(c.keys) /\ c.indices \in Nat
        /\ \A i \in 1..Len(c.keys) : c.keys[i] > 0
    BY <1>4, <2>0, <2>a, <2>b DEF WellFormed
  <2>2. k \in 0..Len(c.keys) /\ k < Len(c.keys)
    BY SMT, <1>0, <1>4, <2>1
  <2>3. /\ rest \in Seq(Nat) /\ Len(rest) = Len(c.keys) - k
        /\ \A i \in 1..(Len(c.keys) - k) : rest[i] = c.keys[k + i]
        /\ comp.len = size + SC!Total(rest)
        /\ size \in Nat /\ SC!Total(rest) \in Nat
    BY <2>1, <2>2, SplitAt DEF Covers
  <2>4. ASSUME NEW i \in 1..Len(rest) PROVE rest[i] > 0
    <3> HIDE DEF rest
    <3>1. k \in Nat /\ Len(c.keys) \in Nat /\ Len(rest) = Len(c.keys) - k
      BY <1>0, <2>1, <2>3
    <3>2. i \in 1..(Len(c.keys) - k) /\ k + i \in 1..Len(c.keys)
      BY SMT, <3>1
    <3>3. QED
      BY <2>1, <2>3, <3>2
  <2>5. PICK m \in Nat : m = c.indices - k
    BY SMT, <1>0, <2>1, <2>2
  <2>6. PICK i \in Nat : i = IF c.index > k THEN c.index - k ELSE 0
    BY SMT, <1>0
  <2>7. o.size = size /\ o.c = left
    BY <1>4
  <2> HIDE DEF size, rest
  <2>8. left = [c EXCEPT !.result = <<size>>, !.keys = rest, !.indices = m, !.index = i]
    BY <2>5, <2>6 DEF rest
  <2>9. <<size>> \in Results
    BY <2>3 DEF Results
  <2>10. /\ left \in ConverterType /\ left.state = "CONVERSION" /\ left.keys = rest
         /\ left.index = i /\ left.indices = m /\ left.result = <<size>>
         /\ left.request = c.request /\ left.failed = c.failed
    <3> HIDE DEF left
    <3> QED
      BY <1>0, <2>1, <2>3, <2>5, <2>6, <2>8, <2>9 DEF ConverterType
  <2> HIDE DEF left
  <2>11. i < Len(rest) /\ m >= Len(rest)
    <3>1. i < Len(rest)
      <4>1. CASE c.index > k
        <5>1. i = c.index - k
          BY <2>6, <4>1
        <5>2. QED
          BY SMTT(30), <1>0, <2>1, <2>3, <5>1
      <4>2. CASE ~(c.index > k)
        <5>1. i = 0
          BY <2>6, <4>2
        <5>2. QED
          BY SMTT(30), <1>0, <2>1, <2>2, <2>3, <5>1
      <4>3. QED
        BY <4>1, <4>2
    <3>2. m >= Len(rest)
      BY SMTT(30), <1>0, <2>1, <2>3, <2>5
    <3>3. QED
      BY <3>1, <3>2
  <2>12. WellFormed(left)
    BY <2>4, <2>10, <2>11 DEF WellFormed
  <2>13. Covers(left, comp.len - size) /\ size \in 0..comp.len
    BY SMTT(30), <1>0, <2>3, <2>10 DEF Covers
  <2>14. QED
    BY <2>1, <2>7, <2>10, <2>12, <2>13
<1>5. c.state \in {"COMPOSITION", "SUGGESTION", "PREDICTION", "CONVERSION"}
  BY DEF WellFormed, ConverterType
<1>6. QED
  <2> HIDE DEF left, size
  <2>1. c.state \in {"PREDICTION", "CONVERSION"} =>
           \/ \E d \in SC!Commit(c, comp) : o = [size |-> 0, c |-> d]
           \/ o = [size |-> 0, c |-> SC!Performed(c)]
           \/ Len(c.keys) # k /\ o = [size |-> size, c |-> left]
    BY DEF SC!CommitSegmentsInternal, SC!CheckState, left, size
  <2>2. QED
    BY <1>1, <1>2, <1>3, <1>4, <1>5, <2>1

\* CommitSuggestion: of a partial suggestion the size is returned that it
\* consumes; the converter may go on suggesting for the rest.
LEMMA CommitSuggestionFacts ==
    ASSUME NEW c, WellFormed(c), NEW comp \in ComposerType, comp.cursor <= comp.len,
           c.state = "SUGGESTION",
           NEW o \in SC!CommitSuggestion(c, comp)
    PROVE  /\ o.ok \in BOOLEAN /\ o.size \in 0..comp.len
           /\ WellFormed(o.c) /\ o.c.request = c.request /\ o.c.failed = c.failed
           /\ o.c.state \in {"COMPOSITION", "SUGGESTION"}
           /\ ~o.ok => o.c.state = "COMPOSITION" /\ o.c.command = TRUE
           /\ o.ok => /\ o.c.result = <<o.size>> /\ o.c.command = c.command
                      /\ o.size = comp.len => o.c.state = "COMPOSITION"
                      /\ Whole(c) => o.size = comp.len
<1>0. comp.len \in Nat
  BY SMT DEF ComposerType
<1>1. CASE o = [ok |-> FALSE, size |-> 0,
                c |-> [SC!ResetState(SC!ResetResult(c)) EXCEPT !.command = TRUE]]
  <2> DEFINE e == SC!ResetState(SC!ResetResult(c))
             d == [e EXCEPT !.command = TRUE]
  <2>1. /\ WellFormed(e) /\ e.state = "COMPOSITION"
        /\ e.request = c.request /\ e.failed = c.failed
    BY ResetStateFacts
  <2>2. o.ok = FALSE /\ o.size = 0 /\ o.c = d
    BY <1>1
  <2> HIDE DEF e
  <2>3. /\ d \in ConverterType /\ d.state = "COMPOSITION" /\ d.command = TRUE
        /\ d.request = c.request /\ d.failed = c.failed
    BY <2>1 DEF WellFormed, ConverterType
  <2> HIDE DEF d
  <2>4. WellFormed(d)
    BY <2>3 DEF WellFormed
  <2>5. 0 \in 0..comp.len
    BY SMT, <1>0
  <2>6. QED
    BY <2>2, <2>3, <2>4, <2>5
<1>2. ASSUME NEW n \in SC!ConsumedSizes(c, comp), o.ok = TRUE, o.size = n,
             o.c = IF c.request.zero_query /\ n < comp.len
                   THEN SC!InitializeSelectedCandidateIndices(
                            [c EXCEPT !.result = <<n>>, !.keys = <<comp.len - n>>])
                   ELSE SC!ResetState([c EXCEPT !.result = <<n>>])
      PROVE  /\ n \in 0..comp.len /\ (Whole(c) => n = comp.len)
             /\ WellFormed(o.c) /\ o.c.request = c.request /\ o.c.failed = c.failed
             /\ o.c.state \in {"COMPOSITION", "SUGGESTION"} /\ o.c.result = <<n>>
             /\ n = comp.len => o.c.state = "COMPOSITION"
             /\ o.c.command = c.command
  <2>1. n \in 0..comp.len /\ n \in Nat /\ (Whole(c) => n = comp.len)
    BY SMT, <1>0, ConsumedFacts DEF Whole
  <2>2. CASE c.request.zero_query /\ n < comp.len
    <3> DEFINE d == [c EXCEPT !.result = <<n>>, !.keys = <<comp.len - n>>]
    <3>1. PICK m \in Nat : m = comp.len - n
      BY SMTT(30), <1>0, <2>1
    <3>2. <<m>> \in Seq(Nat) /\ <<n>> \in Results
      BY SMT, <2>1 DEF Results
    <3>3. c \in ConverterType /\ c.index = 0
      BY DEF WellFormed
    <3>4. d = [c EXCEPT !.result = <<n>>, !.keys = <<m>>]
      BY <3>1
    <3>5. o.c = SC!InitializeSelectedCandidateIndices(d)
      BY <1>2, <2>2
    <3> HIDE DEF d
    <3>6. /\ d \in ConverterType /\ d.state = "SUGGESTION" /\ d.keys = <<m>> /\ d.index = 0
          /\ d.result = <<n>> /\ d.request = c.request /\ d.failed = c.failed
          /\ d.command = c.command
      BY <3>2, <3>3, <3>4 DEF ConverterType
    <3>7. WellFormed(o.c)
      BY <3>5, <3>6, OneSegmentFacts
    <3>8. /\ o.c.state = "SUGGESTION" /\ o.c.result = <<n>>
          /\ o.c.request = c.request /\ o.c.failed = c.failed
          /\ o.c.command = c.command
      BY SMTT(30), <3>5, <3>6, InitializeFacts
    <3>9. n # comp.len
      BY SMTT(30), <1>0, <2>1, <2>2
    <3>10. QED
      BY <2>1, <3>7, <3>8, <3>9
  <2>3. CASE ~(c.request.zero_query /\ n < comp.len)
    <3> DEFINE d == [c EXCEPT !.result = <<n>>]
    <3>1. /\ WellFormed(d) /\ d.result = <<n>> /\ d.request = c.request
          /\ d.failed = c.failed /\ d.command = c.command
      BY <2>1, ResultFacts
    <3>2. o.c = SC!ResetState(d)
      BY <1>2, <2>3
    <3> HIDE DEF d
    <3>3. QED
      BY SMTT(30), <2>1, <3>1, <3>2, ResetStateFacts
  <2>4. QED
    BY <2>2, <2>3
<1>3. QED
  <2>1. o \in SC!CommitSuggestionInternal(c, comp)
    BY DEF SC!CommitSuggestion, SC!CheckState
  <2>2. \/ o = [ok |-> FALSE, size |-> 0,
                c |-> [SC!ResetState(SC!ResetResult(c)) EXCEPT !.command = TRUE]]
        \/ \E n \in SC!ConsumedSizes(c, comp) :
              /\ o.ok = TRUE /\ o.size = n
              /\ o.c = IF c.request.zero_query /\ n < comp.len
                       THEN SC!InitializeSelectedCandidateIndices(
                                [c EXCEPT !.result = <<n>>, !.keys = <<comp.len - n>>])
                       ELSE SC!ResetState([c EXCEPT !.result = <<n>>])
    <3> DEFINE Rest(n) == IF c.request.zero_query /\ n < comp.len
                          THEN SC!InitializeSelectedCandidateIndices(
                                   [c EXCEPT !.result = <<n>>, !.keys = <<comp.len - n>>])
                          ELSE SC!ResetState([c EXCEPT !.result = <<n>>])
               none == [ok |-> FALSE, size |-> 0,
                        c |-> [SC!ResetState(SC!ResetResult(c)) EXCEPT !.command = TRUE]]
    <3>1. o \in {none} \cup {[ok |-> TRUE, size |-> n, c |-> Rest(n)] :
                                 n \in SC!ConsumedSizes(c, comp)}
      BY <2>1 DEF SC!CommitSuggestionInternal
    <3> HIDE DEF Rest, none
    <3>2. \/ o = none
          \/ \E n \in SC!ConsumedSizes(c, comp) :
                /\ o.ok = TRUE /\ o.size = n /\ o.c = Rest(n)
      BY SMT, <3>1
    <3>3. QED
      BY <3>2 DEF Rest, none
  <2>3. QED
    BY <1>1, <1>2, <2>2

\* CommitPreedit and CommitHead.
LEMMA CommitPreeditFacts ==
    ASSUME NEW c, WellFormed(c), NEW comp \in ComposerType, NEW n \in Nat
    PROVE  LET d == SC!CommitPreedit(c, comp)
               e == SC!CommitHead(c, n)
           IN  /\ WellFormed(d) /\ d.state = "COMPOSITION" /\ d.result = <<comp.len>>
               /\ d.command = c.command /\ d.request = c.request /\ d.failed = c.failed
               /\ WellFormed(e) /\ e.state = c.state /\ e.result = <<n>>
               /\ e.keys = c.keys
               /\ e.command = c.command /\ e.request = c.request /\ e.failed = c.failed
<1>1. comp.len \in Nat
  BY SMT DEF ComposerType
<1> DEFINE b == [c EXCEPT !.result = <<comp.len>>]
<1>2. /\ WellFormed(b) /\ b.result = <<comp.len>>
      /\ b.command = c.command /\ b.request = c.request /\ b.failed = c.failed
  BY <1>1, ResultFacts
<1>3. SC!CommitPreedit(c, comp) = SC!ResetState(b)
  BY DEF SC!CommitPreedit
<1> HIDE DEF b
<1>4. LET d == SC!CommitPreedit(c, comp)
      IN  /\ WellFormed(d) /\ d.state = "COMPOSITION" /\ d.result = <<comp.len>>
          /\ d.command = c.command /\ d.request = c.request /\ d.failed = c.failed
  BY SMTT(30), <1>2, <1>3, ResetStateFacts
<1>5. SC!CommitHead(c, n) = [c EXCEPT !.result = <<n>>]
  BY DEF SC!CommitHead
<1>6. QED
  BY SMTT(30), <1>4, <1>5, ResultFacts

\* SegmentFocus*: the index stays the one of a segment.
LEMMA FocusFacts ==
    ASSUME NEW c, WellFormed(c), c.state \in {"PREDICTION", "CONVERSION"},
           NEW d \in {SC!SegmentFocusRight(c), SC!SegmentFocusLeft(c),
                      SC!SegmentFocusLast(c), SC!SegmentFocusLeftEdge(c)}
    PROVE  /\ WellFormed(d) /\ d.state = c.state /\ d.keys = c.keys
           /\ d.command = c.command /\ d.request = c.request /\ d.failed = c.failed
           /\ c.result = <<>> => d.result = <<>>
<1>0. c \in ConverterType /\ c.keys \in Seq(Nat) /\ c.index \in Nat
  BY DEF WellFormed, ConverterType
<1>a. Len(c.keys) \in Nat
  BY SMT, <1>0
<1>1. CASE c.state = "PREDICTION"
  <2>1. \A i : SC!SegmentFocusInternal(c, i) = c
    BY <1>1 DEF SC!SegmentFocusInternal, SC!CheckState
  <2>2. d = c
    BY SMT, <2>1 DEF SC!SegmentFocusRight, SC!SegmentFocusLeft, SC!SegmentFocusLast,
                SC!SegmentFocusLeftEdge
  <2>3. QED
    BY <2>2
<1>2. CASE c.state = "CONVERSION"
  <2>0. c.index < Len(c.keys)
    BY <1>2 DEF WellFormed
  <2>1. \E i \in 0..(Len(c.keys) - 1) : d = SC!SegmentFocusInternal(c, i)
    <3>1. /\ 0 \in 0..(Len(c.keys) - 1) /\ Len(c.keys) - 1 \in 0..(Len(c.keys) - 1)
          /\ ~(c.index + 1 >= Len(c.keys)) => c.index + 1 \in 0..(Len(c.keys) - 1)
          /\ c.index # 0 => c.index - 1 \in 0..(Len(c.keys) - 1)
      BY SMTT(30), <1>0, <1>a, <2>0
    <3>2. QED
      BY <3>1 DEF SC!SegmentFocusRight, SC!SegmentFocusLeft, SC!SegmentFocusLast,
                  SC!SegmentFocusLeftEdge
  <2>2. PICK i \in 0..(Len(c.keys) - 1) : d = SC!SegmentFocusInternal(c, i)
    BY <2>1
  <2> DEFINE e == SC!ResetResult(c)
  <2>3. /\ WellFormed(e) /\ e.state = c.state /\ e.keys = c.keys /\ e.result = <<>>
        /\ e.indices = c.indices
        /\ e.command = c.command /\ e.request = c.request /\ e.failed = c.failed
    BY ResetStateFacts
  <2>4. d = [e EXCEPT !.index = i]
    BY <1>2, <2>2 DEF SC!SegmentFocusInternal, SC!CheckState
  <2> HIDE DEF e
  <2>5. i \in Nat /\ i < Len(c.keys)
    BY SMT, <1>a, <2>2
  <2>6. /\ d \in ConverterType /\ d.state = "CONVERSION" /\ d.keys = c.keys /\ d.result = <<>>
        /\ d.index = i /\ d.indices = c.indices
        /\ d.command = c.command /\ d.request = c.request /\ d.failed = c.failed
    BY <1>2, <2>3, <2>4, <2>5 DEF WellFormed, ConverterType
  <2>7. WellFormed(d)
    BY <1>2, <2>5, <2>6 DEF WellFormed
  <2>8. QED
    BY <1>2, <2>6, <2>7
<1>3. QED
  BY <1>1, <1>2

\* Two runs of segments that are not empty.
LEMMA ConcatFacts ==
    ASSUME NEW s \in Seq(Nat), NEW t \in Seq(Nat),
           \A i \in 1..Len(s) : s[i] > 0, \A i \in 1..Len(t) : t[i] > 0
    PROVE  /\ s \o t \in Seq(Nat) /\ Len(s \o t) = Len(s) + Len(t)
           /\ \A i \in 1..Len(s \o t) : (s \o t)[i] > 0
<1>0. Len(s) \in Nat /\ Len(t) \in Nat
  BY SMT
<1>1. s \o t \in Seq(Nat) /\ Len(s \o t) = Len(s) + Len(t)
  BY SMT
<1>2. ASSUME NEW i \in 1..Len(s \o t) PROVE (s \o t)[i] > 0
  <2>1. (s \o t)[i] = IF i <= Len(s) THEN s[i] ELSE t[i - Len(s)]
    BY SMT, <1>0, <1>1
  <2>2. CASE i <= Len(s)
    BY SMTT(30), <1>0, <2>1, <2>2
  <2>3. CASE ~(i <= Len(s))
    <3>1. i - Len(s) \in 1..Len(t)
      BY SMT, <1>0, <1>1, <2>3
    <3>2. QED
      BY <2>1, <2>3, <3>1
  <2>4. QED
    BY <2>2, <2>3
<1>3. QED
  BY <1>1, <1>2

\* ResizeSegmentWidth: what the focused segment takes or gives, the segments
\* after it give or take.
LEMMA ResizeFacts ==
    ASSUME NEW c, WellFormed(c), c.state \in {"PREDICTION", "CONVERSION"},
           NEW len \in 0..MaxLen, Covers(c, len), NEW delta \in {1, -1},
           NEW d \in SC!ResizeSegmentWidth(c, delta)
    PROVE  /\ WellFormed(d) /\ d.state = c.state /\ Covers(d, len)
           /\ d.command = c.command /\ d.request = c.request /\ d.failed = c.failed
           /\ c.result = <<>> => d.result = <<>>
<1> DEFINE e == SC!ResetResult(c)
<1>1. /\ WellFormed(e) /\ e.state = c.state /\ e.keys = c.keys /\ e.result = <<>>
      /\ e.command = c.command /\ e.request = c.request /\ e.failed = c.failed
  BY ResetStateFacts
<1>2. CASE c.state = "PREDICTION"
  <2>1. d = c
    BY <1>2 DEF SC!ResizeSegmentWidth, SC!CheckState
  <2>2. QED
    BY <2>1
<1>3. CASE c.state = "CONVERSION" /\ d = e
  <2> HIDE DEF e
  <2> QED
    BY <1>1, <1>3 DEF Covers
<1> DEFINE before == SubSeq(c.keys, 1, c.index)
           width  == c.keys[c.index + 1] + delta
           rest   == SC!Total(c.keys) - SC!Total(before) - width
<1>4. ASSUME c.state = "CONVERSION", width # 0, ~(rest < 0), NEW after \in SC!Splits[rest],
             d = [e EXCEPT !.keys = before \o <<width>> \o after,
                           !.indices = c.index + 1 + Len(after)]
      PROVE  /\ WellFormed(d) /\ d.state = c.state /\ Covers(d, len) /\ d.result = <<>>
             /\ d.command = c.command /\ d.request = c.request /\ d.failed = c.failed
  <2>0. c.keys \in Seq(Nat) /\ c.index \in Nat /\ c \in ConverterType
    BY DEF WellFormed, ConverterType
  <2>a. Len(c.keys) \in Nat /\ c.index < Len(c.keys)
    BY SMTT(30), <1>4, <2>0 DEF WellFormed
  <2>b. \A i \in 1..Len(c.keys) : c.keys[i] > 0
    BY <1>4 DEF WellFormed
  <2>1. c.index \in 0..Len(c.keys) /\ c.index + 1 \in 1..Len(c.keys)
    BY SMT, <2>0, <2>a
  <2>2. /\ before \in Seq(Nat) /\ Len(before) = c.index
        /\ \A i \in 1..c.index : before[i] = c.keys[i]
        /\ SC!Total(before) \in Nat
    BY <2>0, <2>1, SplitAt
  <2>3. SC!Total(c.keys) = len
    BY <1>4 DEF Covers
  <2>4. c.keys[c.index + 1] \in Nat /\ c.keys[c.index + 1] > 0
    BY SMTT(20), <2>0, <2>1, <2>b
  <2>5. width \in Nat /\ width > 0
    BY SMT, <1>4, <2>4
  <2> HIDE DEF before, width
  <2>6. rest \in 0..MaxLen /\ rest \in Nat
    BY SMTT(30), <1>4, <2>2, <2>3, <2>5, SessionAssumptions
  <2>7. /\ after \in Seq(Nat) /\ SC!Total(after) = rest
        /\ \A i \in 1..Len(after) : after[i] > 0
    BY <1>4, <2>6, SplitFacts
  <2>8. Len(after) \in Nat
    BY SMT, <2>7
  <2> DEFINE one == <<width>>
             head == before \o one
             keys == head \o after
  <2>9. /\ one \in Seq(Nat) /\ Len(one) = 1 /\ one[1] = width
    BY SMT, <2>5
  <2>10. SC!Total(one) = width
    BY SMT, <2>5, TotalOfOne
  <2> HIDE DEF one
  <2>b1. ASSUME NEW i \in 1..Len(before) PROVE before[i] > 0
    <3>1. i \in 1..c.index /\ i \in 1..Len(c.keys)
      BY SMT, <2>0, <2>2, <2>a
    <3>2. QED
      BY <2>2, <2>b, <3>1
  <2>b2. ASSUME NEW i \in 1..Len(one) PROVE one[i] > 0
    BY SMT, <2>5, <2>9
  <2>11. /\ head \in Seq(Nat) /\ Len(head) = c.index + 1
         /\ \A i \in 1..Len(head) : head[i] > 0
    BY <2>2, <2>9, <2>b1, <2>b2, ConcatFacts
  <2>12. SC!Total(head) = SC!Total(before) + width
    <3>1. before \in Seq(Int) /\ one \in Seq(Int)
      BY SMT, <2>2, <2>9
    <3>2. QED
      BY <2>10, <3>1, TotalOfConcat
  <2> HIDE DEF head
  <2>13. /\ keys \in Seq(Nat) /\ Len(keys) = c.index + 1 + Len(after)
         /\ \A i \in 1..Len(keys) : keys[i] > 0
    BY <2>7, <2>11, ConcatFacts
  <2>14. SC!Total(keys) = len
    <3>1. head \in Seq(Int) /\ after \in Seq(Int)
      BY SMT, <2>7, <2>11
    <3>2. SC!Total(keys) = SC!Total(before) + width + rest
      BY <2>7, <2>12, <3>1, TotalOfConcat
    <3>3. QED
      BY SMTT(30), <2>2, <2>3, <2>5, <3>2
  <2> HIDE DEF keys
  <2>16. PICK m \in Nat : m = Len(keys) /\ m = c.index + 1 + Len(after)
    BY SMTT(30), <2>0, <2>8, <2>13
  <2>17. d = [e EXCEPT !.keys = keys, !.indices = m]
    BY <1>4, <2>16 DEF keys, head, one
  <2> HIDE DEF e
  <2>18. e.index = c.index
    BY ResetStateFacts DEF e
  <2>19. /\ d \in ConverterType /\ d.state = "CONVERSION" /\ d.keys = keys /\ d.result = <<>>
         /\ d.index = c.index /\ d.indices = m
         /\ d.command = c.command /\ d.request = c.request /\ d.failed = c.failed
    BY <1>1, <1>4, <2>13, <2>17, <2>18 DEF WellFormed, ConverterType
  <2>20. d.index < Len(d.keys) /\ d.indices >= Len(d.keys)
    <3>1. c.index < m /\ m >= m
      BY SMT, <2>0, <2>8, <2>16
    <3>2. QED
      BY <2>16, <2>19, <3>1
  <2>21. WellFormed(d)
    BY <2>13, <2>19, <2>20 DEF WellFormed
  <2>22. QED
    BY <1>4, <2>14, <2>19, <2>21 DEF Covers
<1>5. QED
  <2>1. c.state = "CONVERSION" =>
           \/ d = e
           \/ /\ width # 0 /\ ~(rest < 0)
              /\ \E after \in SC!Splits[rest] :
                    d = [e EXCEPT !.keys = before \o <<width>> \o after,
                                  !.indices = c.index + 1 + Len(after)]
    <3> HIDE DEF e, before, width, rest
    <3> QED
      BY DEF SC!ResizeSegmentWidth, SC!CheckState, e, before, width, rest
  <2> HIDE DEF e, before, width, rest
  <2>2. QED
    BY <1>2, <1>3, <1>4, <2>1

\* CandidateNext, CandidatePrev and their like, and CandidateMoveToId, after
\* which there are predictions or a conversion.
LEMMA CandidateFacts ==
    ASSUME NEW c, WellFormed(c), NEW comp \in ComposerType, SC!IsActive(c),
           Covers(c, comp.len),
           NEW d \in SC!CandidateNext(c, comp) \cup {SC!CandidateMove(c)}
                     \cup SC!CandidateMoveToId(c, comp)
    PROVE  /\ WellFormed(d) /\ d.request = c.request /\ d.command = c.command
           /\ c.state \in {"PREDICTION", "CONVERSION"} =>
                 d.state = c.state /\ Covers(d, comp.len)
           /\ c.result = <<>> => d.result = <<>>
           /\ d \in SC!CandidateMoveToId(c, comp) \/ c.state # "SUGGESTION" =>
                 /\ d.state \in {"PREDICTION", "CONVERSION"} /\ d.failed = c.failed
                 /\ Covers(d, comp.len)
           /\ d \notin SC!CandidateMoveToId(c, comp) /\ c.state = "SUGGESTION" =>
                 d.state = "SUGGESTION"
<1> DEFINE e == SC!ResetResult(c)
<1>0. c.state \in {"SUGGESTION", "PREDICTION", "CONVERSION"}
  BY DEF SC!IsActive, SC!CheckState
<1>1. /\ WellFormed(e) /\ e.state = c.state /\ e.keys = c.keys /\ e.result = <<>>
      /\ e.command = c.command /\ e.request = c.request /\ e.failed = c.failed
  BY ResetStateFacts
<1>2. CASE c.state = "SUGGESTION"
  <2>1. SC!CandidateNext(c, comp) = {SC!Failed(c)} /\ SC!CandidateMove(c) = SC!Failed(c)
    BY <1>2 DEF SC!CandidateNext, SC!CandidateMove, SC!CheckState
  <2>2. CASE d \in SC!CandidateMoveToId(c, comp)
    <3>1. PICK o \in SC!PredictWithPreferences(c, comp) : d = o.c
      BY <1>2, <2>2 DEF SC!CandidateMoveToId, SC!CheckState
    <3>2. /\ WellFormed(d) /\ d.command = c.command /\ d.request = c.request
          /\ d.result = <<>> /\ d.failed = c.failed
          /\ o.ok => d.state = "PREDICTION"
          /\ ~o.ok => d.state = "COMPOSITION" /\ c.state = "COMPOSITION"
      BY SMT, <3>1, PredictFacts
    <3>3. d.state = "PREDICTION"
      BY <1>2, <3>2
    <3>4. QED
      BY <1>2, <2>2, <3>2, <3>3 DEF Covers
  <2>3. CASE d \notin SC!CandidateMoveToId(c, comp)
    <3>1. d = SC!Failed(c)
      BY <2>1, <2>3
    <3>2. QED
      BY <1>2, <2>3, <3>1, FailedFacts DEF Covers
  <2>4. QED
    BY <2>2, <2>3
<1>3. CASE c.state \in {"PREDICTION", "CONVERSION"}
  <2>1. SC!CandidateMove(c) = e /\ SC!CandidateMoveToId(c, comp) = {e}
    BY <1>3 DEF SC!CandidateMove, SC!CandidateMoveToId, SC!CheckState
  <2>2. SC!CandidateNext(c, comp) = SC!MaybeExpandPrediction(e, comp)
    BY <1>3 DEF SC!CandidateNext, SC!CheckState
  <2> HIDE DEF e
  <2>3. CASE d = e
    BY <1>1, <1>3, <2>3 DEF Covers
  <2>4. CASE d # e
    <3>1. PICK o \in SC!PredictWithPreferences(e, comp) : d = o.c /\ e.state = "PREDICTION"
      BY <2>1, <2>2, <2>4 DEF SC!MaybeExpandPrediction, SC!CheckState
    <3>2. /\ WellFormed(d) /\ d.command = e.command /\ d.request = e.request
          /\ d.result = <<>> /\ d.failed = e.failed
          /\ o.ok => d.state = "PREDICTION"
          /\ ~o.ok => d.state = "COMPOSITION" /\ e.state = "COMPOSITION"
      BY SMT, <1>1, <3>1, PredictFacts
    <3>3. d.state = "PREDICTION"
      BY <3>1, <3>2
    <3>4. QED
      BY <1>1, <1>3, <3>1, <3>2, <3>3 DEF Covers
  <2>5. QED
    BY <2>3, <2>4
<1>4. QED
  BY <1>0, <1>2, <1>3

-----------------------------------------------------------------------------
\* The converter is replaced.
LEMMA ConvFacts ==
    ASSUME NEW s \in SessionType, NEW c \in ConverterType
    PROVE  LET t == [s EXCEPT !.ctx.conv = c]
           IN  /\ t \in SessionType /\ t.ctx.conv = c
               /\ t.ctx.state = s.ctx.state /\ t.ctx.comp = s.ctx.comp
               /\ t.undo = s.undo /\ t.out = s.out
BY DEF SessionType, ContextType

\* The composition is changed.
LEMMA ResizedFacts ==
    ASSUME NEW s \in SessionType, NEW len \in 0..MaxLen, NEW cursor \in 0..MaxLen
    PROVE  LET t == Resized(s, len, cursor)
           IN  /\ t \in SessionType /\ t.ctx.conv = s.ctx.conv
               /\ t.ctx.state = s.ctx.state
               /\ t.ctx.comp.len = len /\ t.ctx.comp.cursor = cursor
               /\ t.ctx.comp.field = s.ctx.comp.field
               /\ t.undo = s.undo
               /\ t.out.inserted = s.out.inserted + len - s.ctx.comp.len
               /\ t.out.result = s.out.result /\ t.out.config = s.out.config
               /\ t.out.discards = s.out.discards
<1> DEFINE n == s.out.inserted + len - s.ctx.comp.len
           s1 == [s EXCEPT !.ctx.comp.len = len]
           s2 == [s1 EXCEPT !.ctx.comp.cursor = cursor]
           t  == [s2 EXCEPT !.out.inserted = @ + len - s.ctx.comp.len]
<1>1. n \in Int
  BY SMT DEF SessionType, ContextType, OutputType, ComposerType
<1>2. /\ s1 \in SessionType /\ s1.ctx.conv = s.ctx.conv /\ s1.ctx.state = s.ctx.state
      /\ s1.ctx.comp.len = len /\ s1.ctx.comp.field = s.ctx.comp.field
      /\ s1.undo = s.undo /\ s1.out = s.out
  BY DEF SessionType, ContextType, ComposerType
<1>3. Resized(s, len, cursor) = t
  BY DEF Resized
<1> HIDE DEF s1
<1>4. /\ s2 \in SessionType /\ s2.ctx.conv = s1.ctx.conv /\ s2.ctx.state = s1.ctx.state
      /\ s2.ctx.comp.len = s1.ctx.comp.len /\ s2.ctx.comp.field = s1.ctx.comp.field
      /\ s2.ctx.comp.cursor = cursor /\ s2.undo = s1.undo /\ s2.out = s1.out
  BY <1>2 DEF SessionType, ContextType, ComposerType
<1> HIDE DEF s2
<1>5. t = [s2 EXCEPT !.out.inserted = n]
  BY <1>2, <1>4
<1> HIDE DEF n, t
<1>6. /\ t \in SessionType /\ t.ctx = s2.ctx /\ t.undo = s2.undo
      /\ t.out.inserted = n /\ t.out.result = s2.out.result
      /\ t.out.config = s2.out.config /\ t.out.discards = s2.out.discards
  BY <1>1, <1>4, <1>5 DEF SessionType, OutputType
<1>7. QED
  BY <1>2, <1>3, <1>4, <1>6 DEF n

\* PopOutput: the result and the command of the converter go to the output.
LEMMA OutputFacts ==
    ASSUME NEW s \in SessionType, WellFormed(s.ctx.conv)
    PROVE  LET t == Output(s)
               c == s.ctx.conv
               d == t.ctx.conv
           IN  /\ t \in SessionType
               /\ t.ctx.state = s.ctx.state /\ t.ctx.comp = s.ctx.comp
               /\ WellFormed(d) /\ d.state = c.state /\ d.keys = c.keys
               /\ d.result = <<>> /\ d.request = c.request /\ d.failed = c.failed
               /\ ~d.command /\ t.undo = s.undo
               /\ t.out.inserted = s.out.inserted /\ t.out.discards = s.out.discards
               /\ t.out.config = (s.out.config \/ c.command)
               /\ t.out.result = IF c.result = <<>> THEN s.out.result ELSE c.result
<1> DEFINE c == s.ctx.conv
           r == IF c.result = <<>> THEN s.out.result ELSE c.result
           s1 == [s EXCEPT !.out.result = IF c.result = <<>> THEN @ ELSE c.result]
           s2 == [s1 EXCEPT !.out.config = @ \/ c.command]
           s3 == [s2 EXCEPT !.ctx.conv.result = <<>>]
           t  == [s3 EXCEPT !.ctx.conv.command = FALSE]
<1>1. /\ c \in ConverterType /\ r \in Results /\ c.command \in BOOLEAN
      /\ s.out.config \in BOOLEAN /\ <<>> \in Results
  BY DEF SessionType, OutputType, WellFormed, ConverterType, Results
<1>2. Output(s) = t
  BY DEF Output
<1>3. s1 = [s EXCEPT !.out.result = r]
  OBVIOUS
<1> HIDE DEF c, r, s1
<1>4. /\ s1 \in SessionType /\ s1.ctx = s.ctx /\ s1.undo = s.undo
      /\ s1.out.inserted = s.out.inserted /\ s1.out.discards = s.out.discards
      /\ s1.out.config = s.out.config /\ s1.out.result = r
  BY <1>1, <1>3 DEF SessionType, OutputType
<1> HIDE DEF s2
<1>5. /\ s2 \in SessionType /\ s2.ctx = s.ctx /\ s2.undo = s.undo
      /\ s2.out.inserted = s.out.inserted /\ s2.out.discards = s.out.discards
      /\ s2.out.config = (s.out.config \/ c.command) /\ s2.out.result = r
  BY <1>1, <1>4 DEF SessionType, OutputType, s2
<1> HIDE DEF s3
<1>6. /\ s3 \in SessionType /\ s3.undo = s2.undo /\ s3.out = s2.out
      /\ s3.ctx.state = s.ctx.state /\ s3.ctx.comp = s.ctx.comp
      /\ s3.ctx.conv = [c EXCEPT !.result = <<>>]
  BY <1>1, <1>5 DEF SessionType, ContextType, ConverterType, s3, c
<1> HIDE DEF t
<1>7. /\ t \in SessionType /\ t.undo = s3.undo /\ t.out = s3.out
      /\ t.ctx.state = s3.ctx.state /\ t.ctx.comp = s3.ctx.comp
      /\ t.ctx.conv = [s3.ctx.conv EXCEPT !.command = FALSE]
  BY <1>1, <1>6 DEF SessionType, ContextType, ConverterType, t
<1> DEFINE d == [c EXCEPT !.result = <<>>, !.command = FALSE]
<1>8. /\ d \in ConverterType /\ d.state = c.state /\ d.keys = c.keys
      /\ d.index = c.index /\ d.indices = c.indices
      /\ d.result = <<>> /\ d.request = c.request /\ d.failed = c.failed /\ ~d.command
  BY <1>1 DEF ConverterType
<1>9. t.ctx.conv = d
  BY <1>6, <1>7
<1> HIDE DEF d
<1>10. WellFormed(d)
  BY <1>8 DEF WellFormed, c
<1>11. QED
  BY SMTT(30), <1>2, <1>5, <1>6, <1>7, <1>8, <1>9, <1>10 DEF c, r

-----------------------------------------------------------------------------
(***************************************************************************)
(* What a handler has done so far.                                         *)
(***************************************************************************)
\* The size of a result.
LEMMA ResultSizeFacts ==
    ASSUME NEW x, x.result \in Results
    PROVE  /\ ResultSize(x) \in Nat
           /\ x.result = <<>> => ResultSize(x) = 0
           /\ \A n \in Nat : x.result = <<n>> => ResultSize(x) = n
           /\ \A y : y.result = x.result => ResultSize(y) = ResultSize(x)
<1>1. \A n \in Nat : <<n>> # <<>> /\ <<n>>[1] = n
  OBVIOUS
<1>2. QED
  BY <1>1 DEF ResultSize, Results

\* The types of the parts of a session.
LEMMA SessionFacts ==
    ASSUME NEW s \in SessionType
    PROVE  /\ s.ctx \in ContextType /\ s.ctx.comp \in ComposerType
           /\ s.ctx.conv \in ConverterType
           /\ s.ctx.state \in {"DIRECT", "PRECOMPOSITION", "COMPOSITION", "CONVERSION"}
           /\ s.ctx.comp.len \in Nat /\ s.ctx.comp.len \in 0..MaxLen
           /\ s.ctx.comp.cursor \in Nat /\ s.ctx.comp.cursor \in 0..MaxLen
           /\ s.out.inserted \in Int
           /\ ResultSize(s.out) \in Nat /\ ResultSize(s.ctx.conv) \in Nat
           /\ s.out.result \in Results /\ s.ctx.conv.result \in Results
           /\ Text(s) \in Int
<1>1. /\ s.ctx \in ContextType /\ s.ctx.comp \in ComposerType
      /\ s.ctx.conv \in ConverterType /\ s.out \in OutputType
      /\ s.ctx.state \in {"DIRECT", "PRECOMPOSITION", "COMPOSITION", "CONVERSION"}
  BY DEF SessionType, ContextType
<1>2. /\ s.ctx.comp.len \in Nat /\ s.ctx.comp.len \in 0..MaxLen
      /\ s.ctx.comp.cursor \in Nat /\ s.ctx.comp.cursor \in 0..MaxLen
      /\ s.out.inserted \in Int
  BY SMT, <1>1 DEF ComposerType, OutputType
<1>3. s.out.result \in Results /\ s.ctx.conv.result \in Results
  BY <1>1 DEF ConverterType, OutputType
<1>4. ResultSize(s.out) \in Nat /\ ResultSize(s.ctx.conv) \in Nat
  BY <1>3, ResultSizeFacts
<1>5. Text(s) \in Int
  BY SMT, <1>2, <1>4 DEF Text
<1>6. QED
  BY <1>1, <1>2, <1>3, <1>4, <1>5

\* A handler that has done nothing.
LEMMA LeadsStart ==
    ASSUME NEW s, Good(s)
    PROVE  Leads(s, s)
BY DEF Good, Ready, Fit, Leads, Formed, Balanced, Plain, Sound

\* A handler is done.
LEMMA LeadsEnd ==
    ASSUME NEW s, NEW t, Leads(s, t), ~t.ctx.conv.command,
           Covers(t.ctx.conv, t.ctx.comp.len),
           Agree(t.ctx.state, t.ctx.comp.len, t.ctx.conv.state), Shown(t.ctx),
           Plain(s) => t.ctx.conv.result = <<>>
    PROVE  Step(s, t)
<1>1. t.ctx \in ContextType
  BY SessionFacts DEF Leads, Formed
<1>2. QED
  BY <1>1 DEF Good, Ready, Fit, Leads, Formed, Balanced, Step

-----------------------------------------------------------------------------
\* Two sessions with the same context and output.
LEMMA LeadsSame ==
    ASSUME NEW s, NEW u, NEW t, Leads(s, u), t \in SessionType,
           t.ctx = u.ctx, t.out.result = u.out.result, t.out.config = u.out.config,
           t.out.inserted = u.out.inserted, u.out.discards => t.out.discards,
           \A v \in t.undo : Fit(v) /\ Shown(v) /\ ~v.conv.failed
    PROVE  Leads(s, t)
<1>1. Text(t) = Text(u)
  BY DEF Text, ResultSize
<1>2. QED
  BY <1>1 DEF Leads, Formed, Balanced

\* ClearUndoContext forgets the contexts that Undo would restore.
LEMMA LeadsClearUndo ==
    ASSUME NEW s, NEW u, Leads(s, u)
    PROVE  LET t == ClearUndoContext(u)
           IN  Leads(s, t) /\ t.ctx = u.ctx /\ t.out = u.out /\ t.undo = {}
<1> DEFINE t == ClearUndoContext(u)
<1>1. t \in SessionType /\ t.ctx = u.ctx /\ t.out = u.out /\ t.undo = {}
  BY DEF Leads, Formed, SessionType, ClearUndoContext
<1> HIDE DEF t
<1>2. Leads(s, t)
  BY <1>1, LeadsSame
<1>3. QED
  BY <1>1, <1>2 DEF t

\* PushUndoContext keeps the context, which is one that Undo may restore.
LEMMA LeadsPushUndo ==
    ASSUME NEW s, NEW u, Leads(s, u), Fit(u.ctx), Shown(u.ctx), ~u.ctx.conv.failed
    PROVE  LET t == PushUndoContext(u)
           IN  Leads(s, t) /\ t.ctx = u.ctx /\ t.out = u.out
<1> DEFINE t == PushUndoContext(u)
<1>0. u \in SessionType /\ u.ctx \in ContextType
  BY SessionFacts DEF Leads, Formed
<1>1. t \in SessionType /\ t.ctx = u.ctx /\ t.out = u.out /\ t.undo = {u.ctx}
  BY <1>0 DEF SessionType, PushUndoContext
<1> HIDE DEF t
<1>2. Leads(s, t)
  BY <1>1, LeadsSame
<1>3. QED
  BY <1>1, <1>2 DEF t

\* KeepOutput, which only notes whether there is a result to send.
LEMMA LeadsKeepOutput ==
    ASSUME NEW s, NEW u, Leads(s, u)
    PROVE  LET t == KeepOutput(u)
           IN  Leads(s, t) /\ t.ctx = u.ctx /\ t.out = u.out
<1> DEFINE t == KeepOutput(u)
<1>1. t \in SessionType /\ t.ctx = u.ctx /\ t.out = u.out /\ t.undo = u.undo
  BY DEF Leads, Formed, SessionType, KeepOutput
<1> HIDE DEF t
<1>2. Leads(s, t)
  BY <1>1, LeadsSame DEF Leads, Formed
<1>3. QED
  BY <1>1, <1>2 DEF t

\* A handler that means to discard text says so.
LEMMA LeadsDiscards ==
    ASSUME NEW s, NEW u, Leads(s, u)
    PROVE  LET t == Discards(u)
           IN  Leads(s, t) /\ t.ctx = u.ctx /\ t.out.discards /\ t.undo = u.undo
<1> DEFINE t == Discards(u)
<1>1. /\ t \in SessionType /\ t.ctx = u.ctx /\ t.undo = u.undo /\ t.out.discards
      /\ t.out.result = u.out.result /\ t.out.config = u.out.config
      /\ t.out.inserted = u.out.inserted
  BY DEF Leads, Formed, SessionType, OutputType, Discards
<1> HIDE DEF t
<1>2. Leads(s, t)
  BY <1>1, LeadsSame DEF Leads, Formed
<1>3. QED
  BY <1>1, <1>2 DEF t

\* The converter is replaced.
LEMMA FormedConv ==
    ASSUME NEW s, NEW u, Formed(s, u), NEW c, WellFormed(c),
           c.request = u.ctx.conv.request,
           Sound(s) /\ ~u.ctx.conv.failed => ~c.failed
    PROVE  LET t == [u EXCEPT !.ctx.conv = c]
           IN  /\ Formed(s, t) /\ t.ctx.conv = c
               /\ t.ctx.state = u.ctx.state /\ t.ctx.comp = u.ctx.comp
               /\ t.undo = u.undo /\ t.out = u.out
               /\ Text(t) = Text(u) + ResultSize(c) - ResultSize(u.ctx.conv)
<1> DEFINE t == [u EXCEPT !.ctx.conv = c]
<1>0. u \in SessionType /\ c \in ConverterType
  BY DEF Formed, WellFormed
<1>1. /\ t \in SessionType /\ t.ctx.conv = c
      /\ t.ctx.state = u.ctx.state /\ t.ctx.comp = u.ctx.comp
      /\ t.undo = u.undo /\ t.out = u.out
  BY <1>0, ConvFacts
<1> HIDE DEF t
<1>2. Text(t) = Text(u) + ResultSize(c) - ResultSize(u.ctx.conv)
  <2>1. /\ u.ctx.comp.len \in Int /\ ResultSize(u.out) \in Int
        /\ ResultSize(u.ctx.conv) \in Int /\ u.out.inserted \in Int
        /\ ResultSize(t.ctx.conv) \in Int
    BY SMTT(30), <1>0, <1>1, SessionFacts
  <2>2. QED
    BY SMTT(30), <1>1, <2>1 DEF Text
<1>3. Formed(s, t)
  BY <1>1 DEF Formed
<1>4. QED
  BY <1>1, <1>2, <1>3 DEF t

\* The converter has changed, and its result is the one that it was.
LEMMA LeadsConv ==
    ASSUME NEW s, NEW u, Leads(s, u), NEW c, WellFormed(c),
           c.request = u.ctx.conv.request,
           Sound(s) /\ ~u.ctx.conv.failed => ~c.failed,
           u.ctx.conv.command => c.command,
           Plain(s) => c.result = u.ctx.conv.result
    PROVE  LET t == [u EXCEPT !.ctx.conv = c]
           IN  /\ Leads(s, t) /\ t.ctx.conv = c
               /\ t.ctx.state = u.ctx.state /\ t.ctx.comp = u.ctx.comp
               /\ t.undo = u.undo /\ t.out = u.out
<1> DEFINE t == [u EXCEPT !.ctx.conv = c]
<1>0. Formed(s, u) /\ u \in SessionType
  BY DEF Leads, Formed
<1>1. /\ Formed(s, t) /\ t.ctx.conv = c
      /\ t.ctx.state = u.ctx.state /\ t.ctx.comp = u.ctx.comp
      /\ t.undo = u.undo /\ t.out = u.out
  BY SMT, <1>0, FormedConv
<1> HIDE DEF t
<1>2. c.result = u.ctx.conv.result => Text(t) = Text(u)
  BY <1>1 DEF Text, ResultSize
<1>3. Balanced(s, t)
  BY <1>1, <1>2 DEF Leads, Balanced
<1>4. QED
  BY <1>1, <1>3 DEF t, Leads

\* SetSessionState.
LEMMA SetSessionStateFacts ==
    ASSUME NEW u \in SessionType, u.ctx.comp.cursor <= u.ctx.comp.len,
           NEW state \in {"DIRECT", "PRECOMPOSITION", "COMPOSITION", "CONVERSION"}
    PROVE  LET t == SetSessionState(u, state)
           IN  /\ t \in SessionType /\ t.ctx.conv = u.ctx.conv /\ t.ctx.state = state
               /\ t.ctx.comp.field = u.ctx.comp.field
               /\ t.ctx.comp.cursor <= t.ctx.comp.len
               /\ t.undo = u.undo /\ t.out = u.out
               /\ state \in {"DIRECT", "PRECOMPOSITION"} => t.ctx.comp.len = 0
               /\ state \notin {"DIRECT", "PRECOMPOSITION"} => t.ctx.comp = u.ctx.comp
<1> DEFINE w == [u EXCEPT !.ctx.state = state]
           t == SetSessionState(u, state)
<1>1. /\ w \in SessionType /\ w.ctx.conv = u.ctx.conv /\ w.ctx.state = state
      /\ w.ctx.comp = u.ctx.comp /\ w.undo = u.undo /\ w.out = u.out
  BY DEF SessionType, ContextType
<1>2. CASE state \notin {"DIRECT", "PRECOMPOSITION"}
  <2>1. t = w
    BY <1>2 DEF SetSessionState
  <2> HIDE DEF w, t
  <2>2. QED
    BY <1>1, <1>2, <2>1 DEF t
<1>3. CASE state \in {"DIRECT", "PRECOMPOSITION"}
  <2> DEFINE e == ResetComposer(u.ctx.comp)
  <2>1. e \in ComposerType /\ e.len = 0 /\ e.cursor = 0 /\ e.field = u.ctx.comp.field
    BY SMTT(30), SessionFacts, SessionAssumptions DEF ResetComposer, NoText, ComposerType
  <2>2. t = [w EXCEPT !.ctx.comp = e]
    <3>1. t = [w EXCEPT !.ctx.comp = ResetComposer(@)]
      BY <1>3 DEF SetSessionState
    <3> HIDE DEF w, t
    <3>2. QED
      BY <1>1, <3>1
  <2> HIDE DEF w, e, t
  <2>3. /\ t \in SessionType /\ t.ctx.conv = w.ctx.conv /\ t.ctx.state = w.ctx.state
        /\ t.ctx.comp = e /\ t.undo = w.undo /\ t.out = w.out
    BY <1>1, <2>1, <2>2 DEF SessionType, ContextType
  <2>4. QED
    BY SMTT(30), <1>1, <1>3, <2>1, <2>3 DEF t
<1>4. QED
  BY <1>2, <1>3

\* SetSessionState, which empties the composition when it leaves it.
LEMMA FormedState ==
    ASSUME NEW s, NEW u, Formed(s, u),
           NEW state \in {"DIRECT", "PRECOMPOSITION", "COMPOSITION", "CONVERSION"}
    PROVE  LET t == SetSessionState(u, state)
           IN  /\ Formed(s, t) /\ t.ctx.conv = u.ctx.conv /\ t.ctx.state = state
               /\ t.out = u.out /\ t.undo = u.undo
               /\ state \in {"DIRECT", "PRECOMPOSITION"} => t.ctx.comp.len = 0
               /\ state \notin {"DIRECT", "PRECOMPOSITION"} => t.ctx.comp = u.ctx.comp
               /\ Text(t) = Text(u) + t.ctx.comp.len - u.ctx.comp.len
<1> DEFINE t == SetSessionState(u, state)
<1>0. u \in SessionType /\ u.ctx.comp.cursor <= u.ctx.comp.len
  BY DEF Formed
<1>1. /\ t \in SessionType /\ t.ctx.conv = u.ctx.conv /\ t.ctx.state = state
      /\ t.ctx.comp.field = u.ctx.comp.field
      /\ t.ctx.comp.cursor <= t.ctx.comp.len
      /\ t.undo = u.undo /\ t.out = u.out
      /\ state \in {"DIRECT", "PRECOMPOSITION"} => t.ctx.comp.len = 0
      /\ state \notin {"DIRECT", "PRECOMPOSITION"} => t.ctx.comp = u.ctx.comp
  BY <1>0, SetSessionStateFacts
<1> HIDE DEF t
<1>2. Text(t) = Text(u) + t.ctx.comp.len - u.ctx.comp.len
  <2>1. /\ u.ctx.comp.len \in Int /\ ResultSize(u.out) \in Int
        /\ ResultSize(u.ctx.conv) \in Int /\ u.out.inserted \in Int
        /\ t.ctx.comp.len \in Int
    BY SMT, <1>0, <1>1, SessionFacts
  <2>2. QED
    BY SMTT(30), <1>1, <2>1 DEF Text
<1>3. Formed(s, t)
  BY <1>1 DEF Formed
<1>4. QED
  BY <1>1, <1>2, <1>3 DEF t

\* A composition that is empty, or that is discarded, is left.
LEMMA LeadsEmptied ==
    ASSUME NEW s, NEW u, Leads(s, u), NEW state \in {"DIRECT", "PRECOMPOSITION"},
           u.out.discards \/ u.ctx.comp.len = 0
    PROVE  LET t == SetSessionState(u, state)
           IN  /\ Leads(s, t) /\ t.ctx.conv = u.ctx.conv /\ t.ctx.state = state
               /\ t.ctx.comp.len = 0 /\ t.out = u.out /\ t.undo = u.undo
<1> DEFINE t == SetSessionState(u, state)
<1>0. Formed(s, u) /\ u \in SessionType
  BY DEF Leads, Formed
<1>1. /\ Formed(s, t) /\ t.ctx.conv = u.ctx.conv /\ t.ctx.state = state
      /\ t.undo = u.undo /\ t.out = u.out /\ t.ctx.comp.len = 0
      /\ Text(t) = Text(u) + t.ctx.comp.len - u.ctx.comp.len
  BY SMTT(30), <1>0, FormedState
<1> HIDE DEF t
<1>2. u.ctx.comp.len = 0 => Text(t) = Text(u)
  BY SMTT(30), <1>0, <1>1, SessionFacts
<1>3. Balanced(s, t)
  BY <1>1, <1>2 DEF Leads, Balanced
<1>4. QED
  BY <1>1, <1>3 DEF t, Leads

\* The composition is shown, or is converted.
LEMMA LeadsState ==
    ASSUME NEW s, NEW u, Leads(s, u), NEW state \in {"COMPOSITION", "CONVERSION"}
    PROVE  LET t == SetSessionState(u, state)
           IN  /\ Leads(s, t) /\ t.ctx.conv = u.ctx.conv /\ t.ctx.state = state
               /\ t.ctx.comp = u.ctx.comp /\ t.out = u.out /\ t.undo = u.undo
<1> DEFINE t == SetSessionState(u, state)
<1>1. /\ Formed(s, t) /\ t.ctx.conv = u.ctx.conv /\ t.ctx.state = state
      /\ t.ctx.comp = u.ctx.comp /\ t.undo = u.undo /\ t.out = u.out
  BY SMT, FormedState DEF Leads
<1> HIDE DEF t
<1>2. Text(t) = Text(u)
  BY <1>1 DEF Text
<1>3. Balanced(s, t)
  BY <1>1, <1>2 DEF Leads, Balanced
<1>4. QED
  BY <1>1, <1>3 DEF t, Leads

\* Output.
LEMMA LeadsOutput ==
    ASSUME NEW s, NEW u, Leads(s, u)
    PROVE  LET t == Output(u)
               c == u.ctx.conv
               d == t.ctx.conv
           IN  /\ Leads(s, t) /\ t.ctx.state = u.ctx.state /\ t.ctx.comp = u.ctx.comp
               /\ d.state = c.state /\ d.keys = c.keys /\ d.result = <<>> /\ ~d.command
               /\ d.failed = c.failed /\ t.undo = u.undo
               /\ t.out.discards = u.out.discards /\ t.out.inserted = u.out.inserted
<1> DEFINE t == Output(u)
           c == u.ctx.conv
           d == t.ctx.conv
<1>0. u \in SessionType /\ WellFormed(c)
  BY DEF Leads, Formed
<1>1. /\ t \in SessionType
      /\ t.ctx.state = u.ctx.state /\ t.ctx.comp = u.ctx.comp
      /\ WellFormed(d) /\ d.state = c.state /\ d.keys = c.keys
      /\ d.result = <<>> /\ d.request = c.request /\ d.failed = c.failed /\ ~d.command
      /\ t.undo = u.undo
      /\ t.out.inserted = u.out.inserted /\ t.out.discards = u.out.discards
      /\ t.out.config = (u.out.config \/ c.command)
      /\ t.out.result = IF c.result = <<>> THEN u.out.result ELSE c.result
  BY <1>0, OutputFacts
<1> HIDE DEF t
<1>2. u.out.result = <<>> \/ c.result = <<>> => Text(t) = Text(u)
  <2>1. /\ u.out.result = <<>> => ResultSize(u.out) = 0
        /\ c.result = <<>> => ResultSize(c) = 0
        /\ ResultSize(d) = 0
        /\ t.out.result = u.out.result => ResultSize(t.out) = ResultSize(u.out)
        /\ t.out.result = c.result => ResultSize(t.out) = ResultSize(c)
    BY <1>1 DEF ResultSize
  <2>2. /\ u.ctx.comp.len \in Int /\ ResultSize(u.out) \in Int /\ ResultSize(c) \in Int
        /\ u.out.inserted \in Int
    BY SMTT(30), <1>0, SessionFacts
  <2>3. CASE c.result = <<>>
    BY <1>1, <2>1, <2>2, <2>3 DEF Text
  <2>4. CASE c.result # <<>>
    BY SMTT(20), <1>1, <2>1, <2>2, <2>4 DEF Text
  <2>5. QED
    BY <2>3, <2>4
<1>3. Balanced(s, t)
  BY <1>1, <1>2 DEF Leads, Balanced
<1>4. Leads(s, t)
  BY <1>1, <1>3 DEF Leads, Formed
<1>5. QED
  BY <1>1, <1>4 DEF t

\* DeleteRange.
LEMMA FormedDelete ==
    ASSUME NEW s, NEW u, Formed(s, u), NEW n \in 0..u.ctx.comp.len
    PROVE  LET t == DeleteRange(u, n)
           IN  /\ Formed(s, t) /\ t.ctx.conv = u.ctx.conv /\ t.ctx.state = u.ctx.state
               /\ t.ctx.comp.len = u.ctx.comp.len - n
               /\ t.out = u.out /\ t.undo = u.undo
               /\ Text(t) = Text(u) - n
<1> DEFINE x == u.ctx.comp.cursor
           len == u.ctx.comp.len - n
           cursor == IF x > n THEN x - n ELSE 0
           w == [u EXCEPT !.ctx.comp.len = @ - n]
           t == [w EXCEPT !.ctx.comp.cursor = IF @ > n THEN @ - n ELSE 0]
<1>0. u \in SessionType /\ x <= u.ctx.comp.len
  BY DEF Formed
<1>a. u.ctx.comp.len \in 0..MaxLen /\ x \in Nat /\ u.ctx.comp.len \in Nat /\ n \in Nat
  BY SMTT(30), <1>0, SessionFacts
<1>b. len \in 0..MaxLen /\ cursor \in 0..MaxLen /\ cursor <= len /\ len \in Nat
  BY SMTT(30), <1>0, <1>a, SessionAssumptions
<1>1. DeleteRange(u, n) = t
  BY DEF DeleteRange
<1>2. w = [u EXCEPT !.ctx.comp.len = len]
  OBVIOUS
<1> HIDE DEF w, len
<1>3. /\ w \in SessionType /\ w.ctx.conv = u.ctx.conv /\ w.ctx.state = u.ctx.state
      /\ w.ctx.comp.len = len /\ w.ctx.comp.cursor = x
      /\ w.ctx.comp.field = u.ctx.comp.field /\ w.undo = u.undo /\ w.out = u.out
  BY <1>0, <1>b, <1>2 DEF SessionType, ContextType, ComposerType
<1>4. t = [w EXCEPT !.ctx.comp.cursor = cursor]
  BY <1>3
<1> HIDE DEF t, cursor
<1>5. /\ t \in SessionType /\ t.ctx.conv = w.ctx.conv /\ t.ctx.state = w.ctx.state
      /\ t.ctx.comp.len = len /\ t.ctx.comp.cursor = cursor
      /\ t.ctx.comp.field = w.ctx.comp.field /\ t.undo = w.undo /\ t.out = w.out
  BY <1>3, <1>b, <1>4 DEF SessionType, ContextType, ComposerType
<1>6. Text(t) = Text(u) - n
  <2>1. /\ ResultSize(u.out) \in Int /\ ResultSize(u.ctx.conv) \in Int
        /\ u.out.inserted \in Int
    BY SMT, <1>0, SessionFacts
  <2>2. QED
    BY SMTT(30), <1>3, <1>5, <1>a, <2>1 DEF Text, len
<1>7. Formed(s, t)
  BY <1>3, <1>5, <1>b DEF Formed
<1>8. QED
  BY <1>1, <1>3, <1>5, <1>6, <1>7 DEF len

\* Characters are inserted into the composition or deleted from it.
LEMMA LeadsResized ==
    ASSUME NEW s, NEW u, Leads(s, u),
           NEW len \in 0..MaxLen, NEW cursor \in 0..MaxLen, cursor <= len
    PROVE  LET t == Resized(u, len, cursor)
           IN  /\ Leads(s, t) /\ t.ctx.conv = u.ctx.conv /\ t.ctx.state = u.ctx.state
               /\ t.ctx.comp.len = len
               /\ t.out.result = u.out.result /\ t.out.discards = u.out.discards
               /\ t.undo = u.undo
<1> DEFINE t == Resized(u, len, cursor)
<1>0. u \in SessionType
  BY DEF Leads, Formed
<1>1. /\ t \in SessionType /\ t.ctx.conv = u.ctx.conv
      /\ t.ctx.state = u.ctx.state
      /\ t.ctx.comp.len = len /\ t.ctx.comp.cursor = cursor
      /\ t.ctx.comp.field = u.ctx.comp.field
      /\ t.undo = u.undo
      /\ t.out.inserted = u.out.inserted + len - u.ctx.comp.len
      /\ t.out.result = u.out.result /\ t.out.config = u.out.config
      /\ t.out.discards = u.out.discards
  BY <1>0, ResizedFacts
<1> HIDE DEF t
<1>2. Text(t) = Text(u)
  <2>1. /\ ResultSize(u.out) \in Int /\ ResultSize(u.ctx.conv) \in Int
        /\ u.out.inserted \in Int /\ u.ctx.comp.len \in Int
    BY SMT, <1>0, SessionFacts
  <2>2. ResultSize(t.out) = ResultSize(u.out)
    BY <1>1 DEF ResultSize
  <2>3. QED
    BY SMT, <1>1, <2>1, <2>2 DEF Text
<1>3. Leads(s, t)
  BY <1>1, <1>2 DEF Leads, Formed, Balanced
<1>4. QED
  BY <1>1, <1>3 DEF t

\* The cursor is moved.
LEMMA LeadsCursor ==
    ASSUME NEW s, NEW u, Leads(s, u), NEW cursor \in 0..u.ctx.comp.len
    PROVE  LET t == [u EXCEPT !.ctx.comp.cursor = cursor]
           IN  /\ Leads(s, t) /\ t.ctx.conv = u.ctx.conv /\ t.ctx.state = u.ctx.state
               /\ t.ctx.comp.len = u.ctx.comp.len
               /\ t.out = u.out /\ t.undo = u.undo
<1> DEFINE t == [u EXCEPT !.ctx.comp.cursor = cursor]
<1>0. u \in SessionType /\ cursor \in 0..MaxLen /\ cursor <= u.ctx.comp.len
  <2>1. u \in SessionType
    BY DEF Leads, Formed
  <2>2. u.ctx.comp.len \in 0..MaxLen
    BY <2>1, SessionFacts
  <2>3. QED
    BY SMTT(30), <2>1, <2>2, SessionAssumptions
<1>1. /\ t \in SessionType /\ t.ctx.conv = u.ctx.conv
      /\ t.ctx.state = u.ctx.state
      /\ t.ctx.comp.len = u.ctx.comp.len /\ t.ctx.comp.cursor = cursor
      /\ t.ctx.comp.field = u.ctx.comp.field
      /\ t.undo = u.undo /\ t.out = u.out
  BY <1>0 DEF SessionType, ContextType, ComposerType
<1> HIDE DEF t
<1>2. Text(t) = Text(u)
  BY <1>1 DEF Text
<1>3. Leads(s, t)
  BY <1>0, <1>1, <1>2 DEF Leads, Formed, Balanced
<1>4. QED
  BY <1>1, <1>3 DEF t

-----------------------------------------------------------------------------
\* Suggest and ZeroQuerySuggest.
LEMMA LeadsSuggest ==
    ASSUME NEW s, NEW u, Leads(s, u),
           u.ctx.conv.state \in {"COMPOSITION", "SUGGESTION"},
           NEW t, t \in {o.s : o \in Suggest(u)} \cup ZeroQuerySuggest(u)
    PROVE  /\ Leads(s, t) /\ t.ctx.state = u.ctx.state /\ t.ctx.comp = u.ctx.comp
           /\ t.ctx.conv.state \in {"COMPOSITION", "SUGGESTION"}
           /\ t.ctx.conv.result = u.ctx.conv.result
           /\ t.ctx.conv.command = u.ctx.conv.command
           /\ t.out = u.out /\ t.undo = u.undo
<1>1. CASE t = u
  BY <1>1
<1>2. CASE t # u
  <2>0. /\ u \in SessionType /\ WellFormed(u.ctx.conv)
        /\ u.ctx.comp.cursor <= u.ctx.comp.len /\ u.ctx.comp \in ComposerType
    BY SessionFacts DEF Leads, Formed
  <2>1. t \in {o.s : o \in Suggest(u)}
    BY <1>2 DEF ZeroQuerySuggest
  <2>2. PICK o \in SC!SuggestWithPreferences(u.ctx.conv, u.ctx.comp) :
              t = [u EXCEPT !.ctx.conv = o.c]
    BY SMT, <2>1 DEF Suggest
  <2>3. /\ WellFormed(o.c)
        /\ o.c.command = u.ctx.conv.command /\ o.c.request = u.ctx.conv.request
        /\ o.c.result = u.ctx.conv.result
        /\ o.c.failed = u.ctx.conv.failed
        /\ o.c.state \in {"COMPOSITION", "SUGGESTION"}
    BY <2>0, SuggestFacts
  <2>4. /\ Leads(s, t) /\ t.ctx.conv = o.c
        /\ t.ctx.state = u.ctx.state /\ t.ctx.comp = u.ctx.comp
        /\ t.undo = u.undo /\ t.out = u.out
    BY SMTT(30), <2>2, <2>3, LeadsConv
  <2>5. QED
    BY <2>3, <2>4
<1>3. QED
  BY <1>1, <1>2

\* Suggestions for a composition that is shown.
LEMMA LeadsSuggestAndOutput ==
    ASSUME NEW s, NEW u, Leads(s, u), ~u.ctx.conv.command,
           u.ctx.conv.state \in {"COMPOSITION", "SUGGESTION"},
           NEW t \in SuggestAndOutput(u)
    PROVE  /\ Leads(s, t) /\ t.ctx.state = u.ctx.state /\ t.ctx.comp = u.ctx.comp
           /\ t.ctx.conv.state \in {"COMPOSITION", "SUGGESTION"}
           /\ u.ctx.conv.result = <<>> => t.ctx.conv.result = <<>>
           /\ ~t.ctx.conv.command /\ t.undo = u.undo
<1>1. PICK o \in Suggest(u) : t = IF o.ok THEN Output(o.s) ELSE o.s
  BY DEF SuggestAndOutput
<1> DEFINE v == o.s
<1>2. /\ Leads(s, v) /\ v.ctx.state = u.ctx.state /\ v.ctx.comp = u.ctx.comp
      /\ v.ctx.conv.state \in {"COMPOSITION", "SUGGESTION"}
      /\ v.ctx.conv.result = u.ctx.conv.result
      /\ v.ctx.conv.command = u.ctx.conv.command /\ v.undo = u.undo
  <2>1. v \in {x.s : x \in Suggest(u)}
    BY <1>1
  <2> HIDE DEF v
  <2>2. QED
    BY SMT, <2>1, LeadsSuggest
<1>3. t = Output(v) \/ t = v
  BY <1>1
<1> HIDE DEF v
<1>4. CASE t = v
  BY <1>2, <1>4
<1>5. CASE t = Output(v)
  BY SMTT(30), <1>2, <1>5, LeadsOutput
<1>6. QED
  BY <1>3, <1>4, <1>5

\* CommitStringDirectly: what is composed is appended to the result.
LEMMA LeadsCommitString ==
    ASSUME NEW s, NEW u, Leads(s, u), Plain(s) => u.ctx.conv.result = <<>>,
           NEW t \in CommitStringDirectly(u)
    PROVE  /\ Leads(s, t) /\ t.undo = u.undo
           /\ u.ctx.comp.len = 0 => t = u
           /\ u.ctx.comp.len > 0 =>
                 /\ t.ctx.state = "PRECOMPOSITION" /\ t.ctx.comp.len = 0
                 /\ t.ctx.conv.state \in {"COMPOSITION", "SUGGESTION"}
                 /\ t.ctx.conv.result = <<>> /\ ~t.ctx.conv.command
<1>0. /\ u \in SessionType /\ WellFormed(u.ctx.conv) /\ u.ctx.comp.len \in Nat
      /\ ResultSize(u.out) \in Nat
  BY SessionFacts DEF Leads, Formed
<1>1. CASE u.ctx.comp.len = 0
  <2>1. t = u
    BY <1>1 DEF CommitStringDirectly
  <2>2. QED
    BY SMT, <1>1, <2>1
<1>2. CASE u.ctx.comp.len # 0
  <2> DEFINE n == u.ctx.comp.len + ResultSize(u.out)
             c == SC!Reset(u.ctx.conv)
             w == [u EXCEPT !.ctx.conv = c]
             x == [w EXCEPT !.out.result = <<n>>]
             y == SetSessionState(x, "PRECOMPOSITION")
  <2>1. PICK v \in ZeroQuerySuggest(y) : t = Output(v)
    BY <1>2 DEF CommitStringDirectly, ResultSize
  <2>2. /\ WellFormed(c) /\ c.state = "COMPOSITION"
        /\ u.ctx.conv.result = <<>> => c.result = <<>>
        /\ c.command = u.ctx.conv.command /\ c.request = u.ctx.conv.request
        /\ c.failed = u.ctx.conv.failed
    BY <1>0, ResetFacts
  <2> HIDE DEF c
  <2>3. /\ Leads(s, w) /\ w.ctx.conv = c
        /\ w.ctx.state = u.ctx.state /\ w.ctx.comp = u.ctx.comp
        /\ w.undo = u.undo /\ w.out = u.out
    BY SMTT(30), <2>2, LeadsConv
  <2> HIDE DEF w
  <2>4. n \in Nat /\ <<n>> \in Results
    BY SMT, <1>0 DEF Results
  <2>a. w \in SessionType
    BY <2>3 DEF Leads, Formed
  <2>5. /\ x \in SessionType /\ x.ctx = w.ctx /\ x.undo = w.undo
        /\ x.out.result = <<n>> /\ x.out.inserted = w.out.inserted
        /\ x.out.config = w.out.config /\ x.out.discards = w.out.discards
    <3> HIDE DEF n
    <3> QED
      BY <2>4, <2>a DEF SessionType, OutputType
  <2> HIDE DEF x
  <2>6. Formed(s, x)
    BY <2>3, <2>5 DEF Leads, Formed
  <2>7. Text(x) = Text(w) + u.ctx.comp.len
    <3>1. ResultSize(x.out) = n
      BY <2>4, <2>5, ResultSizeFacts
    <3>2. ResultSize(w.ctx.conv) \in Int /\ w.out.inserted \in Int
      BY SMTT(30), <2>a, SessionFacts
    <3>3. QED
      BY SMTT(20), <1>0, <2>3, <2>5, <3>1, <3>2 DEF Text
  <2>8. /\ Formed(s, y) /\ y.ctx.conv = x.ctx.conv /\ y.ctx.state = "PRECOMPOSITION"
        /\ y.out = x.out /\ y.undo = x.undo /\ y.ctx.comp.len = 0
        /\ Text(y) = Text(x) + y.ctx.comp.len - x.ctx.comp.len
    BY SMTT(30), <2>6, FormedState
  <2> HIDE DEF y
  <2>9. Text(y) = Text(w)
    <3>1. Text(w) \in Int /\ x.ctx.comp.len = u.ctx.comp.len
      BY <2>3, <2>5, <2>a, SessionFacts
    <3>2. QED
      BY SMTT(30), <1>0, <2>7, <2>8, <3>1
  <2>10. Leads(s, y) /\ y.ctx.conv = c
    BY <2>2, <2>3, <2>5, <2>8, <2>9 DEF Leads, Balanced
  <2>11. /\ Leads(s, v) /\ v.ctx.state = y.ctx.state /\ v.ctx.comp = y.ctx.comp
         /\ v.ctx.conv.state \in {"COMPOSITION", "SUGGESTION"} /\ v.undo = y.undo
    BY SMTT(30), <2>1, <2>2, <2>10, LeadsSuggest
  <2>12. /\ Leads(s, t) /\ t.ctx.state = v.ctx.state /\ t.ctx.comp = v.ctx.comp
         /\ t.ctx.conv.state = v.ctx.conv.state
         /\ t.ctx.conv.result = <<>> /\ ~t.ctx.conv.command /\ t.undo = v.undo
    BY <2>1, <2>11, LeadsOutput
  <2>13. QED
    BY <1>2, <2>3, <2>5, <2>8, <2>11, <2>12
<1>3. QED
  BY <1>1, <1>2

\* EchoBack, in a state in which the converter need not be active.
LEMMA LeadsEchoBack ==
    ASSUME NEW s, NEW u, Leads(s, u), ~u.ctx.conv.command,
           Plain(s) => u.ctx.conv.result = <<>>,
           u.ctx.state # "CONVERSION", Shown(u.ctx)
    PROVE  Step(s, EchoBack(u))
<1> DEFINE c == SC!Reset(u.ctx.conv)
           t == [u EXCEPT !.ctx.conv = c]
<1>0. u \in SessionType /\ WellFormed(u.ctx.conv)
  BY DEF Leads, Formed
<1>1. /\ WellFormed(c) /\ c.state = "COMPOSITION"
      /\ u.ctx.conv.result = <<>> => c.result = <<>>
      /\ c.command = u.ctx.conv.command /\ c.request = u.ctx.conv.request
      /\ c.failed = u.ctx.conv.failed
  BY <1>0, ResetFacts
<1>2. EchoBack(u) = t
  BY DEF EchoBack
<1> HIDE DEF c
<1>3. /\ Leads(s, t) /\ t.ctx.conv = c
      /\ t.ctx.state = u.ctx.state /\ t.ctx.comp = u.ctx.comp
  BY SMTT(30), <1>1, LeadsConv
<1> HIDE DEF t
<1>4. Agree(t.ctx.state, t.ctx.comp.len, "COMPOSITION")
  BY <1>0, <1>3, SessionFacts DEF Agree
<1>5. QED
  BY <1>1, <1>2, <1>3, <1>4, LeadsEnd DEF Covers, Shown

\* EchoBackAndClearUndoContext.
LEMMA EchoBackStep ==
    ASSUME NEW s, NEW u, Leads(s, u), ~u.ctx.conv.command,
           Plain(s) => u.ctx.conv.result = <<>>,
           u.ctx.state # "CONVERSION", Shown(u.ctx),
           NEW t \in EchoBackAndClearUndoContext(u)
    PROVE  Step(s, t)
<1> DEFINE w == ClearUndoContext(u)
<1>1. Leads(s, w) /\ w.ctx = u.ctx
  BY LeadsClearUndo
<1>2. t = EchoBack(w) \/ t = EchoBack(u)
  BY DEF EchoBackAndClearUndoContext
<1> HIDE DEF w
<1>3. QED
  BY <1>1, <1>2, LeadsEchoBack

\* The output is popped, and nothing else is done.
LEMMA OutputStep ==
    ASSUME NEW s, NEW u, Leads(s, u), Covers(u.ctx.conv, u.ctx.comp.len),
           Agree(u.ctx.state, u.ctx.comp.len, u.ctx.conv.state), Shown(u.ctx)
    PROVE  Step(s, Output(u))
<1> DEFINE t == Output(u)
<1>1. /\ Leads(s, t) /\ t.ctx.state = u.ctx.state /\ t.ctx.comp = u.ctx.comp
      /\ t.ctx.conv.state = u.ctx.conv.state /\ t.ctx.conv.keys = u.ctx.conv.keys
      /\ t.ctx.conv.result = <<>> /\ ~t.ctx.conv.command
  BY LeadsOutput
<1> HIDE DEF t
<1>2. Covers(t.ctx.conv, t.ctx.comp.len) /\ Shown(t.ctx)
  BY <1>1 DEF Covers, Shown
<1>3. Step(s, t)
  BY <1>1, <1>2, LeadsEnd
<1>4. QED
  BY <1>3 DEF t

\* What a handler that has done nothing starts from.
LEMMA GoodFacts ==
    ASSUME NEW s, Good(s)
    PROVE  /\ Leads(s, s) /\ s \in SessionType /\ WellFormed(s.ctx.conv)
           /\ s.ctx.comp \in ComposerType /\ s.ctx.comp.len \in Nat
           /\ s.ctx.comp.cursor \in Nat /\ s.ctx.comp.cursor <= s.ctx.comp.len
           /\ s.ctx.state \in {"DIRECT", "PRECOMPOSITION", "COMPOSITION", "CONVERSION"}
           /\ ~s.ctx.conv.command /\ Covers(s.ctx.conv, s.ctx.comp.len)
           /\ Agree(s.ctx.state, s.ctx.comp.len, s.ctx.conv.state) /\ Shown(s.ctx)
           /\ Plain(s) => s.ctx.conv.result = <<>>
           /\ Step(s, s)
<1>1. Leads(s, s) /\ s \in SessionType
  BY LeadsStart DEF Good, Ready
<1>2. /\ WellFormed(s.ctx.conv) /\ s.ctx.comp.cursor <= s.ctx.comp.len
      /\ ~s.ctx.conv.command /\ Covers(s.ctx.conv, s.ctx.comp.len)
      /\ Agree(s.ctx.state, s.ctx.comp.len, s.ctx.conv.state) /\ Shown(s.ctx)
      /\ Plain(s) => s.ctx.conv.result = <<>>
  BY DEF Good, Ready, Fit, Plain
<1>3. Step(s, s)
  BY <1>1, <1>2, LeadsEnd
<1>4. QED
  BY <1>1, <1>2, <1>3, SessionFacts

\* DoNothing.
LEMMA DoNothingStep ==
    ASSUME NEW s, Good(s)
    PROVE  Step(s, DoNothing(s))
<1>0. /\ Leads(s, s) /\ s \in SessionType /\ WellFormed(s.ctx.conv)
      /\ ~s.ctx.conv.command /\ Covers(s.ctx.conv, s.ctx.comp.len)
      /\ Agree(s.ctx.state, s.ctx.comp.len, s.ctx.conv.state) /\ Shown(s.ctx)
      /\ Plain(s) => s.ctx.conv.result = <<>>
      /\ Step(s, s)
  BY GoodFacts
<1> DEFINE c == SC!Reset(s.ctx.conv)
           u == [s EXCEPT !.ctx.conv = c]
<1>1. \/ s.ctx.state = "PRECOMPOSITION" /\ DoNothing(s) = Output(u)
      \/ DoNothing(s) = Output(s)
      \/ DoNothing(s) = s
  BY DEF DoNothing, State
<1>2. CASE s.ctx.state = "PRECOMPOSITION" /\ DoNothing(s) = Output(u)
  <2>1. /\ WellFormed(c) /\ c.state = "COMPOSITION"
        /\ s.ctx.conv.result = <<>> => c.result = <<>>
        /\ c.command = s.ctx.conv.command /\ c.request = s.ctx.conv.request
        /\ c.failed = s.ctx.conv.failed
    BY <1>0, ResetFacts
  <2> HIDE DEF c
  <2>2. /\ Leads(s, u) /\ u.ctx.conv = c
        /\ u.ctx.state = s.ctx.state /\ u.ctx.comp = s.ctx.comp
    BY SMTT(30), <1>0, <2>1, LeadsConv
  <2> HIDE DEF u
  <2>3. Covers(u.ctx.conv, u.ctx.comp.len) /\ Shown(u.ctx)
    BY <1>0, <2>1, <2>2 DEF Covers, Shown
  <2>4. Agree(u.ctx.state, u.ctx.comp.len, u.ctx.conv.state)
    BY <1>2, <2>1, <2>2 DEF Agree
  <2>5. QED
    BY <1>2, <2>2, <2>3, <2>4, OutputStep
<1>3. CASE DoNothing(s) = Output(s)
  BY <1>0, <1>3, OutputStep
<1>4. QED
  BY <1>0, <1>1, <1>2, <1>3

-----------------------------------------------------------------------------
(***************************************************************************)
(* Committing.                                                             *)
(***************************************************************************)
\* What a handler that commits needs of the session that it commits.
Committable(s, u) ==
    /\ Leads(s, u) /\ Fit(u.ctx) /\ Shown(u.ctx) /\ ~u.ctx.conv.failed
    /\ ~u.ctx.conv.command /\ u.out.result = <<>>
    /\ Plain(s) => u.ctx.conv.result = <<>>
    /\ Sound(s) => ~ConvertsNothing(u.ctx)

\* A handler may commit the session it starts from.
LEMMA CommittableStart ==
    ASSUME NEW s, Good(s), ~s.ctx.conv.failed, s.out.result = <<>>
    PROVE  Committable(s, s) /\ Committable(s, ClearUndoContext(s))
<1> DEFINE u == ClearUndoContext(s)
<1>1. Committable(s, s)
  BY GoodFacts DEF Committable, Good, Ready, Sound
<1>2. Leads(s, u) /\ u.ctx = s.ctx /\ u.out = s.out
  BY <1>1, LeadsClearUndo DEF Committable
<1> HIDE DEF u
<1>3. Committable(s, u)
  BY <1>1, <1>2 DEF Committable
<1>4. QED
  BY <1>1, <1>3 DEF u

\* What the lemmas on committing use of such a session.
LEMMA CommittableFacts ==
    ASSUME NEW s, NEW u, Committable(s, u)
    PROVE  /\ u \in SessionType /\ WellFormed(u.ctx.conv)
           /\ u.ctx.comp \in ComposerType /\ u.ctx.comp.len \in Nat
           /\ u.ctx.comp.cursor \in Nat /\ u.ctx.comp.cursor <= u.ctx.comp.len
           /\ u.ctx.state \in {"DIRECT", "PRECOMPOSITION", "COMPOSITION", "CONVERSION"}
           /\ Covers(u.ctx.conv, u.ctx.comp.len)
           /\ Agree(u.ctx.state, u.ctx.comp.len, u.ctx.conv.state)
           /\ Plain(s) => Whole(u.ctx.conv)
           /\ Step(s, u)
<1>1. /\ u \in SessionType /\ WellFormed(u.ctx.conv)
      /\ u.ctx.comp.cursor <= u.ctx.comp.len
      /\ Covers(u.ctx.conv, u.ctx.comp.len)
      /\ Agree(u.ctx.state, u.ctx.comp.len, u.ctx.conv.state)
  BY DEF Committable, Leads, Formed, Fit
<1>2. Plain(s) => Whole(u.ctx.conv)
  BY DEF Committable, Leads, Formed, Plain, Whole
<1>3. Step(s, u)
  BY <1>1, LeadsEnd DEF Committable
<1>4. QED
  BY <1>1, <1>2, <1>3, SessionFacts

\* All of the composition is in the result of the converter, which is then in
\* COMPOSITION or goes on suggesting, and the composition is left.
LEMMA LeadsCommitted ==
    ASSUME NEW s, NEW u, Leads(s, u), u.out.result = <<>>,
           NEW c, WellFormed(c), c.request = u.ctx.conv.request,
           c.state \in {"COMPOSITION", "SUGGESTION"},
           Sound(s) /\ ~u.ctx.conv.failed => ~c.failed,
           ~u.ctx.conv.command, Plain(s) => u.ctx.conv.result = <<>>,
           Plain(s) => c.command \/ ResultSize(c) = u.ctx.comp.len
    PROVE  LET t == SetSessionState([u EXCEPT !.ctx.conv = c], "PRECOMPOSITION")
           IN  /\ Leads(s, t) /\ t.ctx.conv = c /\ t.ctx.state = "PRECOMPOSITION"
               /\ t.ctx.comp.len = 0 /\ t.undo = u.undo /\ t.out = u.out
<1> DEFINE w == [u EXCEPT !.ctx.conv = c]
           t == SetSessionState(w, "PRECOMPOSITION")
<1>0. u \in SessionType /\ u.ctx.comp.len \in Int /\ Text(u) \in Int
  BY SMTT(30), SessionFacts DEF Leads, Formed
<1>1. /\ Formed(s, w) /\ w.ctx.conv = c
      /\ w.ctx.state = u.ctx.state /\ w.ctx.comp = u.ctx.comp
      /\ w.undo = u.undo /\ w.out = u.out
      /\ Text(w) = Text(u) + ResultSize(c) - ResultSize(u.ctx.conv)
  BY SMTT(30), FormedConv DEF Leads
<1> HIDE DEF w
<1>2. /\ Formed(s, t) /\ t.ctx.conv = w.ctx.conv /\ t.ctx.state = "PRECOMPOSITION"
      /\ t.out = w.out /\ t.undo = w.undo /\ t.ctx.comp.len = 0
      /\ Text(t) = Text(w) + t.ctx.comp.len - w.ctx.comp.len
  <2>1. Formed(s, w)
    BY <1>1
  <2>2. QED
    BY SMTT(30), <2>1, FormedState
<1> HIDE DEF t
<1>3. Plain(s) => c.command \/ Text(t) = Text(u)
  <2>1. Plain(s) => ResultSize(u.ctx.conv) = 0
    BY DEF ResultSize
  <2>2. QED
    BY SMTT(30), <1>0, <1>1, <1>2, <2>1
<1>4. Balanced(s, t)
  BY <1>1, <1>2, <1>3 DEF Leads, Balanced
<1>5. QED
  BY <1>1, <1>2, <1>4 DEF w, t, Leads

\* The composition has been left; zero query suggestions may follow it.
LEMMA LeadsFinished ==
    ASSUME NEW s, NEW u, Leads(s, u), u.ctx.state = "PRECOMPOSITION", u.ctx.comp.len = 0,
           u.ctx.conv.state \in {"COMPOSITION", "SUGGESTION"},
           NEW v \in {u} \cup ZeroQuerySuggest(u), NEW t, t = KeepOutput(Output(v))
    PROVE  /\ Step(s, t) /\ Leads(s, t)
           /\ t.ctx.state = "PRECOMPOSITION" /\ t.ctx.comp.len = 0
           /\ t.ctx.conv.state \in {"COMPOSITION", "SUGGESTION"}
           /\ t.ctx.conv.result = <<>> /\ ~t.ctx.conv.command
<1> DEFINE w == Output(v)
<1>1. /\ Leads(s, v) /\ v.ctx.state = "PRECOMPOSITION" /\ v.ctx.comp.len = 0
      /\ v.ctx.conv.state \in {"COMPOSITION", "SUGGESTION"}
  BY SMT, LeadsSuggest
<1>2. /\ Leads(s, w) /\ w.ctx.state = v.ctx.state /\ w.ctx.comp = v.ctx.comp
      /\ w.ctx.conv.state = v.ctx.conv.state
      /\ w.ctx.conv.result = <<>> /\ ~w.ctx.conv.command
  BY <1>1, LeadsOutput
<1> HIDE DEF w
<1>3. Leads(s, t) /\ t.ctx = w.ctx
  BY <1>2, LeadsKeepOutput DEF w
<1>4. /\ Covers(t.ctx.conv, t.ctx.comp.len) /\ Shown(t.ctx)
      /\ Agree(t.ctx.state, t.ctx.comp.len, t.ctx.conv.state)
  BY <1>1, <1>2, <1>3 DEF Covers, Shown, Agree
<1>5. Step(s, t)
  BY <1>2, <1>3, <1>4, LeadsEnd
<1>6. QED
  BY <1>1, <1>2, <1>3, <1>5

\* CommitInternal.
LEMMA CommitStep ==
    ASSUME NEW s, NEW u, Committable(s, u),
           u.ctx.state \in {"COMPOSITION", "CONVERSION"},
           NEW trigger \in BOOLEAN, NEW t \in CommitInternal(u, trigger)
    PROVE  /\ Step(s, t) /\ Leads(s, t)
           /\ t.ctx.state = "PRECOMPOSITION" /\ t.ctx.comp.len = 0
           /\ t.ctx.conv.state \in {"COMPOSITION", "SUGGESTION"}
           /\ t.ctx.conv.result = <<>> /\ ~t.ctx.conv.command
<1> DEFINE p == PushUndoContext(u)
           committed == IF u.ctx.state = "COMPOSITION"
                        THEN {SC!CommitPreedit(u.ctx.conv, u.ctx.comp)}
                        ELSE SC!Commit(u.ctx.conv, u.ctx.comp)
           Left(c) == SetSessionState([p EXCEPT !.ctx.conv = c], "PRECOMPOSITION")
<1>0. /\ u \in SessionType /\ WellFormed(u.ctx.conv)
      /\ u.ctx.comp \in ComposerType /\ u.ctx.comp.len \in Nat
      /\ u.ctx.comp.cursor <= u.ctx.comp.len
      /\ Covers(u.ctx.conv, u.ctx.comp.len)
      /\ Agree(u.ctx.state, u.ctx.comp.len, u.ctx.conv.state)
      /\ Plain(s) => Whole(u.ctx.conv)
  BY CommittableFacts
<1>1. PICK c \in committed :
            \E v \in {Left(c)} \cup ZeroQuerySuggest(Left(c)) : t = KeepOutput(Output(v))
  BY SMT DEF CommitInternal, Only, State, Converted
<1>2. /\ WellFormed(c) /\ c.request = u.ctx.conv.request /\ c.state = "COMPOSITION"
      /\ Sound(s) => ~c.failed
      /\ Plain(s) => c.command \/ ResultSize(c) = u.ctx.comp.len
  <2>1. CASE u.ctx.state = "COMPOSITION"
    <3>1. /\ WellFormed(c) /\ c.state = "COMPOSITION" /\ c.result = <<u.ctx.comp.len>>
          /\ c.request = u.ctx.conv.request /\ c.failed = u.ctx.conv.failed
      BY SMTT(20), <1>0, <1>1, <2>1, CommitPreeditFacts
    <3>2. ResultSize(c) = u.ctx.comp.len
      BY SMTT(30), <1>0, <3>1 DEF ResultSize
    <3>3. QED
      BY <3>1, <3>2 DEF Committable
  <2>2. CASE u.ctx.state = "CONVERSION" /\ u.ctx.conv.state \in {"PREDICTION", "CONVERSION"}
    <3>1. c \in SC!Commit(u.ctx.conv, u.ctx.comp)
      BY <1>1, <2>2
    <3>2. /\ WellFormed(c) /\ c.request = u.ctx.conv.request
          /\ c.state = "COMPOSITION" /\ c.failed = u.ctx.conv.failed
          /\ \/ c.command = TRUE
             \/ \E n \in 0..u.ctx.comp.len :
                   c.result = <<n>> /\ (Whole(u.ctx.conv) => n = u.ctx.comp.len)
      <4> DEFINE b == u.ctx.conv
                 comp == u.ctx.comp
      <4>1. /\ WellFormed(b) /\ comp \in ComposerType /\ comp.cursor <= comp.len
            /\ Covers(b, comp.len) /\ c \in SC!Commit(b, comp)
            /\ b.state \in {"PREDICTION", "CONVERSION"}
        BY <1>0, <2>2, <3>1
      <4> HIDE DEF b, comp
      <4>2. /\ WellFormed(c) /\ c.request = b.request
            /\ b.state \in {"COMPOSITION", "SUGGESTION"} =>
                  c.state = b.state /\ c.result = b.result
            /\ b.state \in {"PREDICTION", "CONVERSION"} =>
                  /\ c.state = "COMPOSITION" /\ c.failed = b.failed
                  /\ \/ c.command = TRUE
                     \/ \E n \in 0..comp.len :
                           c.result = <<n>> /\ (Whole(b) => n = comp.len)
        BY ZenonT(30), <4>1, CommitFacts
      <4>3. QED
        BY <4>1, <4>2 DEF b, comp
    <3>3. Plain(s) => c.command \/ c.result = <<u.ctx.comp.len>>
      BY <1>0, <3>2
    <3>4. c.result = <<u.ctx.comp.len>> => ResultSize(c) = u.ctx.comp.len
      BY SMT, <1>0 DEF ResultSize
    <3>5. QED
      BY <3>2, <3>3, <3>4 DEF Committable
  <2>3. CASE u.ctx.state = "CONVERSION" /\ u.ctx.conv.state \notin {"PREDICTION", "CONVERSION"}
    <3>1. u.ctx.conv.state = "COMPOSITION" /\ u.ctx.comp.len = 0
      BY <1>0, <2>3 DEF Agree
    <3>2. c = SC!Failed(u.ctx.conv)
      BY <1>1, <2>3 DEF SC!Commit, SC!CheckState
    <3>3. /\ WellFormed(c) /\ c.state = "COMPOSITION" /\ c.result = u.ctx.conv.result
          /\ c.request = u.ctx.conv.request
      BY <1>0, <3>1, <3>2, FailedFacts
    <3>4. ~Sound(s)
      BY <2>3, <3>1 DEF Committable, ConvertsNothing
    <3>5. Plain(s) => ResultSize(c) = 0
      BY <3>3 DEF ResultSize, Committable
    <3>6. QED
      BY <3>1, <3>3, <3>4, <3>5
  <2>4. QED
    BY <2>1, <2>2, <2>3
<1> HIDE DEF committed
<1>3. Leads(s, p) /\ p.ctx = u.ctx /\ p.out = u.out
  BY LeadsPushUndo DEF Committable
<1> HIDE DEF p
<1>4. /\ Leads(s, Left(c)) /\ Left(c).ctx.conv = c
      /\ Left(c).ctx.state = "PRECOMPOSITION" /\ Left(c).ctx.comp.len = 0
  BY SMTT(30), <1>2, <1>3, LeadsCommitted DEF Committable
<1> HIDE DEF Left
<1>5. QED
  BY SMTT(30), <1>1, <1>2, <1>4, LeadsFinished

\* CommitSegment and CommitCandidate in CONVERSION: the committed segments
\* leave the composition, or with the last one the composition is left.
LEMMA CommitSegmentsStep ==
    ASSUME NEW s, NEW u, Committable(s, u), u.ctx.state = "CONVERSION",
           NEW c, WellFormed(c), c.request = u.ctx.conv.request,
           Covers(c, u.ctx.comp.len), Plain(s) => c.result = <<>>,
           c.failed = u.ctx.conv.failed,
           \/ c.state \in {"PREDICTION", "CONVERSION"}
           \/ c.state = "COMPOSITION" /\ u.ctx.comp.len = 0,
           NEW k \in {1, c.index + 1},
           NEW t \in CommitSegments(PushUndoContext(u),
                                    SC!CommitSegmentsInternal(c, u.ctx.comp, k))
    PROVE  Step(s, t)
<1> DEFINE p == PushUndoContext(u)
           comp == u.ctx.comp
<1>0. /\ u \in SessionType /\ comp \in ComposerType /\ comp.len \in Nat
      /\ comp.cursor <= comp.len /\ (Plain(s) => Whole(c)) /\ Text(u) \in Int
  BY CommittableFacts, SessionFacts DEF Whole
<1>1. PICK o \in SC!CommitSegmentsInternal(c, comp, k) :
            t \in AfterCommit(DeleteRange([p EXCEPT !.ctx.conv = o.c], o.size))
  BY DEF CommitSegments
<1> DEFINE w == [p EXCEPT !.ctx.conv = o.c]
           x == DeleteRange(w, o.size)
           y == SetSessionState(x, "PRECOMPOSITION")
<1> HIDE DEF comp
<1>2. /\ WellFormed(o.c) /\ o.c.request = c.request
      /\ o.size \in 0..comp.len
      /\ c.state = "COMPOSITION" =>
            o.size = 0 /\ o.c.state = c.state /\ o.c.result = c.result
      /\ c.state \in {"PREDICTION", "CONVERSION"} =>
            /\ o.c.failed = c.failed
            /\ \/ /\ o.c.state = "COMPOSITION" /\ o.size = 0
                  /\ \/ o.c.command = TRUE
                     \/ \E n \in 0..comp.len :
                           o.c.result = <<n>> /\ (Whole(c) => n = comp.len)
               \/ /\ o.c.state = "CONVERSION" /\ Covers(o.c, comp.len - o.size)
                  /\ o.c.result = <<o.size>>
  <2>1. Covers(c, comp.len)
    BY DEF comp
  <2>2. /\ WellFormed(o.c) /\ o.c.request = c.request
        /\ o.size \in 0..comp.len
        /\ c.state \in {"COMPOSITION", "SUGGESTION"} =>
              o.size = 0 /\ o.c.state = c.state /\ o.c.result = c.result
        /\ c.state \in {"PREDICTION", "CONVERSION"} =>
              /\ o.c.failed = c.failed
              /\ \/ /\ o.c.state = "COMPOSITION" /\ o.size = 0
                    /\ \/ o.c.command = TRUE
                       \/ \E n \in 0..comp.len :
                             o.c.result = <<n>> /\ (Whole(c) => n = comp.len)
                 \/ /\ o.c.state = "CONVERSION" /\ Covers(o.c, comp.len - o.size)
                    /\ c.state = "CONVERSION" /\ o.c.result = <<o.size>>
    BY <1>0, <1>1, <2>1, CommitSegmentsFacts
  <2>3. QED
    BY <2>2
<1>3. Sound(s) => ~o.c.failed
  BY <1>2 DEF Committable, ConvertsNothing, comp
<1>4. Leads(s, p) /\ p.ctx = u.ctx /\ p.out = u.out
  BY LeadsPushUndo DEF Committable
<1> HIDE DEF p
<1>5. /\ Formed(s, w) /\ w.ctx.conv = o.c /\ w.ctx.state = "CONVERSION"
      /\ w.ctx.comp = comp /\ w.out = u.out
      /\ Text(w) = Text(p) + ResultSize(o.c) - ResultSize(p.ctx.conv)
  <2>1. Formed(s, p) /\ WellFormed(o.c) /\ o.c.request = p.ctx.conv.request
    BY <1>2, <1>4 DEF Leads
  <2>2. QED
    BY SMTT(30), <1>3, <1>4, <2>1, FormedConv DEF comp
<1> HIDE DEF w
<1>6. /\ Formed(s, x) /\ x.ctx.conv = o.c /\ x.ctx.state = "CONVERSION"
      /\ x.ctx.comp.len = comp.len - o.size
      /\ x.out = u.out /\ Text(x) = Text(w) - o.size
  <2>1. Formed(s, w) /\ o.size \in 0..w.ctx.comp.len
    BY <1>2, <1>5
  <2>2. QED
    BY SMTT(30), <1>5, <2>1, FormedDelete
<1> HIDE DEF x
<1>7. /\ Text(p) = Text(u) /\ o.size \in Int /\ ResultSize(o.c) \in Int
      /\ Plain(s) => ResultSize(p.ctx.conv) = 0
  <2>1. Text(p) = Text(u)
    BY <1>4 DEF Text
  <2>2. o.c.result \in Results
    BY <1>2 DEF WellFormed, ConverterType
  <2>3. ResultSize(o.c) \in Int
    BY SMTT(30), <2>2, ResultSizeFacts
  <2>4. Plain(s) => ResultSize(p.ctx.conv) = 0
    BY <1>4 DEF Committable, ResultSize
  <2>5. o.size \in Int
    BY SMTT(20), <1>0, <1>2
  <2>6. QED
    BY <2>1, <2>3, <2>4, <2>5
<1>8. CASE o.c.state = "COMPOSITION"
  <2>1. \E v \in ZeroQuerySuggest(y) : t = KeepOutput(Output(v))
    BY <1>1, <1>6, <1>8 DEF AfterCommit, SC!IsActive, SC!CheckState, x, w
  <2>2. /\ Formed(s, y) /\ y.ctx.conv = x.ctx.conv /\ y.ctx.state = "PRECOMPOSITION"
        /\ y.out = x.out /\ y.ctx.comp.len = 0
        /\ Text(y) = Text(x) + y.ctx.comp.len - x.ctx.comp.len
    <3>1. Formed(s, x)
      BY <1>6
    <3>2. QED
      BY SMTT(30), <3>1, FormedState
  <2> HIDE DEF y
  <2>3. o.size = 0 /\ (Plain(s) => o.c.command \/ ResultSize(o.c) = comp.len)
    <3>1. CASE c.state = "COMPOSITION"
      <4>1. Plain(s) => o.c.result = <<>> /\ comp.len = 0
        BY <1>2, <3>1 DEF comp
      <4>2. QED
        BY <1>2, <3>1, <4>1 DEF ResultSize
    <3>2. CASE c.state \in {"PREDICTION", "CONVERSION"}
      <4>1. /\ o.size = 0
            /\ \/ o.c.command = TRUE
               \/ \E n \in 0..comp.len :
                     o.c.result = <<n>> /\ (Whole(c) => n = comp.len)
        BY <1>2, <1>8, <3>2
      <4>2. Plain(s) => o.c.command \/ o.c.result = <<comp.len>>
        BY <1>0, <4>1
      <4>3. o.c.result = <<comp.len>> => ResultSize(o.c) = comp.len
        BY SMTT(20), <1>0 DEF ResultSize
      <4>4. QED
        BY <4>1, <4>2, <4>3
    <3>3. QED
      BY <3>1, <3>2
  <2>4. Plain(s) => o.c.command \/ Text(y) = Text(u)
    BY SMTT(20), <1>0, <1>5, <1>6, <1>7, <2>2, <2>3
  <2>5. Leads(s, y)
    BY <1>6, <2>2, <2>4 DEF Leads, Balanced, Committable
  <2>6. QED
    BY SMTT(30), <1>6, <1>8, <2>1, <2>2, <2>5, LeadsFinished
<1>9. CASE o.c.state = "CONVERSION"
  <2>1. t = KeepOutput(Output(x))
    <3>1. SC!IsActive(x.ctx.conv)
      BY <1>6, <1>9 DEF SC!IsActive, SC!CheckState
    <3>2. t \in AfterCommit(x)
      BY <1>1 DEF x, w
    <3>3. QED
      BY <3>1, <3>2 DEF AfterCommit
  <2>2. Covers(o.c, comp.len - o.size) /\ o.c.result = <<o.size>>
    BY <1>2, <1>9
  <2>3. ResultSize(o.c) = o.size
    BY SMTT(20), <2>2 DEF ResultSize
  <2>4. Plain(s) => Text(x) = Text(u)
    BY SMTT(20), <1>0, <1>5, <1>6, <1>7, <2>3
  <2>5. Leads(s, x)
    BY <1>6, <2>4 DEF Leads, Balanced, Committable
  <2> DEFINE z == Output(x)
  <2>6. /\ Leads(s, z) /\ z.ctx.state = x.ctx.state /\ z.ctx.comp = x.ctx.comp
        /\ z.ctx.conv.state = x.ctx.conv.state /\ z.ctx.conv.keys = x.ctx.conv.keys
        /\ z.ctx.conv.result = <<>> /\ ~z.ctx.conv.command
    BY <2>5, LeadsOutput
  <2> HIDE DEF z
  <2>7. Leads(s, t) /\ t.ctx = z.ctx
    BY <2>1, <2>6, LeadsKeepOutput DEF z
  <2>8. /\ Covers(t.ctx.conv, t.ctx.comp.len) /\ Shown(t.ctx)
        /\ Agree(t.ctx.state, t.ctx.comp.len, t.ctx.conv.state)
    BY <1>6, <1>9, <2>2, <2>6, <2>7 DEF Covers, Shown, Agree
  <2>9. QED
    BY <2>6, <2>7, <2>8, LeadsEnd
<1>10. QED
  BY <1>2, <1>8, <1>9

\* The converter commits the first characters of the composition.
LEMMA FormedCommitHead ==
    ASSUME NEW s, NEW u, Formed(s, u), NEW n \in Nat
    PROVE  LET t == [u EXCEPT !.ctx.conv = SC!CommitHead(@, n)]
           IN  /\ Formed(s, t)
               /\ t.ctx.conv.state = u.ctx.conv.state /\ t.ctx.conv.result = <<n>>
               /\ t.ctx.state = u.ctx.state /\ t.ctx.comp = u.ctx.comp
               /\ t.undo = u.undo /\ t.out = u.out
<1> DEFINE c == SC!CommitHead(u.ctx.conv, n)
           t == [u EXCEPT !.ctx.conv = c]
<1>1. WellFormed(u.ctx.conv) /\ u.ctx.comp \in ComposerType
  BY SessionFacts DEF Formed
<1>2. /\ WellFormed(c) /\ c.state = u.ctx.conv.state /\ c.result = <<n>>
      /\ c.request = u.ctx.conv.request /\ c.failed = u.ctx.conv.failed
  BY <1>1, CommitPreeditFacts
<1>3. [u EXCEPT !.ctx.conv = SC!CommitHead(@, n)] = t
  OBVIOUS
<1> HIDE DEF c
<1>4. /\ Formed(s, t) /\ t.ctx.conv = c
      /\ t.ctx.state = u.ctx.state /\ t.ctx.comp = u.ctx.comp
      /\ t.undo = u.undo /\ t.out = u.out
  BY SMTT(30), <1>2, FormedConv
<1> HIDE DEF t
<1>5. QED
  BY <1>2, <1>3, <1>4

\* CommitHead of all characters, or of all but one in COMPOSITION.
LEMMA CommitHeadStep ==
    ASSUME NEW s, NEW u, Leads(s, u), s.ctx.comp.field # "NORMAL",
           u.ctx.state \in {"PRECOMPOSITION", "COMPOSITION"},
           u.ctx.conv.state \in {"COMPOSITION", "SUGGESTION"},
           NEW n \in 0..u.ctx.comp.len,
           u.ctx.state = "PRECOMPOSITION" => n = u.ctx.comp.len,
           NEW t \in CommitHead(u, n)
    PROVE  Step(s, t)
<1> DEFINE v == ClearUndoContext(u)
           w == [v EXCEPT !.ctx.conv = SC!CommitHead(@, n)]
           x == DeleteRange(w, n)
<1>0. u.ctx.comp.len \in Nat /\ n \in Nat
  BY SMTT(30), SessionFacts DEF Leads, Formed
<1>1. Formed(s, v) /\ v.ctx = u.ctx /\ v.out = u.out
  BY LeadsClearUndo DEF Leads
<1>2. t = Output(x)
  BY DEF CommitHead, Only, State
<1> HIDE DEF v
<1>3. /\ Formed(s, w) /\ w.ctx.conv.state = v.ctx.conv.state
      /\ w.ctx.state = v.ctx.state /\ w.ctx.comp = v.ctx.comp /\ w.out = v.out
  BY SMTT(20), <1>0, <1>1, FormedCommitHead
<1> HIDE DEF w
<1>4. /\ Formed(s, x) /\ x.ctx.conv = w.ctx.conv /\ x.ctx.state = w.ctx.state
      /\ x.ctx.comp.len = w.ctx.comp.len - n /\ x.out = w.out
  <2>1. n \in 0..w.ctx.comp.len
    BY <1>1, <1>3
  <2>2. QED
    BY SMTT(30), <1>3, <2>1, FormedDelete
<1> HIDE DEF x
<1>5. Leads(s, x)
  BY <1>1, <1>3, <1>4 DEF Leads, Balanced
<1>6. /\ Covers(x.ctx.conv, x.ctx.comp.len) /\ Shown(x.ctx)
      /\ Agree(x.ctx.state, x.ctx.comp.len, x.ctx.conv.state)
  BY SMTT(30), <1>0, <1>1, <1>3, <1>4 DEF Covers, Shown, Agree
<1>7. QED
  BY <1>2, <1>5, <1>6, OutputStep


\* CommitSegment.
LEMMA CommitSegmentStep ==
    ASSUME NEW s, Starts(s), NEW t \in CommitSegment(s)
    PROVE  Step(s, t)
<1> DEFINE c == s.ctx.conv
<1>0. Committable(s, s) /\ Good(s)
  BY CommittableStart DEF Starts
<1>1. /\ WellFormed(c) /\ Covers(c, s.ctx.comp.len)
      /\ Agree(s.ctx.state, s.ctx.comp.len, c.state)
      /\ Plain(s) => c.result = <<>>
  BY <1>0, GoodFacts
<1>2. CASE s.ctx.state = "CONVERSION"
  <2>1. t \in CommitSegments(PushUndoContext(s),
                             SC!CommitSegmentsInternal(c, s.ctx.comp, 1))
    BY <1>2 DEF CommitSegment, Only, State, SC!CommitFirstSegment
  <2>2. \/ c.state \in {"PREDICTION", "CONVERSION"}
        \/ c.state = "COMPOSITION" /\ s.ctx.comp.len = 0
    BY <1>1, <1>2 DEF Agree
  <2>3. c.request = s.ctx.conv.request /\ c.failed = s.ctx.conv.failed
    OBVIOUS
  <2> HIDE DEF c
  <2>4. QED
    BY <1>0, <1>1, <1>2, <2>1, <2>2, <2>3, CommitSegmentsStep
<1>3. CASE s.ctx.state # "CONVERSION"
  BY <1>0, <1>3, DoNothingStep DEF CommitSegment, Only, State
<1>4. QED
  BY <1>2, <1>3

\* A suggestion is committed and nothing of the composition is left.
LEMMA SuggestionCommitted ==
    ASSUME NEW s, Committable(s, s), s.ctx.conv.state = "SUGGESTION",
           NEW o \in SC!CommitSuggestion(s.ctx.conv, s.ctx.comp),
           NEW v, v = SetSessionState([PushUndoContext(s) EXCEPT !.ctx.conv = o.c],
                                      "PRECOMPOSITION"),
           NEW w \in ZeroQuerySuggest(v), NEW t, t = KeepOutput(Output(w))
    PROVE  Step(s, t)
<1> DEFINE p == PushUndoContext(s)
<1>0. /\ WellFormed(s.ctx.conv) /\ s.ctx.comp \in ComposerType /\ s.ctx.comp.len \in Nat
      /\ s.ctx.comp.cursor <= s.ctx.comp.len
      /\ Plain(s) => Whole(s.ctx.conv)
  BY CommittableFacts
<1>1. /\ o.ok \in BOOLEAN /\ WellFormed(o.c) /\ o.c.request = s.ctx.conv.request
      /\ o.c.failed = s.ctx.conv.failed
      /\ o.c.state \in {"COMPOSITION", "SUGGESTION"}
      /\ ~o.ok => o.c.command = TRUE
      /\ o.ok => o.c.result = <<o.size>> /\ (Whole(s.ctx.conv) => o.size = s.ctx.comp.len)
  BY <1>0, CommitSuggestionFacts
<1>2. Plain(s) => o.c.command \/ ResultSize(o.c) = s.ctx.comp.len
  <2>1. o.c.result = <<s.ctx.comp.len>> => ResultSize(o.c) = s.ctx.comp.len
    BY SMTT(30), <1>0 DEF ResultSize
  <2>2. QED
    BY <1>0, <1>1, <2>1
<1>3. Leads(s, p) /\ p.ctx = s.ctx /\ p.out = s.out
  BY LeadsPushUndo DEF Committable
<1>4. v = SetSessionState([p EXCEPT !.ctx.conv = o.c], "PRECOMPOSITION")
  OBVIOUS
<1> HIDE DEF p
<1>5. /\ Leads(s, v) /\ v.ctx.conv = o.c /\ v.ctx.state = "PRECOMPOSITION"
      /\ v.ctx.comp.len = 0
  <2> DEFINE c == o.c
  <2>1. /\ WellFormed(c) /\ c.request = p.ctx.conv.request
        /\ c.state \in {"COMPOSITION", "SUGGESTION"}
        /\ Sound(s) /\ ~p.ctx.conv.failed => ~c.failed
        /\ Plain(s) => c.command \/ ResultSize(c) = p.ctx.comp.len
    BY <1>1, <1>2, <1>3
  <2>2. /\ Leads(s, p) /\ p.out.result = <<>> /\ ~p.ctx.conv.command
        /\ Plain(s) => p.ctx.conv.result = <<>>
    BY <1>3 DEF Committable
  <2>3. v = SetSessionState([p EXCEPT !.ctx.conv = c], "PRECOMPOSITION")
    BY <1>4
  <2> HIDE DEF c
  <2>4. /\ Leads(s, v) /\ v.ctx.conv = c /\ v.ctx.state = "PRECOMPOSITION"
        /\ v.ctx.comp.len = 0
    BY SMTT(30), <2>1, <2>2, <2>3, LeadsCommitted
  <2>5. QED
    BY <2>4 DEF c
<1>6. QED
  BY <1>1, <1>5, LeadsFinished

\* CommitFirstSuggestion.
LEMMA CommitFirstSuggestionStep ==
    ASSUME NEW s, Starts(s), NEW t \in CommitFirstSuggestion(s)
    PROVE  Step(s, t)
<1> DEFINE Left(o) == SetSessionState([PushUndoContext(s) EXCEPT !.ctx.conv = o.c],
                                      "PRECOMPOSITION")
<1>0. /\ Committable(s, s) /\ Good(s)
      /\ Agree(s.ctx.state, s.ctx.comp.len, s.ctx.conv.state)
  BY CommittableStart, GoodFacts DEF Starts
<1>1. CASE s.ctx.state \in {"COMPOSITION", "PRECOMPOSITION"} /\ SC!IsActive(s.ctx.conv)
  <2>1. PICK o \in SC!CommitSuggestion(s.ctx.conv, s.ctx.comp) :
              \E w \in ZeroQuerySuggest(Left(o)) : t = KeepOutput(Output(w))
    BY <1>1 DEF CommitFirstSuggestion, State
  <2>2. s.ctx.conv.state = "SUGGESTION"
    BY <1>0, <1>1 DEF Agree, SC!IsActive, SC!CheckState
  <2>3. QED
    BY <1>0, <2>1, <2>2, SuggestionCommitted
<1>2. CASE ~(s.ctx.state \in {"COMPOSITION", "PRECOMPOSITION"} /\ SC!IsActive(s.ctx.conv))
  BY <1>0, <1>2, DoNothingStep DEF CommitFirstSuggestion, State
<1>3. QED
  BY <1>1, <1>2

-----------------------------------------------------------------------------
\* CommitCompositionDirectly of a composition that is shown.
LEMMA CommitStringStep ==
    ASSUME NEW s, NEW u, Leads(s, u), ~u.ctx.conv.command,
           Plain(s) => u.ctx.conv.result = <<>>,
           \/ u.ctx.comp.len > 0
           \/ /\ Covers(u.ctx.conv, u.ctx.comp.len) /\ Shown(u.ctx)
              /\ Agree(u.ctx.state, u.ctx.comp.len, u.ctx.conv.state),
           NEW t \in CommitStringDirectly(u)
    PROVE  Step(s, t)
<1>1. /\ Leads(s, t)
      /\ u.ctx.comp.len = 0 => t = u
      /\ u.ctx.comp.len > 0 =>
            /\ t.ctx.state = "PRECOMPOSITION" /\ t.ctx.comp.len = 0
            /\ t.ctx.conv.state \in {"COMPOSITION", "SUGGESTION"}
            /\ t.ctx.conv.result = <<>> /\ ~t.ctx.conv.command
  BY LeadsCommitString
<1>2. u.ctx.comp.len \in Nat
  BY SessionFacts DEF Leads, Formed
<1>3. CASE u.ctx.comp.len > 0
  <2>1. /\ Covers(t.ctx.conv, t.ctx.comp.len) /\ Shown(t.ctx)
        /\ Agree(t.ctx.state, t.ctx.comp.len, t.ctx.conv.state)
    BY <1>1, <1>3 DEF Covers, Shown, Agree
  <2>2. QED
    BY <1>1, <1>3, <2>1, LeadsEnd
<1>4. CASE u.ctx.comp.len = 0
  BY SMTT(30), <1>1, <1>4, LeadsEnd
<1>5. QED
  BY SMTT(30), <1>2, <1>3, <1>4

\* SuggestAndOutput for a composition that is shown.
LEMMA SuggestStep ==
    ASSUME NEW s, NEW u, Leads(s, u), ~u.ctx.conv.command,
           Plain(s) => u.ctx.conv.result = <<>>,
           u.ctx.conv.state \in {"COMPOSITION", "SUGGESTION"},
           \/ u.ctx.state = "COMPOSITION"
           \/ u.ctx.state = "PRECOMPOSITION" /\ u.ctx.comp.len = 0,
           NEW t \in SuggestAndOutput(u)
    PROVE  Step(s, t)
<1>1. /\ Leads(s, t) /\ t.ctx.state = u.ctx.state /\ t.ctx.comp = u.ctx.comp
      /\ t.ctx.conv.state \in {"COMPOSITION", "SUGGESTION"}
      /\ u.ctx.conv.result = <<>> => t.ctx.conv.result = <<>>
      /\ ~t.ctx.conv.command
  BY LeadsSuggestAndOutput
<1>2. /\ Covers(t.ctx.conv, t.ctx.comp.len) /\ Shown(t.ctx)
      /\ Agree(t.ctx.state, t.ctx.comp.len, t.ctx.conv.state)
  BY <1>1 DEF Covers, Shown, Agree
<1>3. QED
  BY <1>1, <1>2, LeadsEnd

\* MoveCursor.
LEMMA MoveCursorStep ==
    ASSUME NEW s, NEW u, Leads(s, u), ~u.ctx.conv.command,
           Plain(s) => u.ctx.conv.result = <<>>,
           u.ctx.state = "COMPOSITION",
           u.ctx.conv.state \in {"COMPOSITION", "SUGGESTION"},
           NEW cursor \in 0..u.ctx.comp.len,
           NEW t \in MoveCursor(u, cursor)
    PROVE  Step(s, t)
<1> DEFINE w == [u EXCEPT !.ctx.comp.cursor = cursor]
<1>1. CASE u.ctx.comp.field = "PASSWORD"
  <2>1. t \in CommitStringDirectly(u)
    BY <1>1 DEF MoveCursor, CommitIfPassword, CommitCompositionDirectly
  <2>2. /\ Covers(u.ctx.conv, u.ctx.comp.len) /\ Shown(u.ctx)
        /\ Agree(u.ctx.state, u.ctx.comp.len, u.ctx.conv.state)
    BY DEF Covers, Shown, Agree
  <2>3. QED
    BY <2>1, <2>2, CommitStringStep
<1>2. CASE u.ctx.comp.field # "PASSWORD"
  <2>1. t \in SuggestAndOutput(w)
    BY <1>2 DEF MoveCursor, CommitIfPassword
  <2>2. Leads(s, w) /\ w.ctx.conv = u.ctx.conv /\ w.ctx.state = u.ctx.state
    BY LeadsCursor
  <2> HIDE DEF w
  <2>3. QED
    BY <2>1, <2>2, SuggestStep
<1>3. QED
  BY <1>1, <1>2

\* KeepOutput at the end of a handler.
LEMMA KeepOutputStep ==
    ASSUME NEW s, NEW u, Step(s, u)
    PROVE  Step(s, KeepOutput(u))
<1> DEFINE t == KeepOutput(u)
<1>1. t \in SessionType /\ t.ctx = u.ctx /\ t.out = u.out /\ t.undo = u.undo
  BY DEF Step, Good, Ready, SessionType, KeepOutput
<1> HIDE DEF t
<1>2. Text(t) = Text(u)
  BY <1>1 DEF Text
<1>3. Step(s, t)
  BY <1>1, <1>2 DEF Step, Good, Ready
<1>4. QED
  BY <1>3 DEF t

\* Of a partial suggestion the rest stays in the composition.
LEMMA PartialStep ==
    ASSUME NEW s, Committable(s, s), s.ctx.state = "COMPOSITION",
           s.ctx.conv.state = "SUGGESTION",
           NEW o \in SC!CommitSuggestion(s.ctx.conv, s.ctx.comp),
           o.ok, o.size < s.ctx.comp.len,
           NEW t \in MoveCursorToEnd(
                         DeleteRange([PushUndoContext(s) EXCEPT !.ctx.conv = o.c], o.size))
    PROVE  Step(s, t)
<1> DEFINE p == PushUndoContext(s)
           v == [p EXCEPT !.ctx.conv = o.c]
           w == DeleteRange(v, o.size)
<1>0. /\ WellFormed(s.ctx.conv) /\ s.ctx.comp \in ComposerType /\ s.ctx.comp.len \in Nat
      /\ s.ctx.comp.cursor <= s.ctx.comp.len
      /\ Plain(s) => Whole(s.ctx.conv)
  BY CommittableFacts
<1>1. /\ o.size \in 0..s.ctx.comp.len
      /\ WellFormed(o.c) /\ o.c.request = s.ctx.conv.request
      /\ o.c.failed = s.ctx.conv.failed /\ o.c.command = s.ctx.conv.command
      /\ o.c.state \in {"COMPOSITION", "SUGGESTION"}
      /\ Whole(s.ctx.conv) => o.size = s.ctx.comp.len
  BY <1>0, CommitSuggestionFacts
<1>2. ~Plain(s)
  BY SMTT(30), <1>0, <1>1
<1>3. Formed(s, p) /\ p.ctx = s.ctx
  BY LeadsPushUndo DEF Committable, Leads
<1> HIDE DEF p
<1>4. Formed(s, v) /\ v.ctx.conv = o.c /\ v.ctx.state = s.ctx.state /\ v.ctx.comp = s.ctx.comp
  <2>1. /\ WellFormed(o.c) /\ o.c.request = p.ctx.conv.request
        /\ Sound(s) /\ ~p.ctx.conv.failed => ~o.c.failed
    BY <1>1, <1>3
  <2>2. /\ Formed(s, v) /\ v.ctx.conv = o.c
        /\ v.ctx.state = p.ctx.state /\ v.ctx.comp = p.ctx.comp
    BY SMTT(30), <1>3, <2>1, FormedConv
  <2> HIDE DEF v
  <2>3. QED
    BY <1>3, <2>2
<1> HIDE DEF v
<1>5. Formed(s, w) /\ w.ctx.conv = v.ctx.conv /\ w.ctx.state = v.ctx.state
  <2>1. o.size \in 0..v.ctx.comp.len
    BY <1>1, <1>4
  <2>2. QED
    BY SMTT(30), <1>4, <2>1, FormedDelete
<1>6. t \in MoveCursor(w, w.ctx.comp.len)
  BY DEF MoveCursorToEnd, p, v
<1> HIDE DEF w
<1>7. Leads(s, w)
  BY <1>2, <1>5 DEF Leads, Balanced
<1>8. w.ctx.comp.len \in Nat
  BY <1>5, SessionFacts DEF Formed
<1>9. w.ctx.comp.len \in 0..w.ctx.comp.len
  BY SMTT(30), <1>8
<1>10. ~w.ctx.conv.command
  BY <1>1, <1>4, <1>5 DEF Committable
<1>11. QED
  BY <1>1, <1>2, <1>4, <1>5, <1>6, <1>7, <1>9, <1>10, MoveCursorStep

\* CommitCandidate.
LEMMA CommitCandidateStep ==
    ASSUME NEW s, Starts(s), NEW t \in CommitCandidate(s)
    PROVE  Step(s, t)
<1> DEFINE comp == s.ctx.comp
           p == PushUndoContext(s)
           Left(o) == [p EXCEPT !.ctx.conv = o.c]
<1>0. /\ Committable(s, s) /\ Good(s) /\ Step(s, s)
      /\ WellFormed(s.ctx.conv) /\ comp \in ComposerType /\ comp.len \in Nat
      /\ Covers(s.ctx.conv, comp.len) /\ comp.cursor <= comp.len
      /\ Agree(s.ctx.state, comp.len, s.ctx.conv.state) /\ Shown(s.ctx)
      /\ s.ctx.state \in {"DIRECT", "PRECOMPOSITION", "COMPOSITION", "CONVERSION"}
      /\ Plain(s) => s.ctx.conv.result = <<>>
  BY CommittableStart, GoodFacts DEF Starts
<1>1. CASE s.ctx.state = "DIRECT" \/ ~SC!IsActive(s.ctx.conv)
  BY <1>0, <1>1 DEF CommitCandidate, State
<1>2. CASE s.ctx.state = "CONVERSION" /\ SC!IsActive(s.ctx.conv)
  <2>1. PICK c \in SC!CandidateMoveToId(s.ctx.conv, comp) :
              t \in CommitSegments(p, SC!CommitSegmentsInternal(c, comp, c.index + 1))
    BY <1>2 DEF CommitCandidate, State, SC!CommitHeadToFocusedSegments
  <2>2. /\ WellFormed(c) /\ c.request = s.ctx.conv.request
        /\ s.ctx.conv.result = <<>> => c.result = <<>>
        /\ c.state \in {"PREDICTION", "CONVERSION"} /\ c.failed = s.ctx.conv.failed
        /\ Covers(c, comp.len)
    BY SMTT(20), <1>0, <1>2, <2>1, CandidateFacts
  <2>3. QED
    BY <1>0, <1>2, <2>1, <2>2, CommitSegmentsStep
<1>3. CASE s.ctx.state \in {"PRECOMPOSITION", "COMPOSITION"} /\ SC!IsActive(s.ctx.conv)
  <2>1. s.ctx.conv.state = "SUGGESTION"
    BY <1>0, <1>3 DEF Agree, SC!IsActive, SC!CheckState
  <2>2. PICK o \in SC!CommitSuggestion(s.ctx.conv, comp) :
              IF o.ok /\ o.size < comp.len
              THEN t \in {KeepOutput(u) : u \in MoveCursorToEnd(DeleteRange(Left(o), o.size))}
              ELSE t \in AfterCommit(Left(o))
    BY <1>3 DEF CommitCandidate, State
  <2>3. /\ o.ok \in BOOLEAN /\ o.size \in 0..comp.len /\ WellFormed(o.c)
        /\ ~o.ok => o.c.state = "COMPOSITION"
        /\ o.ok /\ o.size = comp.len => o.c.state = "COMPOSITION"
    <3>1. /\ o.ok \in BOOLEAN /\ o.size \in 0..comp.len
          /\ WellFormed(o.c)
          /\ ~o.ok => o.c.state = "COMPOSITION" /\ o.c.command = TRUE
          /\ o.ok => (o.size = comp.len => o.c.state = "COMPOSITION")
      BY <1>0, <2>1, CommitSuggestionFacts
    <3>2. QED
      BY <3>1
  <2>4. CASE o.ok /\ o.size < comp.len
    <3>1. PICK u \in MoveCursorToEnd(DeleteRange(Left(o), o.size)) : t = KeepOutput(u)
      BY <2>2, <2>4
    <3>2. s.ctx.state = "COMPOSITION"
      BY SMTT(30), <1>0, <1>3, <2>3, <2>4 DEF Shown
    <3>3. Step(s, u)
      BY <1>0, <2>1, <2>4, <3>1, <3>2, PartialStep
    <3>4. QED
      BY <3>1, <3>3, KeepOutputStep
  <2>5. CASE ~(o.ok /\ o.size < comp.len)
    <3>1. o.c.state = "COMPOSITION"
      BY SMTT(30), <1>0, <2>3, <2>5
    <3>2. Left(o).ctx.conv = o.c
      <4>1. p \in SessionType
        BY <1>0, LeadsPushUndo DEF Committable, Leads, Formed
      <4>2. o.c \in ConverterType
        BY <2>3 DEF WellFormed
      <4> HIDE DEF p
      <4>3. QED
        BY <4>1, <4>2, ConvFacts
    <3>3. ~SC!IsActive(Left(o).ctx.conv)
      BY <3>1, <3>2 DEF SC!IsActive, SC!CheckState
    <3>4. PICK w \in ZeroQuerySuggest(SetSessionState(Left(o), "PRECOMPOSITION")) :
                t = KeepOutput(Output(w))
      <4> HIDE DEF Left
      <4> QED
        BY <2>2, <2>5, <3>3 DEF AfterCommit
    <3>5. QED
      BY <1>0, <2>1, <3>4, SuggestionCommitted
  <2>6. QED
    BY <2>4, <2>5
<1>4. QED
  BY <1>0, <1>1, <1>2, <1>3
=============================================================================
