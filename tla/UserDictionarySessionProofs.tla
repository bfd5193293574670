-------------------- MODULE UserDictionarySessionProofs --------------------
(***************************************************************************)
(* UndoRestores and StorageValid of UserDictionarySession for any limits,  *)
(* any dictionaries and entries, and any data to import.                   *)
(*                                                                         *)
(* UndoRestores is inductive once the types are known: a new command is    *)
(* the inverse of the edit it is remembered for, and the commands before   *)
(* it are run in the same storages as before.  StorageValid is not: Undo   *)
(* brings back an older storage, so the older ones have to be valid, too.  *)
(***************************************************************************)
EXTENDS UserDictionarySession, FiniteSetTheorems, SequenceTheorems,
        WellFoundedInduction, TLAPS

\* Nearly every leaf is first-order reasoning about named facts; the ones with
\* arithmetic, sequences or records to compute cite SMT.
USE ZenonT(30)

-----------------------------------------------------------------------------
(***************************************************************************)
(* The inductive invariant.                                                *)
(***************************************************************************)
Dic == [id : Id, name : Names, entries : Seq(Entries)]
Storage == Seq(Dic)

Command ==
    {UndoCreateDictionary}
    \cup [type : {"DeleteDictionary"}, index : Nat, dictionary : Dic]
    \cup [type : {"DeleteLastDictionary"}, dictionary : Dic]
    \cup [type : {"RenameDictionary"}, id : Id, name : Names]
    \cup [type : {"AddEntry"}, id : Id]
    \cup [type : {"EditEntry"}, id : Id, index : Nat, entry : Entries]
    \cup [type : {"DeleteEntry"}, id : Id,
          deleted : UNION {[I -> Entries] : I \in SUBSET Nat}]
    \cup [type : {"Import"}, id : Id, num : Nat]

TypeInv ==
    /\ dictionaries \in Storage
    /\ undo_history \in Seq(Command)
    /\ past \in Seq(Storage)
    /\ default_name \in Names

IInv == TypeInv /\ UndoRestores

\* What StorageValid says of a storage, with distinct ids and names spelled out.
Valid(dics) ==
    /\ Len(dics) <= kMaxDictionarySize
    /\ \A i, j \in 1..Len(dics) :
          i # j => dics[i].id # dics[j].id /\ dics[i].name # dics[j].name
    /\ \A i \in 1..Len(dics) : Len(dics[i].entries) <= kMaxEntrySize

ValidInv == IInv /\ Valid(dictionaries) /\ \A n \in 1..Len(past) : Valid(past[n])

-----------------------------------------------------------------------------
(***************************************************************************)
(* Sequences.                                                              *)
(***************************************************************************)
\* A set of naturals that is not empty has a least element.
LEMMA LeastNatural ==
    ASSUME NEW T, T \subseteq Nat, T # {}
    PROVE  \E n \in T : \A m \in T : n <= m
<1> DEFINE R == OpToRel(<, Nat)
<1>1. IsWellFoundedOn(R, Nat)
  BY NatLessThanWellFounded
<1>2. \A n, m \in Nat : n < m => <<n, m>> \in R
  BY DEF OpToRel
<1> HIDE DEF R
<1>3. PICK n \in T : \A m \in T : <<m, n>> \notin R
  BY <1>1, WFMin
<1>4. \A m \in T : ~(m < n)
  BY <1>2, <1>3
<1>5. QED
  BY SMT, <1>4

\* Induction up to k, for the set of the numbers a property holds of.
LEMMA InductionUpTo ==
    ASSUME NEW k \in Nat, NEW S, 0 \in S,
           \A n \in 1..k : n - 1 \in S => n \in S
    PROVE  \A n \in 0..k : n \in S
<1> DEFINE T == (0..k) \ S
<1>1. SUFFICES ASSUME T # {} PROVE FALSE
  OBVIOUS
<1>2. T \subseteq Nat
  BY SMT
<1>3. PICK n \in T : \A m \in T : n <= m
  BY <1>1, <1>2, LeastNatural
<1>4. n \in 1..k /\ n \notin S
  BY SMT
<1>5. n - 1 \in S
  BY SMT, <1>3, <1>4
<1>6. QED
  BY <1>4, <1>5

\* RemoveLast undoes Append.
LEMMA RemoveLastAppended ==
    ASSUME NEW S, NEW s \in Seq(S), NEW x \in S
    PROVE  RemoveLast(Append(s, x)) = s
BY SMT DEF RemoveLast

\* The elements RemoveAt leaves, and those InsertAt yields.
LEMMA RemoveAtFacts ==
    ASSUME NEW S, NEW s \in Seq(S), NEW i \in 1..Len(s)
    PROVE  /\ RemoveAt(s, i) \in Seq(S)
           /\ Len(RemoveAt(s, i)) = Len(s) - 1
           /\ \A j \in 1..(i - 1) : RemoveAt(s, i)[j] = s[j]
           /\ \A j \in i..(Len(s) - 1) : RemoveAt(s, i)[j] = s[j + 1]
<1> DEFINE a == SubSeq(s, 1, i - 1)
           b == SubSeq(s, i + 1, Len(s))
<1>1. Len(s) \in Nat /\ i \in Nat /\ 1 <= i /\ i <= Len(s)
  BY SMT
<1>2. /\ a \in Seq(S) /\ Len(a) = i - 1
      /\ \A j \in 1..(i - 1) : a[j] = s[j]
  BY SMT, <1>1
<1>3. /\ b \in Seq(S) /\ Len(b) = Len(s) - i
      /\ \A j \in 1..(Len(s) - i) : b[j] = s[i + j]
  BY SMT, <1>1
<1>4. RemoveAt(s, i) = a \o b
  BY DEF RemoveAt
<1> HIDE DEF a, b
<1>5. /\ a \o b \in Seq(S) /\ Len(a \o b) = Len(a) + Len(b)
      /\ \A j \in 1..(Len(a) + Len(b)) :
            (a \o b)[j] = IF j <= Len(a) THEN a[j] ELSE b[j - Len(a)]
  BY <1>2, <1>3, ConcatProperties
<1>6. Len(a \o b) = Len(s) - 1
  BY SMT, <1>1, <1>2, <1>3, <1>5
<1>7. \A j \in 1..(i - 1) : (a \o b)[j] = s[j]
  BY SMT, <1>1, <1>2, <1>3, <1>5
<1>8. \A j \in i..(Len(s) - 1) : (a \o b)[j] = s[j + 1]
  BY SMT, <1>1, <1>2, <1>3, <1>5
<1>9. QED
  BY <1>4, <1>5, <1>6, <1>7, <1>8

LEMMA InsertAtFacts ==
    ASSUME NEW S, NEW s \in Seq(S), NEW i \in 1..(Len(s) + 1), NEW e \in S
    PROVE  /\ InsertAt(s, i, e) \in Seq(S)
           /\ Len(InsertAt(s, i, e)) = Len(s) + 1
           /\ \A j \in 1..(i - 1) : InsertAt(s, i, e)[j] = s[j]
           /\ InsertAt(s, i, e)[i] = e
           /\ \A j \in (i + 1)..(Len(s) + 1) : InsertAt(s, i, e)[j] = s[j - 1]
<1> DEFINE a == SubSeq(s, 1, i - 1)
           b == SubSeq(s, i, Len(s))
           c == a \o <<e>>
<1>1. Len(s) \in Nat /\ i \in Nat /\ 1 <= i /\ i <= Len(s) + 1
  BY SMT
<1>2. /\ a \in Seq(S) /\ Len(a) = i - 1
      /\ \A j \in 1..(i - 1) : a[j] = s[j]
  BY SMT, <1>1
<1>3. /\ b \in Seq(S) /\ Len(b) = Len(s) - i + 1
      /\ \A j \in 1..(Len(s) - i + 1) : b[j] = s[i + j - 1]
  BY SMT, <1>1
<1>4. InsertAt(s, i, e) = c \o b
  BY DEF InsertAt
<1> HIDE DEF a, b
<1>5. c \in Seq(S) /\ Len(c) = i /\ \A j \in 1..i : c[j] = IF j < i THEN s[j] ELSE e
  BY SMT, <1>1, <1>2
<1> HIDE DEF c
<1>6. /\ c \o b \in Seq(S) /\ Len(c \o b) = Len(c) + Len(b)
      /\ \A j \in 1..(Len(c) + Len(b)) :
            (c \o b)[j] = IF j <= Len(c) THEN c[j] ELSE b[j - Len(c)]
  BY <1>3, <1>5, ConcatProperties
<1>7. Len(c \o b) = Len(s) + 1
  BY SMT, <1>1, <1>3, <1>5, <1>6
<1>8. (\A j \in 1..(i - 1) : (c \o b)[j] = s[j]) /\ (c \o b)[i] = e
  BY SMT, <1>1, <1>3, <1>5, <1>6
<1>9. \A j \in (i + 1)..(Len(s) + 1) : (c \o b)[j] = s[j - 1]
  BY SMT, <1>1, <1>3, <1>5, <1>6
<1>10. QED
  BY <1>4, <1>6, <1>7, <1>8, <1>9

\* What is taken out can be put back.
LEMMA InsertRemoved ==
    ASSUME NEW S, NEW s \in Seq(S), NEW i \in 1..Len(s)
    PROVE  InsertAt(RemoveAt(s, i), i, s[i]) = s
<1>1. Len(s) \in Nat /\ i \in Nat /\ 1 <= i /\ i <= Len(s)
  BY SMT
<1>2. PICK e \in S : e = s[i]
  BY ElementOfSeq
<1>3. PICK r \in Seq(S) :
         /\ r = RemoveAt(s, i) /\ Len(r) = Len(s) - 1
         /\ \A j \in 1..(i - 1) : r[j] = s[j]
         /\ \A j \in i..(Len(s) - 1) : r[j] = s[j + 1]
  <2>1. /\ RemoveAt(s, i) \in Seq(S)
        /\ Len(RemoveAt(s, i)) = Len(s) - 1
        /\ \A j \in 1..(i - 1) : RemoveAt(s, i)[j] = s[j]
        /\ \A j \in i..(Len(s) - 1) : RemoveAt(s, i)[j] = s[j + 1]
    BY ONLY s \in Seq(S), i \in 1..Len(s), RemoveAtFacts
  <2>2. QED
    BY <2>1
<1>4. i \in 1..(Len(r) + 1)
  BY SMT, <1>1, <1>3
<1>5. PICK t \in Seq(S) :
         /\ t = InsertAt(r, i, e) /\ Len(t) = Len(r) + 1
         /\ (\A j \in 1..(i - 1) : t[j] = r[j]) /\ t[i] = e
         /\ \A j \in (i + 1)..(Len(r) + 1) : t[j] = r[j - 1]
  <2>1. /\ InsertAt(r, i, e) \in Seq(S)
        /\ Len(InsertAt(r, i, e)) = Len(r) + 1
        /\ \A j \in 1..(i - 1) : InsertAt(r, i, e)[j] = r[j]
        /\ InsertAt(r, i, e)[i] = e
        /\ \A j \in (i + 1)..(Len(r) + 1) : InsertAt(r, i, e)[j] = r[j - 1]
    BY ONLY <1>4, r \in Seq(S), e \in S, InsertAtFacts
  <2>2. QED
    BY <2>1
<1>6. Len(t) = Len(s)
  BY SMT, <1>1, <1>3, <1>5
<1>7. \A j \in 1..Len(t) : t[j] = s[j]
  <2> SUFFICES ASSUME NEW j \in 1..Len(t) PROVE t[j] = s[j]
    OBVIOUS
  <2>1. CASE j \in 1..(i - 1)
    BY <1>3, <1>5, <2>1
  <2>2. CASE j = i
    BY <1>2, <1>5, <2>2
  <2>3. CASE j > i
    <3>1. j \in (i + 1)..(Len(r) + 1) /\ j - 1 \in i..(Len(s) - 1) /\ (j - 1) + 1 = j
      BY SMT, <1>1, <1>3, <1>6, <2>3
    <3>2. QED
      BY <1>3, <1>5, <3>1
  <2>4. QED
    BY SMT, <1>1, <2>1, <2>2, <2>3
<1>8. t = s
  BY <1>6, <1>7, SeqEqual
<1>9. QED
  BY <1>2, <1>3, <1>5, <1>8

-----------------------------------------------------------------------------
(***************************************************************************)
(* Dictionaries in a storage.                                              *)
(***************************************************************************)
\* IsIndex(d, id, i) is what IndexOf(d, id) = i means for an i that is not 0.
IsIndex(d, id, i) ==
    d[i].id = id /\ \A j \in 1..(i - 1) : d[j].id # id

\* IndexOf yields the first dictionary with the id, if there is one.
LEMMA IndexFacts ==
    ASSUME NEW d \in Storage, NEW id
    PROVE  /\ IndexOf(d, id) # 0 => /\ IndexOf(d, id) \in 1..Len(d)
                                    /\ IsIndex(d, id, IndexOf(d, id))
           /\ \A i \in 1..Len(d) : IsIndex(d, id, i) => IndexOf(d, id) = i
<1>1. DOMAIN d = 1..Len(d) /\ Len(d) \in Nat
  BY LenProperties DEF Storage
<1>2. CASE id \notin IdsOf(d)
  <2>1. \A i \in 1..Len(d) : d[i].id # id
    BY <1>1, <1>2 DEF IdsOf
  <2>2. IndexOf(d, id) = 0
    BY <1>2 DEF IndexOf
  <2>3. QED
    BY <2>1, <2>2 DEF IsIndex
<1>3. CASE id \in IdsOf(d)
  <2> DEFINE T == {i \in 1..Len(d) : d[i].id = id}
  <2>1. T # {}
    BY <1>1, <1>3 DEF IdsOf
  <2>2. T \subseteq Nat
    BY SMT
  <2>3. PICK n \in T : \A m \in T : n <= m
    BY <2>1, <2>2, LeastNatural
  <2>4. n \in 1..Len(d) /\ \A j \in 1..(n - 1) : j \in 1..Len(d) /\ ~(n <= j)
    BY SMT, <1>1
  <2>5. IsIndex(d, id, n)
    BY <2>3, <2>4 DEF IsIndex
  <2>6. \A i, j \in 1..Len(d) : i < j => i \in 1..(j - 1)
    BY SMT, <1>1
  <2>7. \A i, j \in 1..Len(d) : i < j \/ j < i \/ i = j
    BY SMT, <1>1
  <2>8. \A i, j \in 1..Len(d) : IsIndex(d, id, i) /\ IsIndex(d, id, j) => i = j
    BY <2>6, <2>7 DEF IsIndex
  <2>9. IndexOf(d, id) = CHOOSE i \in 1..Len(d) : IsIndex(d, id, i)
    BY <1>1, <1>3 DEF IndexOf, IsIndex
  <2>10. /\ IndexOf(d, id) \in 1..Len(d)
         /\ IsIndex(d, id, IndexOf(d, id))
    BY <2>4, <2>5, <2>9
  <2>11. QED
    BY <2>8, <2>10
<1>4. QED
  BY <1>2, <1>3

\* A change of dictionaries that leaves their ids alone moves none of them.
LEMMA IndexSame ==
    ASSUME NEW d \in Storage, NEW e \in Storage, NEW id,
           Len(e) = Len(d), \A i \in 1..Len(d) : e[i].id = d[i].id,
           IndexOf(d, id) # 0
    PROVE  IndexOf(e, id) = IndexOf(d, id)
<1>1. PICK i \in 1..Len(d) : i = IndexOf(d, id) /\ IsIndex(d, id, i)
  BY IndexFacts
<1>2. Len(d) \in Nat
  BY LenProperties DEF Storage
<1>3. \A j \in 1..(i - 1) : j \in 1..Len(d)
  BY SMT, <1>2
<1>4. IsIndex(e, id, i)
  BY <1>1, <1>3 DEF IsIndex
<1>5. i \in 1..Len(e)
  BY <1>1
<1>6. QED
  BY <1>1, <1>4, <1>5, IndexFacts

\* One element of a sequence is replaced by x; putting the old one back restores
\* the sequence.
Replaced(d, i, x) == [d EXCEPT ![i] = x]

IsReplaced(S, d, i, x, e) ==
    /\ e \in Seq(S)
    /\ Len(e) = Len(d)
    /\ e[i] = x
    /\ \A j \in 1..Len(d) : j # i => e[j] = d[j]

LEMMA ReplacedElement ==
    ASSUME NEW S, NEW d \in Seq(S), NEW i \in 1..Len(d), NEW x \in S
    PROVE  IsReplaced(S, d, i, x, Replaced(d, i, x))
BY SMT DEF Replaced, IsReplaced

LEMMA ReplacedBack ==
    ASSUME NEW S, NEW d \in Seq(S), NEW i \in 1..Len(d), NEW x \in S
    PROVE  Replaced(Replaced(d, i, x), i, d[i]) = d
<1> DEFINE e == Replaced(d, i, x)
           f == Replaced(e, i, d[i])
<1>1. d[i] \in S
  BY ElementOfSeq
<1>2. IsReplaced(S, d, i, x, e)
  BY ReplacedElement
<1> HIDE DEF e
<1>3. e \in Seq(S) /\ i \in 1..Len(e)
  BY <1>2 DEF IsReplaced
<1>4. IsReplaced(S, e, i, d[i], f)
  BY <1>1, <1>3, ReplacedElement
<1> HIDE DEF f
<1>5. f \in Seq(S) /\ Len(f) = Len(d) /\ \A j \in 1..Len(f) : f[j] = d[j]
  BY <1>2, <1>4 DEF IsReplaced
<1>6. f = d
  BY <1>5, SeqEqual
<1>7. QED
  BY <1>6 DEF e, f

\* The two changes of a dictionary.
WithName(dic, n) == [dic EXCEPT !.name = n]
WithEntries(dic, es) == [dic EXCEPT !.entries = es]

LEMMA WithNameFacts ==
    ASSUME NEW dic \in Dic, NEW n \in Names
    PROVE  /\ WithName(dic, n) \in Dic
           /\ WithName(dic, n).id = dic.id
           /\ WithName(dic, n).name = n
           /\ WithName(dic, n).entries = dic.entries
           /\ WithName(WithName(dic, n), dic.name) = dic
           /\ dic.name \in Names
<1>1. \A x \in Dic : \A y \in Names :
         WithName(x, y) = [id |-> x.id, name |-> y, entries |-> x.entries]
  BY SMT DEF Dic, WithName
<1>2. WithName(dic, n) \in Dic /\ dic.name \in Names
  BY SMT DEF Dic, WithName
<1>3. /\ WithName(dic, n).id = dic.id
      /\ WithName(dic, n).name = n
      /\ WithName(dic, n).entries = dic.entries
  BY SMT DEF Dic, WithName
<1>4. dic = [id |-> dic.id, name |-> dic.name, entries |-> dic.entries]
  BY DEF Dic
<1>5. QED
  BY <1>1, <1>2, <1>3, <1>4

LEMMA WithEntriesFacts ==
    ASSUME NEW dic \in Dic, NEW es \in Seq(Entries)
    PROVE  /\ WithEntries(dic, es) \in Dic
           /\ WithEntries(dic, es).id = dic.id
           /\ WithEntries(dic, es).entries = es
           /\ WithEntries(dic, es).name = dic.name
           /\ WithEntries(WithEntries(dic, es), dic.entries) = dic
           /\ dic.entries \in Seq(Entries)
<1>1. \A x \in Dic : \A y \in Seq(Entries) :
         WithEntries(x, y) = [id |-> x.id, name |-> x.name, entries |-> y]
  BY SMT DEF Dic, WithEntries
<1>2. WithEntries(dic, es) \in Dic /\ dic.entries \in Seq(Entries)
  BY SMT DEF Dic, WithEntries
<1>3. /\ WithEntries(dic, es).id = dic.id
      /\ WithEntries(dic, es).entries = es
      /\ WithEntries(dic, es).name = dic.name
  BY SMT DEF Dic, WithEntries
<1>4. dic = [id |-> dic.id, name |-> dic.name, entries |-> dic.entries]
  BY DEF Dic
<1>5. QED
  BY <1>1, <1>2, <1>3, <1>4

\* e is d with another name, or with other entries, at i.
NameChanged(d, i, n, e) ==
    /\ Len(e) = Len(d)
    /\ e[i].name = n
    /\ \A j \in 1..Len(d) : /\ e[j].id = d[j].id
                            /\ j # i => e[j].name = d[j].name
                            /\ e[j].entries = d[j].entries

EntriesChanged(d, i, es, e) ==
    /\ Len(e) = Len(d)
    /\ e[i].entries = es
    /\ \A j \in 1..Len(d) : /\ e[j].id = d[j].id
                            /\ e[j].name = d[j].name
                            /\ j # i => e[j].entries = d[j].entries

\* The changes of a dictionary are such replacements.
SetName(dics, i, name) == [dics EXCEPT ![i].name = name]

LEMMA SetNameIsReplacement ==
    ASSUME NEW d \in Storage, NEW i \in 1..Len(d), NEW n
    PROVE  SetName(d, i, n) = Replaced(d, i, WithName(d[i], n))
BY DEF SetName, Replaced, WithName

LEMMA SetEntriesIsReplacement ==
    ASSUME NEW d \in Storage, NEW i \in 1..Len(d), NEW es
    PROVE  SetEntries(d, i, es) = Replaced(d, i, WithEntries(d[i], es))
BY DEF SetEntries, Replaced, WithEntries

LEMMA SetEntriesFacts ==
    ASSUME NEW d \in Storage, NEW i \in 1..Len(d), NEW es \in Seq(Entries)
    PROVE  /\ SetEntries(d, i, es) \in Storage
           /\ EntriesChanged(d, i, es, SetEntries(d, i, es))
           /\ SetEntries(SetEntries(d, i, es), i, d[i].entries) = d
           /\ d[i].entries \in Seq(Entries)
<1>1. d[i] \in Dic
  BY ElementOfSeq DEF Storage
<1>2. PICK x \in Dic :
         /\ x = WithEntries(d[i], es)
         /\ x.id = d[i].id /\ x.name = d[i].name /\ x.entries = es
         /\ WithEntries(x, d[i].entries) = d[i]
  <2>1. /\ WithEntries(d[i], es) \in Dic
        /\ WithEntries(d[i], es).id = d[i].id
        /\ WithEntries(d[i], es).name = d[i].name
        /\ WithEntries(d[i], es).entries = es
        /\ WithEntries(WithEntries(d[i], es), d[i].entries) = d[i]
    BY <1>1, WithEntriesFacts
  <2>2. QED
    BY <2>1
<1>3. d[i].entries \in Seq(Entries)
  BY <1>1, WithEntriesFacts
<1>4. SetEntries(d, i, es) = Replaced(d, i, x)
  BY <1>2, SetEntriesIsReplacement
<1>5. PICK e \in Storage :
         /\ e = Replaced(d, i, x) /\ Len(e) = Len(d) /\ e[i] = x
         /\ \A j \in 1..Len(d) : j # i => e[j] = d[j]
         /\ Replaced(e, i, d[i]) = d
  <2>1. d \in Seq(Dic)
    BY DEF Storage
  <2>2. IsReplaced(Dic, d, i, x, Replaced(d, i, x))
    BY <2>1, ReplacedElement
  <2>3. Replaced(Replaced(d, i, x), i, d[i]) = d
    BY ONLY Zenon, <2>1, i \in 1..Len(d), x \in Dic, ReplacedBack
  <2>4. QED
    BY <2>2, <2>3 DEF IsReplaced, Storage
<1>6. i \in 1..Len(e)
  BY <1>5
<1>7. SetEntries(e, i, d[i].entries) = Replaced(e, i, WithEntries(e[i], d[i].entries))
  BY <1>6, SetEntriesIsReplacement
<1>8. SetEntries(e, i, d[i].entries) = d
  BY <1>2, <1>5, <1>7
<1>9. \A j \in 1..Len(d) :
          /\ e[j].id = d[j].id /\ e[j].name = d[j].name
          /\ j # i => e[j].entries = d[j].entries
  BY <1>2, <1>5
<1>10. EntriesChanged(d, i, es, e)
  BY <1>2, <1>5, <1>9 DEF EntriesChanged
<1>11. QED
  BY <1>3, <1>4, <1>5, <1>8, <1>10

LEMMA SetNameFacts ==
    ASSUME NEW d \in Storage, NEW i \in 1..Len(d), NEW n \in Names
    PROVE  /\ SetName(d, i, n) \in Storage
           /\ NameChanged(d, i, n, SetName(d, i, n))
           /\ SetName(SetName(d, i, n), i, d[i].name) = d
           /\ d[i].name \in Names
<1>1. d[i] \in Dic
  BY ElementOfSeq DEF Storage
<1>2. PICK x \in Dic :
         /\ x = WithName(d[i], n)
         /\ x.id = d[i].id /\ x.entries = d[i].entries /\ x.name = n
         /\ WithName(x, d[i].name) = d[i]
  <2>1. /\ WithName(d[i], n) \in Dic
        /\ WithName(d[i], n).id = d[i].id
        /\ WithName(d[i], n).entries = d[i].entries
        /\ WithName(d[i], n).name = n
        /\ WithName(WithName(d[i], n), d[i].name) = d[i]
    BY <1>1, WithNameFacts
  <2>2. QED
    BY <2>1
<1>3. d[i].name \in Names
  BY <1>1, WithNameFacts
<1>4. SetName(d, i, n) = Replaced(d, i, x)
  BY <1>2, SetNameIsReplacement
<1>5. PICK e \in Storage :
         /\ e = Replaced(d, i, x) /\ Len(e) = Len(d) /\ e[i] = x
         /\ \A j \in 1..Len(d) : j # i => e[j] = d[j]
         /\ Replaced(e, i, d[i]) = d
  <2>1. d \in Seq(Dic)
    BY DEF Storage
  <2>2. IsReplaced(Dic, d, i, x, Replaced(d, i, x))
    BY <2>1, ReplacedElement
  <2>3. Replaced(Replaced(d, i, x), i, d[i]) = d
    BY ONLY Zenon, <2>1, i \in 1..Len(d), x \in Dic, ReplacedBack
  <2>4. QED
    BY <2>2, <2>3 DEF IsReplaced, Storage
<1>6. i \in 1..Len(e)
  BY <1>5
<1>7. SetName(e, i, d[i].name) = Replaced(e, i, WithName(e[i], d[i].name))
  BY <1>6, SetNameIsReplacement
<1>8. SetName(e, i, d[i].name) = d
  BY <1>2, <1>5, <1>7
<1>9. \A j \in 1..Len(d) :
          /\ e[j].id = d[j].id
          /\ j # i => e[j].name = d[j].name
          /\ e[j].entries = d[j].entries
  BY <1>2, <1>5
<1>10. NameChanged(d, i, n, e)
  BY <1>2, <1>5, <1>9 DEF NameChanged
<1>11. QED
  BY <1>3, <1>4, <1>5, <1>8, <1>10

-----------------------------------------------------------------------------
(***************************************************************************)
(* Import.                                                                 *)
(***************************************************************************)
\* What the recursive function of ImportFromIterator is chosen to satisfy.
Imported(after, es, data, max) ==
    after = [n \in 0..Len(data) |->
               IF n = 0 THEN es ELSE ImportEntry(after[n - 1], data[n], max)]

\* The equation has a solution, for every prefix of the data.
LEMMA ImportedExists ==
    ASSUME NEW es, NEW data, NEW max, Len(data) \in Nat
    PROVE  \E after : Imported(after, es, data, max)
<1> DEFINE UpTo(after, k) ==
             after = [n \in 0..k |->
                        IF n = 0 THEN es ELSE ImportEntry(after[n - 1], data[n], max)]
           S == {k \in 0..Len(data) : \E after : UpTo(after, k)}
<1>1. 0 \in S
  <2> DEFINE none == [n \in 0..0 |-> es]
  <2>1. UpTo(none, 0)
    <3>1. \A n \in 0..0 : n = 0
      BY SMT
    <3>2. QED
      BY <3>1
  <2>2. 0 \in 0..Len(data)
    BY SMT
  <2> HIDE DEF UpTo, none
  <2>3. QED
    BY <2>1, <2>2
<1>2. ASSUME NEW k \in 1..Len(data), k - 1 \in S
      PROVE  k \in S
  <2>1. PICK after : UpTo(after, k - 1)
    BY <1>2
  <2> DEFINE last == ImportEntry(after[k - 1], data[k], max)
             longer == [n \in 0..k |-> IF n = k THEN last ELSE after[n]]
  <2>2. /\ k \in 1..Len(data) /\ k \in 0..Len(data) /\ k # 0
        /\ \A n \in 0..k : n # k => n \in 0..(k - 1)
        /\ \A n \in 0..k : n # 0 => n - 1 \in 0..k /\ n - 1 # k
        /\ k - 1 \in 0..k /\ k - 1 # k
    BY SMT
  <2>3. \A n \in 0..(k - 1) :
           after[n] = IF n = 0 THEN es ELSE ImportEntry(after[n - 1], data[n], max)
    BY <2>1
  <2>4. \A n \in 0..k : longer[n] = IF n = k THEN last ELSE after[n]
    OBVIOUS
  <2>5. \A n \in 0..k :
           longer[n] = IF n = 0 THEN es ELSE ImportEntry(longer[n - 1], data[n], max)
    <3> HIDE DEF longer
    <3> SUFFICES ASSUME NEW n \in 0..k
                 PROVE  longer[n] =
                           IF n = 0 THEN es ELSE ImportEntry(longer[n - 1], data[n], max)
      OBVIOUS
    <3>1. CASE n = k
      BY <2>2, <2>4, <3>1
    <3>2. CASE n # k
      BY <2>2, <2>3, <2>4, <3>2
    <3>3. QED
      BY <3>1, <3>2
  <2>6. longer = [n \in 0..k |-> longer[n]]
    OBVIOUS
  <2>7. UpTo(longer, k)
    <3> HIDE DEF longer
    <3>1. QED
      BY <2>5, <2>6
  <2> HIDE DEF UpTo, longer
  <2>8. QED
    BY <2>2, <2>7
<1> HIDE DEF S
<1>3. \A k \in 0..Len(data) : k \in S
  BY <1>1, <1>2, InductionUpTo
<1>4. Len(data) \in S
  BY SMT, <1>3
<1>5. QED
  BY <1>4 DEF S, Imported

LEMMA ImportUnfolds ==
    ASSUME NEW es, NEW data, NEW max, Len(data) \in Nat
    PROVE  /\ ImportFromIterator(es, data, max)[0] = es
           /\ \A n \in 1..Len(data) :
                 ImportFromIterator(es, data, max)[n]
                   = ImportEntry(ImportFromIterator(es, data, max)[n - 1], data[n], max)
<1> DEFINE after == CHOOSE f : Imported(f, es, data, max)
<1>1. ImportFromIterator(es, data, max) = after
  BY DEF ImportFromIterator, Imported
<1>2. Imported(after, es, data, max)
  BY ImportedExists
<1>3. /\ 0 \in 0..Len(data)
      /\ \A n \in 1..Len(data) : n \in 0..Len(data) /\ n # 0
  BY SMT
<1> HIDE DEF after
<1>4. QED
  BY <1>1, <1>2, <1>3 DEF Imported

\* t is es with further entries, within the limit unless es is not.
Extends(t, es, max) ==
    /\ t \in Seq(Entries)
    /\ Len(t) >= Len(es)
    /\ \A j \in 1..Len(es) : t[j] = es[j]
    /\ Len(es) <= max => Len(t) <= max

LEMMA ImportEntryExtends ==
    ASSUME NEW es \in Seq(Entries), NEW max \in Nat, NEW t, NEW x \in Entries,
           Extends(t, es, max)
    PROVE  Extends(ImportEntry(t, x, max), es, max)
<1>1. CASE ImportEntry(t, x, max) = t
  BY <1>1
<1>2. CASE ImportEntry(t, x, max) # t
  <2>1. ~(Len(t) >= max) /\ ImportEntry(t, x, max) = Append(t, x)
    BY <1>2 DEF ImportEntry
  <2>2. Extends(Append(t, x), es, max)
    BY SMT, <2>1 DEF Extends
  <2>3. QED
    BY <2>1, <2>2
<1>3. QED
  BY <1>1, <1>2

\* Import only appends, and never beyond the limit.
LEMMA ImportExtends ==
    ASSUME NEW es \in Seq(Entries), NEW data \in Seq(Entries), kMaxEntrySize \in Nat
    PROVE  Extends(Import(es, data), es, kMaxEntrySize)
<1> DEFINE f == ImportFromIterator(es, data, kMaxEntrySize)
           S == {n \in 0..Len(data) : Extends(f[n], es, kMaxEntrySize)}
<1>1. Len(data) \in Nat
  BY LenProperties
<1>2. /\ f[0] = es
      /\ \A n \in 1..Len(data) : f[n] = ImportEntry(f[n - 1], data[n], kMaxEntrySize)
  BY ONLY <1>1, ImportUnfolds
<1> HIDE DEF f
<1>3. 0 \in S
  <2>1. Extends(es, es, kMaxEntrySize)
    BY SMT DEF Extends
  <2>2. 0 \in 0..Len(data)
    BY SMT, <1>1
  <2>3. QED
    BY <1>2, <2>1, <2>2
<1>4. ASSUME NEW n \in 1..Len(data), n - 1 \in S
      PROVE  n \in S
  <2>1. n \in 0..Len(data)
    BY SMT, <1>1
  <2>2. data[n] \in Entries
    BY ElementOfSeq
  <2>3. QED
    BY <1>2, <1>4, <2>1, <2>2, ImportEntryExtends
<1> HIDE DEF S
<1>5. \A n \in 0..Len(data) : n \in S
  BY <1>1, <1>3, <1>4, InductionUpTo
<1>6. Len(data) \in 0..Len(data)
  BY SMT, <1>1
<1>7. QED
  BY <1>5, <1>6 DEF S, f, Import

-----------------------------------------------------------------------------
(***************************************************************************)
(* Deleting entries and putting them back.                                 *)
(***************************************************************************)
\* Place(n, I, k): how many of the numbers up to k are left without those of I.
Place(n, I, k) == Cardinality({j \in (1..n) \ I : j <= k})

LEMMA PlaceFacts ==
    ASSUME NEW n \in Nat, NEW I \in SUBSET (1..n)
    PROVE  /\ Cardinality((1..n) \ I) \in Nat
           /\ Cardinality(I) \in Nat
           /\ Cardinality((1..n) \ I) + Cardinality(I) = n
           /\ \A k \in (1..n) \ I : Place(n, I, k) \in 1..Cardinality((1..n) \ I)
           /\ \A k, l \in (1..n) \ I : Place(n, I, k) = Place(n, I, l) => k = l
           /\ \A k \in (1..n) \ I : k - Cardinality({j \in I : j < k}) = Place(n, I, k)
<1> DEFINE kept == (1..n) \ I
           upto(k) == {j \in kept : j <= k}
           below(k) == {j \in I : j < k}
<1>1. IsFiniteSet(1..n) /\ Cardinality(1..n) = n
  BY SMT, FS_Interval
<1>2. IsFiniteSet(kept) /\ IsFiniteSet(I)
  BY <1>1, FS_Subset, FS_Difference
<1>3. Cardinality(kept) \in Nat /\ Cardinality(I) \in Nat
  BY <1>2, FS_CardinalityType
<1>4. Cardinality(kept) + Cardinality(I) = n
  <2>1. (1..n) \cap I = I
    OBVIOUS
  <2>2. Cardinality(kept) = Cardinality(1..n) - Cardinality((1..n) \cap I)
    BY <1>1, FS_Difference
  <2> HIDE DEF kept
  <2>3. Cardinality(kept) = n - Cardinality(I)
    BY <1>1, <2>1, <2>2
  <2>4. QED
    BY ONLY SMT, n \in Nat, <1>3, <2>3
<1>5. \A k : Place(n, I, k) = Cardinality(upto(k))
  BY DEF Place
<1>6. \A k : /\ upto(k) \in SUBSET kept
             /\ below(k) \in SUBSET I
  OBVIOUS
<1>7. \A k : /\ IsFiniteSet(upto(k)) /\ Cardinality(upto(k)) \in Nat
             /\ Cardinality(upto(k)) <= Cardinality(kept)
             /\ IsFiniteSet(below(k)) /\ Cardinality(below(k)) \in Nat
  <2> HIDE DEF kept, upto, below
  <2> SUFFICES ASSUME NEW k
               PROVE  /\ IsFiniteSet(upto(k)) /\ Cardinality(upto(k)) \in Nat
                      /\ Cardinality(upto(k)) <= Cardinality(kept)
                      /\ IsFiniteSet(below(k)) /\ Cardinality(below(k)) \in Nat
    OBVIOUS
  <2>1. /\ IsFiniteSet(upto(k)) /\ IsFiniteSet(below(k))
        /\ Cardinality(upto(k)) <= Cardinality(kept)
    BY <1>2, <1>6, FS_Subset
  <2>2. QED
    BY <2>1, FS_CardinalityType
<1>8. ASSUME NEW k \in kept
      PROVE  Cardinality(upto(k)) \in 1..Cardinality(kept)
  <2>1. k \in upto(k)
    <3>1. \A j \in 1..n : j <= j
      BY SMT
    <3>2. QED
      BY <3>1
  <2>2. Cardinality(upto(k)) # 0
    BY <1>7, <2>1, FS_EmptySet
  <2> HIDE DEF upto, kept
  <2>3. Cardinality(upto(k)) \in Nat /\ Cardinality(upto(k)) <= Cardinality(kept)
    BY <1>7
  <2>4. QED
    BY ONLY SMT, <1>3, <2>2, <2>3
<1>9. ASSUME NEW k \in kept, NEW l \in kept, k < l
      PROVE  Cardinality(upto(k)) # Cardinality(upto(l))
  <2>0. /\ \A j \in 1..n : j <= k => j <= l
        /\ l <= l /\ ~(l <= k)
    BY SMT, <1>9
  <2>1. upto(k) \in SUBSET upto(l)
    BY <2>0
  <2>2. l \in upto(l) /\ l \notin upto(k)
    BY <2>0
  <2>3. upto(k) # upto(l)
    BY <2>2
  <2> HIDE DEF upto
  <2>4. QED
    BY <1>7, <2>1, <2>3, FS_Subset
<1>10. ASSUME NEW k \in kept
       PROVE  k - Cardinality(below(k)) = Cardinality(upto(k))
  <2>1. upto(k) \cup below(k) = 1..k
    <3>1. /\ \A j \in 1..n : j <= k => j \in 1..k
          /\ \A j \in 1..n : j < k => j \in 1..k
          /\ \A j \in 1..k : j \in 1..n /\ j <= k /\ (j = k \/ j < k)
      BY SMT
    <3>2. QED
      BY <3>1
  <2>2. upto(k) \cap below(k) = {}
    OBVIOUS
  <2>3. k \in Int /\ 1 <= k
    BY SMT
  <2>4. Cardinality(1..k) = k
    BY SMT, <2>3, FS_Interval
  <2> HIDE DEF upto, below, kept
  <2>5. Cardinality(upto(k) \cup below(k))
          = Cardinality(upto(k)) + Cardinality(below(k))
              - Cardinality(upto(k) \cap below(k))
    BY <1>7, FS_Union
  <2>6. Cardinality(upto(k) \cap below(k)) = 0
    BY <2>2, FS_EmptySet
  <2>7. Cardinality(upto(k)) \in Nat /\ Cardinality(below(k)) \in Nat
    BY <1>7
  <2>8. k = Cardinality(upto(k)) + Cardinality(below(k)) - 0
    BY <2>1, <2>4, <2>5, <2>6
  <2>9. QED
    BY ONLY SMT, <2>7, <2>8
<1>11. \A k, l \in kept : k < l \/ l < k \/ k = l
  BY SMT
<1> HIDE DEF upto
<1>12. \A k, l \in kept : Cardinality(upto(k)) = Cardinality(upto(l)) => k = l
  BY <1>9, <1>11
<1>13. \A k \in kept : Place(n, I, k) \in 1..Cardinality(kept)
  BY <1>5, <1>8
<1>14. \A k, l \in kept : Place(n, I, k) = Place(n, I, l) => k = l
  BY <1>5, <1>12
<1>15. \A k \in kept : k - Cardinality(below(k)) = Place(n, I, k)
  BY <1>5, <1>10
<1>16. QED
  BY <1>3, <1>4, <1>13, <1>14, <1>15

\* Without, for the indices that are kept.
Kept(es, kept) ==
    [i \in 1..Cardinality(kept) |->
        es[CHOOSE k \in kept : Cardinality({j \in kept : j <= k}) = i]]

LEMMA WithoutFacts ==
    ASSUME NEW es \in Seq(Entries), NEW I \in SUBSET (1..Len(es))
    PROVE  /\ Without(es, I) \in Seq(Entries)
           /\ Len(Without(es, I)) <= Len(es)
           /\ Len(Without(es, I)) + Cardinality(I) = Len(es)
           /\ Merge(Without(es, I), [k \in I |-> es[k]]) = es
<1> DEFINE n == Len(es)
           kept == (1..n) \ I
           place(k) == Place(n, I, k)
           at(i) == CHOOSE k \in kept : place(k) = i
           w == [i \in 1..Cardinality(kept) |-> es[at(i)]]
           del == [k \in I |-> es[k]]
<1>1. n \in Nat /\ DOMAIN es = 1..n /\ I \in SUBSET (1..n)
  BY LenProperties
<1>2. Without(es, I) = w
  <2>1. Without(es, I) = Kept(es, DOMAIN es \ I)
    BY DEF Without, Kept
  <2>2. DOMAIN es \ I = kept
    BY <1>1
  <2>3. Kept(es, kept) = w
    BY DEF Kept, Place
  <2> HIDE DEF w, kept
  <2>4. QED
    BY <2>1, <2>2, <2>3
<1> HIDE DEF n
<1>3. /\ Cardinality(kept) \in Nat /\ Cardinality(I) \in Nat
      /\ Cardinality(kept) + Cardinality(I) = n
      /\ \A k \in kept : place(k) \in 1..Cardinality(kept)
      /\ \A k, l \in kept : place(k) = place(l) => k = l
      /\ \A k \in kept : k - Cardinality({j \in I : j < k}) = place(k)
  BY <1>1, PlaceFacts
<1>4. \A k \in kept : at(place(k)) = k
  BY <1>3
<1>5. \A k \in kept : w[place(k)] = es[k]
  <2> HIDE DEF place, at, kept
  <2>1. QED
    BY <1>3, <1>4
<1>6. \A i \in 1..Cardinality(kept) : \E k \in kept : place(k) = i
  <2> DEFINE T == 1..Cardinality(kept)
             f == [k \in kept |-> place(k)]
  <2> HIDE DEF place, at, kept
  <2>1. IsFiniteSet(T) /\ Cardinality(T) = Cardinality(kept)
    BY SMT, <1>3, FS_Interval
  <2> HIDE DEF T
  <2>2. f \in Injection(kept, T)
    <3>1. f \in [kept -> T]
      BY <1>3 DEF T
    <3>2. QED
      BY <1>3, <3>1 DEF Injection, IsInjective
  <2>3. f \in Surjection(kept, T)
    BY <2>1, <2>2, FS_Injection
  <2>4. QED
    BY <2>3 DEF Surjection, T
<1>7. \A i \in 1..Cardinality(kept) : at(i) \in kept /\ place(at(i)) = i
  <2> HIDE DEF place, kept
  <2>1. QED
    BY <1>6
<1>8. \A i \in 1..Cardinality(kept) : es[at(i)] \in Entries
  <2>1. \A k \in kept : es[k] \in Entries
    BY ElementOfSeq DEF n
  <2> HIDE DEF at, kept, place
  <2>2. QED
    BY <1>7, <2>1
<1>9. w \in Seq(Entries) /\ Len(w) = Cardinality(kept)
  <2> HIDE DEF at, kept, place
  <2>1. QED
    BY SMT, <1>3, <1>8
<1>10. Len(w) <= n /\ Len(w) + Cardinality(I) = n
  <2> HIDE DEF w, kept, place
  <2>1. QED
    BY SMT, <1>3, <1>9
<1>11. Merge(w, del) = es
  <2> DEFINE m == Merge(w, del)
  <2>1. DOMAIN del = I /\ \A i \in I : del[i] = es[i]
    OBVIOUS
  <2> HIDE DEF w, del
  <2>2. m = [i \in 1..n |-> IF i \in I THEN del[i]
                            ELSE w[i - Cardinality({j \in I : j < i})]]
    BY <1>10, <2>1 DEF Merge
  <2>3. \A i \in 1..n : m[i] = es[i]
    <3> SUFFICES ASSUME NEW i \in 1..n PROVE m[i] = es[i]
      OBVIOUS
    <3>1. CASE i \in I
      BY <2>1, <2>2, <3>1
    <3>2. CASE i \notin I
      <4>1. i \in kept
        BY <3>2
      <4>2. m[i] = w[i - Cardinality({j \in I : j < i})]
        BY <2>2, <3>2
      <4> HIDE DEF m, kept, place
      <4>3. QED
        BY <1>3, <1>5, <4>1, <4>2
    <3>3. QED
      BY <3>1, <3>2
  <2>4. m = [i \in 1..n |-> m[i]]
    BY <2>2
  <2>5. es = [i \in 1..n |-> es[i]]
    BY <1>1, LenProperties
  <2> HIDE DEF m
  <2>6. m = es
    BY <2>3, <2>4, <2>5
  <2>7. QED
    BY <2>6 DEF m
<1> HIDE DEF w
<1>12. QED
  BY <1>2, <1>9, <1>10, <1>11 DEF n

-----------------------------------------------------------------------------
(***************************************************************************)
(* What RunUndo does, command by command.                                  *)
(***************************************************************************)
LEMMA RunCreateDictionary ==
    ASSUME NEW e
    PROVE  /\ e # <<>> => CanRunUndo(UndoCreateDictionary, e)
           /\ Undone(UndoCreateDictionary, e) = RemoveLast(e)
<1> DEFINE cmd == UndoCreateDictionary
<1>1. cmd.type = "CreateDictionary"
  BY SMT DEF UndoCreateDictionary
<1> HIDE DEF cmd
<1>2. QED
  BY <1>1 DEF CanRunUndo, Undone, cmd

LEMMA RunDeleteDictionary ==
    ASSUME NEW e, NEW i, NEW dic
    PROVE  /\ CanRunUndo(UndoDeleteDictionary(i, dic), e)
           /\ Undone(UndoDeleteDictionary(i, dic), e) = InsertAt(e, i, dic)
<1> DEFINE cmd == UndoDeleteDictionary(i, dic)
<1>1. cmd.type = "DeleteDictionary" /\ cmd.index = i /\ cmd.dictionary = dic
  BY SMT DEF UndoDeleteDictionary
<1> HIDE DEF cmd
<1>2. QED
  BY <1>1 DEF CanRunUndo, Undone, cmd

LEMMA RunDeleteLastDictionary ==
    ASSUME NEW e, NEW dic
    PROVE  /\ Len(e) = 1 => CanRunUndo(UndoDeleteLastDictionary(dic), e)
           /\ Undone(UndoDeleteLastDictionary(dic), e) = <<dic>>
<1> DEFINE cmd == UndoDeleteLastDictionary(dic)
<1>1. cmd.type = "DeleteLastDictionary" /\ cmd.dictionary = dic
  BY SMT DEF UndoDeleteLastDictionary
<1> HIDE DEF cmd
<1>2. QED
  BY <1>1 DEF CanRunUndo, Undone, cmd

LEMMA RunRenameDictionary ==
    ASSUME NEW e, NEW id, NEW name, NEW i, i = IndexOf(e, id), i # 0
    PROVE  /\ CanRunUndo(UndoRenameDictionary(id, name), e)
           /\ Undone(UndoRenameDictionary(id, name), e) = SetName(e, i, name)
<1> DEFINE cmd == UndoRenameDictionary(id, name)
<1>1. cmd.type = "RenameDictionary" /\ cmd.id = id /\ cmd.name = name
  BY SMT DEF UndoRenameDictionary
<1> HIDE DEF cmd
<1>2. QED
  BY <1>1 DEF CanRunUndo, Undone, cmd, SetName

LEMMA RunAddEntry ==
    ASSUME NEW e, NEW id, NEW i, i = IndexOf(e, id), i # 0, Len(e[i].entries) # 0
    PROVE  /\ CanRunUndo(UndoAddEntry(id), e)
           /\ Undone(UndoAddEntry(id), e) = SetEntries(e, i, RemoveLast(e[i].entries))
<1> DEFINE cmd == UndoAddEntry(id)
<1>1. cmd.type = "AddEntry" /\ cmd.id = id
  BY SMT DEF UndoAddEntry
<1> HIDE DEF cmd
<1>2. QED
  BY <1>1 DEF CanRunUndo, Undone, cmd

LEMMA RunEditEntry ==
    ASSUME NEW e, NEW id, NEW index, NEW entry, NEW i, i = IndexOf(e, id), i # 0,
           index <= Len(e[i].entries)
    PROVE  /\ CanRunUndo(UndoEditEntry(id, index, entry), e)
           /\ Undone(UndoEditEntry(id, index, entry), e)
                = SetEntries(e, i, Replaced(e[i].entries, index, entry))
<1> DEFINE cmd == UndoEditEntry(id, index, entry)
<1>1. /\ cmd.type = "EditEntry" /\ cmd.id = id
      /\ cmd.index = index /\ cmd.entry = entry
  BY SMT DEF UndoEditEntry
<1> HIDE DEF cmd
<1>2. QED
  BY <1>1 DEF CanRunUndo, Undone, cmd, Replaced

LEMMA RunDeleteEntry ==
    ASSUME NEW e, NEW id, NEW del, NEW i, i = IndexOf(e, id), i # 0,
           \A k \in DOMAIN del : k <= Len(e[i].entries) + Cardinality(DOMAIN del)
    PROVE  /\ CanRunUndo(UndoDeleteEntry(id, del), e)
           /\ Undone(UndoDeleteEntry(id, del), e)
                = SetEntries(e, i, Merge(e[i].entries, del))
<1> DEFINE cmd == UndoDeleteEntry(id, del)
<1>1. cmd.type = "DeleteEntry" /\ cmd.id = id /\ cmd.deleted = del
  BY SMT DEF UndoDeleteEntry
<1> HIDE DEF cmd
<1>2. QED
  BY <1>1 DEF CanRunUndo, Undone, cmd

LEMMA RunImport ==
    ASSUME NEW e, NEW id, NEW num, NEW i, i = IndexOf(e, id), i # 0
    PROVE  /\ CanRunUndo(UndoImport(id, num), e)
           /\ Undone(UndoImport(id, num), e)
                = SetEntries(e, i, SubSeq(e[i].entries, 1, num))
<1> DEFINE cmd == UndoImport(id, num)
<1>1. cmd.type = "Import" /\ cmd.id = id /\ cmd.num = num
  BY SMT DEF UndoImport
<1> HIDE DEF cmd
<1>2. QED
  BY <1>1 DEF CanRunUndo, Undone, cmd

-----------------------------------------------------------------------------
(***************************************************************************)
(* The undo command of every edit brings back the storage before it.       *)
(***************************************************************************)
\* Run in e, cmd succeeds and leaves d.
Undoes(cmd, d, e) == RunUndo(cmd, e) = [ok |-> TRUE, dics |-> d]

LEMMA UndoesIf ==
    ASSUME NEW cmd, NEW d, NEW e, CanRunUndo(cmd, e), Undone(cmd, e) = d
    PROVE  Undoes(cmd, d, e)
BY DEF Undoes, RunUndo

LEMMA CreateUndone ==
    ASSUME NEW d \in Storage, NEW x \in Dic
    PROVE  /\ Append(d, x) \in Storage
           /\ UndoCreateDictionary \in Command
           /\ Undoes(UndoCreateDictionary, d, Append(d, x))
<1>1. d \in Seq(Dic)
  BY DEF Storage
<1>2. Append(d, x) \in Seq(Dic) /\ Append(d, x) # <<>>
  BY <1>1, AppendProperties
<1>3. RemoveLast(Append(d, x)) = d
  BY <1>1, RemoveLastAppended
<1>4. Undoes(UndoCreateDictionary, d, Append(d, x))
  BY <1>2, <1>3, RunCreateDictionary, UndoesIf
<1>5. UndoCreateDictionary \in Command
  BY DEF Command
<1>6. QED
  BY <1>2, <1>4, <1>5 DEF Storage

LEMMA DeleteUndone ==
    ASSUME NEW d \in Storage, NEW i \in 1..Len(d)
    PROVE  /\ RemoveAt(d, i) \in Storage
           /\ UndoDeleteDictionary(i, d[i]) \in Command
           /\ Undoes(UndoDeleteDictionary(i, d[i]), d, RemoveAt(d, i))
<1>1. d \in Seq(Dic)
  BY DEF Storage
<1>2. d[i] \in Dic
  BY <1>1, ElementOfSeq
<1>3. i \in Nat
  BY SMT
<1>4. UndoDeleteDictionary(i, d[i]) \in Command
  BY <1>2, <1>3 DEF Command, UndoDeleteDictionary
<1>5. RemoveAt(d, i) \in Seq(Dic)
  BY <1>1, RemoveAtFacts
<1>6. InsertAt(RemoveAt(d, i), i, d[i]) = d
  BY <1>1, InsertRemoved
<1>7. Undoes(UndoDeleteDictionary(i, d[i]), d, RemoveAt(d, i))
  BY <1>6, RunDeleteDictionary, UndoesIf
<1>8. QED
  BY <1>4, <1>5, <1>7 DEF Storage

LEMMA DeleteLastUndone ==
    ASSUME NEW d \in Storage, NEW i \in 1..Len(d), RemoveAt(d, i) = <<>>,
           NEW x \in Dic
    PROVE  /\ <<x>> \in Storage
           /\ UndoDeleteLastDictionary(d[i]) \in Command
           /\ Undoes(UndoDeleteLastDictionary(d[i]), d, <<x>>)
<1>1. d \in Seq(Dic)
  BY DEF Storage
<1>2. d[i] \in Dic
  BY <1>1, ElementOfSeq
<1>3. UndoDeleteLastDictionary(d[i]) \in Command
  BY <1>2 DEF Command, UndoDeleteLastDictionary
<1>4. Len(RemoveAt(d, i)) = Len(d) - 1
  BY <1>1, RemoveAtFacts
<1>5. Len(d) = 1 /\ i = 1
  <2>1. Len(<<>>) = 0
    BY SMT
  <2>2. 0 = Len(d) - 1 /\ Len(d) \in Nat
    BY <1>1, <1>4, <2>1, LenProperties
  <2>3. Len(d) = 1
    BY ONLY SMT, <2>2
  <2>4. \A j \in 1..1 : j = 1
    BY ONLY SMT
  <2>5. QED
    BY <2>3, <2>4
<1>6. <<d[i]>> = d
  <2>1. \A y \in Dic : <<y>> \in Seq(Dic) /\ Len(<<y>>) = 1 /\ <<y>>[1] = y
    BY SMT
  <2>2. \A j \in 1..1 : j = 1
    BY SMT
  <2>3. /\ <<d[i]>> \in Seq(Dic) /\ Len(<<d[i]>>) = Len(d)
        /\ \A j \in 1..Len(<<d[i]>>) : <<d[i]>>[j] = d[j]
    BY <1>2, <1>5, <2>1, <2>2
  <2>4. QED
    BY <1>1, <2>3, SeqEqual
<1>7. Len(<<x>>) = 1 /\ <<x>> \in Seq(Dic)
  BY SMT
<1>8. Undoes(UndoDeleteLastDictionary(d[i]), d, <<x>>)
  BY <1>6, <1>7, RunDeleteLastDictionary, UndoesIf
<1>9. QED
  BY <1>3, <1>7, <1>8 DEF Storage

LEMMA RenameUndone ==
    ASSUME NEW d \in Storage, NEW id \in Id, NEW i, i = IndexOf(d, id), i # 0,
           NEW n \in Names
    PROVE  /\ SetName(d, i, n) \in Storage
           /\ UndoRenameDictionary(id, d[i].name) \in Command
           /\ Undoes(UndoRenameDictionary(id, d[i].name), d, SetName(d, i, n))
<1>1. i \in 1..Len(d)
  BY IndexFacts
<1>2. PICK e \in Storage :
         /\ e = SetName(d, i, n) /\ Len(e) = Len(d)
         /\ \A j \in 1..Len(d) : e[j].id = d[j].id
         /\ SetName(e, i, d[i].name) = d
         /\ d[i].name \in Names
  <2>1. /\ SetName(d, i, n) \in Storage
        /\ NameChanged(d, i, n, SetName(d, i, n))
        /\ SetName(SetName(d, i, n), i, d[i].name) = d
        /\ d[i].name \in Names
    BY <1>1, SetNameFacts
  <2>2. QED
    BY <2>1 DEF NameChanged
<1>3. UndoRenameDictionary(id, d[i].name) \in Command
  BY <1>2 DEF Command, UndoRenameDictionary
<1>4. i = IndexOf(e, id)
  BY <1>2, IndexSame
<1>5. Undoes(UndoRenameDictionary(id, d[i].name), d, e)
  <2>1. /\ CanRunUndo(UndoRenameDictionary(id, d[i].name), e)
        /\ Undone(UndoRenameDictionary(id, d[i].name), e) = SetName(e, i, d[i].name)
    BY ONLY <1>4, i # 0, RunRenameDictionary
  <2>2. QED
    BY <1>2, <2>1, UndoesIf
<1>6. QED
  BY <1>2, <1>3, <1>5

EntriesSet(d, id, i, es, e) ==
    /\ e = SetEntries(d, i, es)
    /\ i = IndexOf(e, id)
    /\ e[i].entries = es
    /\ SetEntries(e, i, d[i].entries) = d

\* Other entries in the dictionary with the id, and the old ones put back.
LEMMA EntriesUndone ==
    ASSUME NEW d \in Storage, NEW id \in Id, NEW i, i = IndexOf(d, id), i # 0,
           NEW es \in Seq(Entries)
    PROVE  \E e \in Storage : EntriesSet(d, id, i, es, e)
<1>1. i \in 1..Len(d)
  BY IndexFacts
<1>2. PICK e \in Storage :
         /\ e = SetEntries(d, i, es) /\ Len(e) = Len(d)
         /\ e[i].entries = es
         /\ \A j \in 1..Len(d) : e[j].id = d[j].id
         /\ SetEntries(e, i, d[i].entries) = d
  <2>1. /\ SetEntries(d, i, es) \in Storage
        /\ EntriesChanged(d, i, es, SetEntries(d, i, es))
        /\ SetEntries(SetEntries(d, i, es), i, d[i].entries) = d
    BY <1>1, SetEntriesFacts
  <2>2. QED
    BY <2>1 DEF EntriesChanged
<1>3. i = IndexOf(e, id)
  BY <1>2, IndexSame
<1>4. QED
  BY <1>2, <1>3 DEF EntriesSet

LEMMA EntriesType ==
    ASSUME NEW d \in Storage, NEW id, IndexOf(d, id) # 0
    PROVE  /\ IndexOf(d, id) \in 1..Len(d)
           /\ d[IndexOf(d, id)].entries \in Seq(Entries)
<1>1. IndexOf(d, id) \in 1..Len(d)
  BY IndexFacts
<1>2. d[IndexOf(d, id)] \in Dic
  BY <1>1, ElementOfSeq DEF Storage
<1>3. QED
  BY <1>1, <1>2 DEF Dic

LEMMA AddEntryUndone ==
    ASSUME NEW d \in Storage, NEW id \in Id, NEW i, i = IndexOf(d, id), i # 0,
           NEW x \in Entries
    PROVE  LET e == SetEntries(d, i, Append(d[i].entries, x))
               cmd == UndoAddEntry(id)
           IN  e \in Storage /\ cmd \in Command /\ Undoes(cmd, d, e)
<1> DEFINE es == d[i].entries
           fs == Append(es, x)
<1>1. es \in Seq(Entries)
  BY EntriesType
<1> HIDE DEF es
<1>2. fs \in Seq(Entries) /\ Len(fs) # 0
  BY SMT, <1>1
<1>3. RemoveLast(fs) = es
  BY <1>1, RemoveLastAppended
<1>4. PICK e \in Storage :
         /\ e = SetEntries(d, i, fs) /\ i = IndexOf(e, id) /\ e[i].entries = fs
         /\ SetEntries(e, i, es) = d
  <2>1. PICK e \in Storage : EntriesSet(d, id, i, fs, e)
    BY <1>2, EntriesUndone
  <2>2. QED
    BY <2>1 DEF EntriesSet, es
<1>5. UndoAddEntry(id) \in Command
  BY DEF Command, UndoAddEntry
<1> HIDE DEF fs
<1>6. /\ CanRunUndo(UndoAddEntry(id), e)
      /\ Undone(UndoAddEntry(id), e) = SetEntries(e, i, RemoveLast(e[i].entries))
  <2>1. Len(e[i].entries) # 0
    BY <1>2, <1>4
  <2>2. QED
    BY ONLY <1>4, i # 0, <2>1, RunAddEntry
<1>7. Undoes(UndoAddEntry(id), d, e)
  BY <1>3, <1>4, <1>6, UndoesIf
<1>8. QED
  BY <1>4, <1>5, <1>7 DEF es, fs

LEMMA EditEntryUndone ==
    ASSUME NEW d \in Storage, NEW id \in Id, NEW i, i = IndexOf(d, id), i # 0,
           NEW index \in DOMAIN d[i].entries, NEW x \in Entries
    PROVE  LET fs == Replaced(d[i].entries, index, x)
               e == SetEntries(d, i, fs)
               cmd == UndoEditEntry(id, index, d[i].entries[index])
           IN  /\ fs \in Seq(Entries) /\ Len(fs) = Len(d[i].entries)
               /\ e \in Storage
               /\ cmd \in Command
               /\ Undoes(cmd, d, e)
<1> DEFINE es == d[i].entries
           fs == Replaced(es, index, x)
           old == es[index]
           cmd == UndoEditEntry(id, index, old)
<1>1. es \in Seq(Entries)
  BY EntriesType
<1> HIDE DEF es
<1>2. index \in 1..Len(es)
  BY <1>1, LenProperties DEF es
<1>3. index \in Nat /\ index <= Len(es) /\ old \in Entries
  BY SMT, <1>1, <1>2
<1>4. /\ fs \in Seq(Entries) /\ Len(fs) = Len(es)
      /\ Replaced(fs, index, old) = es
  <2>1. IsReplaced(Entries, es, index, x, fs)
    BY <1>1, <1>2, ReplacedElement
  <2>2. Replaced(fs, index, old) = es
    BY ONLY Zenon, <1>1, <1>2, x \in Entries, ReplacedBack
  <2>3. QED
    BY <2>1, <2>2 DEF IsReplaced
<1> HIDE DEF fs, old
<1>5. PICK e \in Storage :
         /\ e = SetEntries(d, i, fs) /\ i = IndexOf(e, id) /\ e[i].entries = fs
         /\ SetEntries(e, i, es) = d
  <2>1. PICK e \in Storage : EntriesSet(d, id, i, fs, e)
    BY <1>4, EntriesUndone
  <2>2. QED
    BY <2>1 DEF EntriesSet, es
<1>6. cmd \in Command
  BY <1>3 DEF Command, UndoEditEntry
<1>7. /\ CanRunUndo(cmd, e)
      /\ Undone(cmd, e) = SetEntries(e, i, Replaced(e[i].entries, index, old))
  <2>1. index <= Len(e[i].entries)
    BY <1>3, <1>4, <1>5
  <2>2. i = IndexOf(e, id)
    BY <1>5
  <2>3. QED
    BY ONLY ZenonT(40), <2>2, i # 0, <2>1, RunEditEntry DEF cmd
<1>8. Undone(cmd, e) = d
  BY <1>4, <1>5, <1>7
<1> HIDE DEF cmd
<1>9. Undoes(cmd, d, e)
  BY <1>7, <1>8, UndoesIf
<1>10. QED
  BY <1>4, <1>5, <1>6, <1>9 DEF es, fs, old, cmd

LEMMA DeleteEntryUndone ==
    ASSUME NEW d \in Storage, NEW id \in Id, NEW i, i = IndexOf(d, id), i # 0,
           NEW I, I \subseteq DOMAIN d[i].entries
    PROVE  LET e == SetEntries(d, i, Without(d[i].entries, I))
               cmd == UndoDeleteEntry(id, [k \in I |-> d[i].entries[k]])
           IN  e \in Storage /\ cmd \in Command /\ Undoes(cmd, d, e)
<1> DEFINE es == d[i].entries
           fs == Without(es, I)
           del == [k \in I |-> es[k]]
           cmd == UndoDeleteEntry(id, del)
<1>1. es \in Seq(Entries)
  BY EntriesType
<1>2. I \in SUBSET (1..Len(es)) /\ Len(es) \in Nat
  BY <1>1, LenProperties
<1> HIDE DEF es
<1>3. /\ fs \in Seq(Entries)
      /\ Len(fs) + Cardinality(I) = Len(es)
      /\ Merge(fs, del) = es
  BY ONLY Zenon, <1>1, <1>2, WithoutFacts
<1>4. del \in [I -> Entries] /\ DOMAIN del = I
  BY <1>1, <1>2, ElementOfSeq
<1> HIDE DEF fs, del
<1>5. PICK e \in Storage :
         /\ e = SetEntries(d, i, fs) /\ i = IndexOf(e, id) /\ e[i].entries = fs
         /\ SetEntries(e, i, es) = d
  <2>1. PICK e \in Storage : EntriesSet(d, id, i, fs, e)
    BY <1>3, EntriesUndone
  <2>2. QED
    BY <2>1 DEF EntriesSet, es
<1>6. cmd \in Command
  <2>1. I \in SUBSET Nat
    BY SMT, <1>2
  <2>2. del \in UNION {[J -> Entries] : J \in SUBSET Nat}
    BY <1>4, <2>1
  <2>3. QED
    BY <2>2 DEF Command, UndoDeleteEntry
<1>7. /\ CanRunUndo(cmd, e)
      /\ Undone(cmd, e) = SetEntries(e, i, Merge(e[i].entries, del))
  <2>1. \A k \in I : k <= Len(es)
    BY SMT, <1>2
  <2>2. \A k \in DOMAIN del : k <= Len(e[i].entries) + Cardinality(DOMAIN del)
    BY <1>3, <1>4, <1>5, <2>1
  <2>3. i = IndexOf(e, id)
    BY <1>5
  <2>4. QED
    BY ONLY Zenon, <2>2, <2>3, i # 0, RunDeleteEntry DEF cmd
<1>8. Undone(cmd, e) = d
  BY <1>3, <1>5, <1>7
<1> HIDE DEF cmd
<1>9. Undoes(cmd, d, e)
  BY <1>7, <1>8, UndoesIf
<1>10. QED
  BY <1>5, <1>6, <1>9 DEF es, fs, del, cmd

LEMMA ImportUndone ==
    ASSUME NEW d \in Storage, NEW id \in Id, NEW i, i = IndexOf(d, id), i # 0,
           NEW data \in Seq(Entries), kMaxEntrySize \in Nat
    PROVE  LET e == SetEntries(d, i, Import(d[i].entries, data))
               cmd == UndoImport(id, Len(d[i].entries))
           IN  e \in Storage /\ cmd \in Command /\ Undoes(cmd, d, e)
<1> DEFINE es == d[i].entries
           fs == Import(es, data)
           cmd == UndoImport(id, Len(es))
<1>1. es \in Seq(Entries)
  BY EntriesType
<1> HIDE DEF es
<1>2. Extends(fs, es, kMaxEntrySize)
  BY <1>1, ImportExtends
<1> HIDE DEF fs
<1>3. fs \in Seq(Entries)
  BY <1>2 DEF Extends
<1>4. SubSeq(fs, 1, Len(es)) = es
  <2> DEFINE s == SubSeq(fs, 1, Len(es))
  <2>1. /\ s \in Seq(Entries) /\ Len(s) = Len(es)
        /\ \A j \in 1..Len(s) : s[j] = es[j]
    BY SMT, <1>1, <1>2 DEF Extends
  <2> HIDE DEF s
  <2>2. s = es
    BY <1>1, <2>1, SeqEqual
  <2>3. QED
    BY <2>2 DEF s
<1>5. PICK e \in Storage :
         /\ e = SetEntries(d, i, fs) /\ i = IndexOf(e, id) /\ e[i].entries = fs
         /\ SetEntries(e, i, es) = d
  <2>1. PICK e \in Storage : EntriesSet(d, id, i, fs, e)
    BY <1>3, EntriesUndone
  <2>2. QED
    BY <2>1 DEF EntriesSet, es
<1>6. cmd \in Command
  <2>1. Len(es) \in Nat
    BY <1>1, LenProperties
  <2>2. QED
    BY <2>1 DEF Command, UndoImport
<1>7. /\ CanRunUndo(cmd, e)
      /\ Undone(cmd, e) = SetEntries(e, i, SubSeq(e[i].entries, 1, Len(es)))
  <2>1. i = IndexOf(e, id)
    BY <1>5
  <2>2. QED
    BY ONLY Zenon, <2>1, i # 0, RunImport DEF cmd
<1>8. Undone(cmd, e) = d
  BY <1>4, <1>5, <1>7
<1> HIDE DEF cmd
<1>9. Undoes(cmd, d, e)
  BY <1>7, <1>8, UndoesIf
<1>10. QED
  BY <1>5, <1>6, <1>9 DEF es, fs, cmd

-----------------------------------------------------------------------------
(***************************************************************************)
(* The history of commands.                                                *)
(***************************************************************************)
\* UndoRestores without the limit, for commands h, storages p before them and
\* the storage d after them.
Restores(h, p, d) ==
    /\ Len(h) = Len(p)
    /\ \A m \in 1..Len(h) : Undoes(h[m], p[m], IF m = Len(p) THEN d ELSE p[m + 1])

LEMMA UndoRestoresIs ==
    ASSUME undo_history \in Seq(Command)
    PROVE  UndoRestores <=> /\ Restores(undo_history, past, dictionaries)
                            /\ Len(undo_history) <= kMaxUndoHistory
<1>1. DOMAIN undo_history = 1..Len(undo_history)
  BY LenProperties
<1>2. QED
  BY <1>1 DEF UndoRestores, Restores, Undoes

LEMMA UndoRestoresPrime ==
    ASSUME (undo_history \in Seq(Command))'
    PROVE  UndoRestores' <=> /\ Restores(undo_history', past', dictionaries')
                             /\ Len(undo_history') <= kMaxUndoHistory
<1>1. DOMAIN undo_history' = 1..Len(undo_history')
  BY LenProperties
<1>2. QED
  BY <1>1 DEF UndoRestores, Restores, Undoes

LEMMA NothingToRestore ==
    ASSUME NEW d
    PROVE  Restores(<<>>, <<>>, d) /\ Len(<<>>) = 0
<1>1. Len(<<>>) = 0 /\ \A m \in 1..Len(<<>>) : FALSE
  BY SMT
<1>2. QED
  BY <1>1 DEF Restores

LEMMA RestoresAppend ==
    ASSUME NEW h \in Seq(Command), NEW p \in Seq(Storage), NEW d \in Storage, NEW e,
           Restores(h, p, d), NEW cmd \in Command, Undoes(cmd, d, e)
    PROVE  Restores(Append(h, cmd), Append(p, d), e)
<1> DEFINE n == Len(h)
           g == Append(h, cmd)
           q == Append(p, d)
<1>1. n \in Nat /\ Len(p) = n
  BY LenProperties DEF Restores
<1>2. /\ Len(g) = n + 1 /\ g[n + 1] = cmd
      /\ \A m \in 1..n : g[m] = h[m]
  BY SMT
<1>3. /\ Len(q) = n + 1 /\ q[n + 1] = d
      /\ \A m \in 1..n : q[m] = p[m]
  BY SMT, <1>1
<1> HIDE DEF n, g, q
<1>4. ASSUME NEW m \in 1..(n + 1)
      PROVE  Undoes(g[m], q[m], IF m = n + 1 THEN e ELSE q[m + 1])
  <2>1. CASE m = n + 1
    BY <1>2, <1>3, <2>1
  <2>2. CASE m = n
    <3>1. m \in 1..n /\ m # n + 1
      BY SMT, <1>1, <1>4, <2>2
    <3>2. Undoes(h[m], p[m], d)
      BY <1>1, <2>2, <3>1 DEF Restores, n
    <3>3. QED
      BY <1>2, <1>3, <2>2, <3>1, <3>2
  <2>3. CASE m # n + 1 /\ m # n
    <3>1. m \in 1..n /\ m + 1 \in 1..n
      BY SMTT(30), <1>1, <1>4, <2>3
    <3>2. Undoes(h[m], p[m], p[m + 1])
      BY <1>1, <2>3, <3>1 DEF Restores, n
    <3>3. QED
      BY <1>2, <1>3, <2>3, <3>1, <3>2
  <2>4. QED
    BY <2>1, <2>2, <2>3
<1>5. Restores(g, q, e)
  BY <1>2, <1>3, <1>4 DEF Restores
<1>6. QED
  BY <1>5 DEF g, q

\* Forgetting the oldest command, or the latest with the storage it restores.
LEMMA RestoresTail ==
    ASSUME NEW h \in Seq(Command), NEW p \in Seq(Storage), NEW d,
           Restores(h, p, d), Len(h) # 0
    PROVE  Restores(Tail(h), Tail(p), d)
<1> DEFINE n == Len(h)
           g == Tail(h)
           q == Tail(p)
<1>1. n \in Nat /\ n # 0 /\ Len(p) = n
  BY LenProperties DEF Restores
<1>2. Len(g) = n - 1 /\ \A m \in 1..(n - 1) : g[m] = h[m + 1]
  BY SMT, <1>1
<1>3. Len(q) = n - 1 /\ \A m \in 1..(n - 1) : q[m] = p[m + 1]
  BY SMT, <1>1
<1> HIDE DEF n, g, q
<1>4. ASSUME NEW m \in 1..(n - 1)
      PROVE  Undoes(g[m], q[m], IF m = n - 1 THEN d ELSE q[m + 1])
  <2>1. m + 1 \in 1..n /\ (m = n - 1 <=> m + 1 = n)
    BY SMT, <1>1
  <2>2. Undoes(h[m + 1], p[m + 1], IF m + 1 = n THEN d ELSE p[(m + 1) + 1])
    BY <1>1, <2>1 DEF Restores, n
  <2>3. CASE m = n - 1
    BY <1>2, <1>3, <2>1, <2>2, <2>3
  <2>4. CASE m # n - 1
    <3>1. m + 1 \in 1..(n - 1)
      BY SMT, <1>1, <2>4
    <3>2. q[m + 1] = p[(m + 1) + 1]
      BY <1>3, <3>1
    <3>3. QED
      BY <1>2, <1>3, <2>1, <2>2, <2>4, <3>2
  <2>5. QED
    BY <2>3, <2>4
<1>5. Restores(g, q, d)
  BY <1>2, <1>3, <1>4 DEF Restores
<1>6. QED
  BY <1>5 DEF g, q

LEMMA RestoresWithoutLast ==
    ASSUME NEW h \in Seq(Command), NEW p \in Seq(Storage), NEW d,
           Restores(h, p, d), Len(h) # 0
    PROVE  /\ Undoes(h[Len(h)], p[Len(p)], d)
           /\ Restores(RemoveLast(h), RemoveLast(p), p[Len(p)])
<1> DEFINE n == Len(h)
           g == RemoveLast(h)
           q == RemoveLast(p)
<1>1. n \in Nat /\ n # 0 /\ Len(p) = n
  BY LenProperties DEF Restores
<1>2. Len(g) = n - 1 /\ \A m \in 1..(n - 1) : g[m] = h[m]
  BY SMT, <1>1 DEF RemoveLast
<1>3. Len(q) = n - 1 /\ \A m \in 1..(n - 1) : q[m] = p[m]
  BY SMT, <1>1 DEF RemoveLast
<1> HIDE DEF n, g, q
<1>4. n \in 1..n
  BY SMT, <1>1
<1>5. n = Len(h)
  BY DEF n
<1>6. Undoes(h[n], p[n], d)
  BY <1>1, <1>4, <1>5 DEF Restores
<1>7. ASSUME NEW m \in 1..(n - 1)
      PROVE  Undoes(g[m], q[m], IF m = n - 1 THEN p[n] ELSE q[m + 1])
  <2>1. m \in 1..n /\ m # n /\ (m = n - 1 <=> m + 1 = n)
    BY SMT, <1>1
  <2>2. Undoes(h[m], p[m], p[m + 1])
    BY <1>1, <2>1 DEF Restores, n
  <2>3. CASE m = n - 1
    BY <1>2, <1>3, <2>1, <2>2, <2>3
  <2>4. CASE m # n - 1
    <3>1. m + 1 \in 1..(n - 1)
      BY SMT, <1>1, <2>4
    <3>2. QED
      BY <1>2, <1>3, <2>2, <2>4, <3>1
  <2>5. QED
    BY <2>3, <2>4
<1>8. Restores(g, q, p[n])
  BY <1>2, <1>3, <1>7 DEF Restores
<1>9. QED
  BY <1>1, <1>5, <1>6, <1>8 DEF g, q

LEMMA BoundedType ==
    ASSUME NEW S, NEW s \in Seq(S), Len(s) # 0
    PROVE  Bounded(s) \in Seq(S)
BY SMT DEF Bounded

LEMMA BoundedElements ==
    ASSUME NEW S, NEW s \in Seq(S), Len(s) # 0
    PROVE  \A n \in 1..Len(Bounded(s)) : \E m \in 1..Len(s) : Bounded(s)[n] = s[m]
<1>1. CASE Bounded(s) = s
  BY <1>1
<1>2. CASE Bounded(s) = Tail(s)
  <2>1. \A n \in 1..Len(Tail(s)) : n + 1 \in 1..Len(s) /\ Tail(s)[n] = s[n + 1]
    BY SMT
  <2>2. QED
    BY <1>2, <2>1
<1>3. QED
  BY <1>1, <1>2 DEF Bounded

-----------------------------------------------------------------------------
(***************************************************************************)
(* The steps keep IInv.                                                    *)
(***************************************************************************)
\* An edit with the command that undoes it.
LEMMA EditStep ==
    ASSUME IInv, NEW cmd \in Command, dictionaries' \in Storage,
           Undoes(cmd, dictionaries, dictionaries'), AddUndoCommand(cmd),
           default_name' = default_name
    PROVE  IInv'
<1> DEFINE g == Append(undo_history, cmd)
           q == Append(past, dictionaries)
<1>1. /\ undo_history \in Seq(Command) /\ past \in Seq(Storage)
      /\ dictionaries \in Storage /\ default_name \in Names
  BY DEF IInv, TypeInv
<1>2. /\ Restores(undo_history, past, dictionaries)
      /\ Len(undo_history) <= kMaxUndoHistory
  BY <1>1, UndoRestoresIs DEF IInv
<1>3. Len(undo_history) \in Nat /\ Len(past) = Len(undo_history)
  BY <1>1, <1>2, LenProperties DEF Restores
<1>4. g \in Seq(Command) /\ Len(g) = Len(undo_history) + 1 /\ Len(g) # 0
  BY SMT, <1>1
<1>5. q \in Seq(Storage) /\ Len(q) = Len(past) + 1 /\ Len(q) # 0
  BY SMT, <1>1
<1>6. Restores(g, q, dictionaries')
  BY <1>1, <1>2, RestoresAppend
<1>7. undo_history' = Bounded(g) /\ past' = Bounded(q)
  BY DEF AddUndoCommand
<1> HIDE DEF g, q
<1>8. undo_history' \in Seq(Command) /\ past' \in Seq(Storage)
  BY <1>4, <1>5, <1>7, BoundedType
<1>9. /\ Restores(undo_history', past', dictionaries')
      /\ Len(undo_history') <= kMaxUndoHistory
  <2>1. kMaxUndoHistory \in Nat
    BY UserDictionarySessionAssumptions
  <2>2. CASE Len(g) > kMaxUndoHistory
    <3>1. undo_history' = Tail(g) /\ past' = Tail(q)
      BY <1>3, <1>4, <1>5, <1>7, <2>2 DEF Bounded
    <3>2. Restores(Tail(g), Tail(q), dictionaries')
      BY <1>4, <1>5, <1>6, RestoresTail
    <3>3. Len(Tail(g)) = Len(undo_history)
      BY SMT, <1>3, <1>4
    <3>4. QED
      BY <1>2, <3>1, <3>2, <3>3
  <2>3. CASE ~(Len(g) > kMaxUndoHistory)
    <3>1. undo_history' = g /\ past' = q
      BY <1>3, <1>4, <1>5, <1>7, <2>3 DEF Bounded
    <3>2. Len(g) <= kMaxUndoHistory
      BY SMT, <1>3, <1>4, <2>1, <2>3
    <3>3. QED
      BY <1>6, <3>1, <3>2
  <2>4. QED
    BY <2>2, <2>3
<1>10. UndoRestores'
  BY <1>8, <1>9, UndoRestoresPrime
<1>11. QED
  BY <1>1, <1>8, <1>10 DEF IInv, TypeInv

\* A step that forgets all commands.
LEMMA ClearStep ==
    ASSUME dictionaries' \in Storage, default_name' \in Names, ClearUndoHistory
    PROVE  IInv'
<1>1. undo_history' = <<>> /\ past' = <<>>
  BY DEF ClearUndoHistory
<1>2. <<>> \in Seq(Command) /\ <<>> \in Seq(Storage)
  BY SMT
<1>3. 0 <= kMaxUndoHistory
  BY SMT, UserDictionarySessionAssumptions
<1>4. UndoRestores'
  BY <1>1, <1>2, <1>3, NothingToRestore, UndoRestoresPrime
<1>5. QED
  BY <1>1, <1>2, <1>4 DEF IInv, TypeInv

\* Undo brings back the latest of the storages remembered.
LEMMA UndoStep ==
    ASSUME IInv, Undo
    PROVE  /\ IInv'
           /\ Len(past) \in 1..Len(past)
           /\ dictionaries' = past[Len(past)]
           /\ past' = RemoveLast(past)
<1>1. /\ undo_history \in Seq(Command) /\ past \in Seq(Storage)
      /\ dictionaries \in Storage /\ default_name \in Names
  BY DEF IInv, TypeInv
<1>2. /\ Restores(undo_history, past, dictionaries)
      /\ Len(undo_history) <= kMaxUndoHistory
  BY <1>1, UndoRestoresIs DEF IInv
<1>3. /\ undo_history # <<>>
      /\ dictionaries' = RunUndo(undo_history[Len(undo_history)], dictionaries).dics
      /\ undo_history' = RemoveLast(undo_history) /\ past' = RemoveLast(past)
      /\ default_name' = default_name
  BY DEF Undo
<1>4. Len(undo_history) \in Nat /\ Len(undo_history) # 0 /\ Len(past) = Len(undo_history)
  BY <1>1, <1>2, <1>3, EmptySeq, LenProperties DEF Restores
<1>5. Len(past) \in 1..Len(past)
  BY SMT, <1>4
<1>6. /\ Undoes(undo_history[Len(undo_history)], past[Len(past)], dictionaries)
      /\ Restores(RemoveLast(undo_history), RemoveLast(past), past[Len(past)])
  BY <1>1, <1>2, <1>4, RestoresWithoutLast
<1>7. dictionaries' = past[Len(past)]
  <2>1. RunUndo(undo_history[Len(undo_history)], dictionaries)
          = [ok |-> TRUE, dics |-> past[Len(past)]]
    BY <1>6 DEF Undoes
  <2>2. \A x : [ok |-> TRUE, dics |-> x].dics = x
    BY SMT
  <2>3. QED
    BY <1>3, <2>1, <2>2
<1>8. dictionaries' \in Storage
  BY <1>1, <1>5, <1>7, ElementOfSeq
<1>9. /\ RemoveLast(undo_history) \in Seq(Command) /\ RemoveLast(past) \in Seq(Storage)
      /\ Len(RemoveLast(undo_history)) <= Len(undo_history)
  BY SMT, <1>1, <1>4 DEF RemoveLast
<1>10. Len(RemoveLast(undo_history)) <= kMaxUndoHistory
  BY SMT, <1>2, <1>4, <1>9, UserDictionarySessionAssumptions
<1>11. UndoRestores'
  BY <1>3, <1>6, <1>7, <1>9, <1>10, UndoRestoresPrime
<1>12. QED
  BY <1>1, <1>3, <1>5, <1>7, <1>8, <1>9, <1>11 DEF IInv, TypeInv

-----------------------------------------------------------------------------
(***************************************************************************)
(* Storages within the limits.                                             *)
(***************************************************************************)
\* As many values as indices means that they are distinct.
LEMMA DistinctValues ==
    ASSUME NEW n \in Nat, NEW f, f = [i \in 1..n |-> f[i]]
    PROVE  Cardinality({f[i] : i \in 1..n}) = n
             <=> \A i, j \in 1..n : i # j => f[i] # f[j]
<1> DEFINE T == {f[i] : i \in 1..n}
<1>1. IsFiniteSet(1..n) /\ Cardinality(1..n) = n
  BY SMT, FS_Interval
<1>2. f \in Surjection(1..n, T)
  <2>1. \A i \in 1..n : f[i] \in T
    OBVIOUS
  <2>2. f \in [1..n -> T]
    BY <2>1
  <2>3. \A t \in T : \E i \in 1..n : f[i] = t
    OBVIOUS
  <2> HIDE DEF T
  <2>4. QED
    BY <2>2, <2>3 DEF Surjection
<1>3. Cardinality(T) = Cardinality(1..n) <=> f \in Injection(1..n, T)
  BY <1>1, <1>2, FS_Surjection
<1>4. f \in Injection(1..n, T) <=> \A i, j \in 1..n : i # j => f[i] # f[j]
  <2>1. f \in [1..n -> T]
    BY <1>2 DEF Surjection
  <2> HIDE DEF T
  <2>2. QED
    BY <2>1 DEF Injection, IsInjective
<1>5. QED
  BY <1>1, <1>3, <1>4

LEMMA DistinctIds ==
    ASSUME NEW d \in Storage
    PROVE  Cardinality(IdsOf(d)) = Len(d)
             <=> \A i, j \in 1..Len(d) : i # j => d[i].id # d[j].id
<1> DEFINE f == [i \in 1..Len(d) |-> d[i].id]
<1>1. Len(d) \in Nat /\ DOMAIN d = 1..Len(d)
  BY LenProperties DEF Storage
<1>2. f = [i \in 1..Len(d) |-> f[i]] /\ \A i \in 1..Len(d) : f[i] = d[i].id
  OBVIOUS
<1> HIDE DEF f
<1>3. IdsOf(d) = {f[i] : i \in 1..Len(d)}
  BY <1>1, <1>2 DEF IdsOf
<1>4. Cardinality({f[i] : i \in 1..Len(d)}) = Len(d)
        <=> \A i, j \in 1..Len(d) : i # j => f[i] # f[j]
  BY <1>1, <1>2, DistinctValues
<1>5. QED
  BY <1>2, <1>3, <1>4

LEMMA DistinctNames ==
    ASSUME NEW d \in Storage
    PROVE  Cardinality(NamesOf(d)) = Len(d)
             <=> \A i, j \in 1..Len(d) : i # j => d[i].name # d[j].name
<1> DEFINE f == [i \in 1..Len(d) |-> d[i].name]
<1>1. Len(d) \in Nat /\ DOMAIN d = 1..Len(d)
  BY LenProperties DEF Storage
<1>2. f = [i \in 1..Len(d) |-> f[i]] /\ \A i \in 1..Len(d) : f[i] = d[i].name
  OBVIOUS
<1> HIDE DEF f
<1>3. NamesOf(d) = {f[i] : i \in 1..Len(d)}
  BY <1>1, <1>2 DEF NamesOf
<1>4. Cardinality({f[i] : i \in 1..Len(d)}) = Len(d)
        <=> \A i, j \in 1..Len(d) : i # j => f[i] # f[j]
  BY <1>1, <1>2, DistinctValues
<1>5. QED
  BY <1>2, <1>3, <1>4

LEMMA StorageValidIs ==
    ASSUME dictionaries \in Storage
    PROVE  StorageValid <=> Valid(dictionaries)
<1>1. DOMAIN dictionaries = 1..Len(dictionaries)
  BY LenProperties DEF Storage
<1>2. QED
  BY <1>1, DistinctIds, DistinctNames DEF StorageValid, Valid

LEMMA ValidIf ==
    ASSUME NEW e, NEW n, Len(e) = n, n <= kMaxDictionarySize,
           \A i, j \in 1..n : i # j => e[i].id # e[j].id,
           \A i, j \in 1..n : i # j => e[i].name # e[j].name,
           \A i \in 1..n : Len(e[i].entries) <= kMaxEntrySize
    PROVE  Valid(e)
<1>1. n = Len(e)
  OBVIOUS
<1>2. \A i, j \in 1..n : i # j => e[i].id # e[j].id /\ e[i].name # e[j].name
  OBVIOUS
<1>3. QED
  BY ONLY Zenon, <1>1, <1>2, n <= kMaxDictionarySize,
          \A i \in 1..n : Len(e[i].entries) <= kMaxEntrySize DEF Valid

LEMMA ValidGives ==
    ASSUME NEW d, Valid(d)
    PROVE  /\ Len(d) <= kMaxDictionarySize
           /\ \A i, j \in 1..Len(d) : i # j => d[i].id # d[j].id
           /\ \A i, j \in 1..Len(d) : i # j => d[i].name # d[j].name
           /\ \A i \in 1..Len(d) : Len(d[i].entries) <= kMaxEntrySize
BY DEF Valid

\* The first storage has one dictionary or none.
LEMMA ValidEmpty == Valid(<<>>) /\ <<>> \in Storage
<1>1. Len(<<>>) = 0 /\ (\A i \in 1..Len(<<>>) : FALSE) /\ 0 <= kMaxDictionarySize
  BY SMT, UserDictionarySessionAssumptions
<1>2. <<>> \in Seq(Dic)
  BY SMT
<1>3. QED
  BY <1>1, <1>2 DEF Valid, Storage

LEMMA NewDictionary ==
    ASSUME NEW id \in Id, NEW name \in Names
    PROVE  /\ Dictionary(id, name) \in Dic
           /\ Dictionary(id, name).id = id
           /\ Dictionary(id, name).name = name
           /\ Dictionary(id, name).entries = <<>>
<1>1. <<>> \in Seq(Entries)
  BY SMT
<1>2. Dictionary(id, name) \in Dic
  BY <1>1 DEF Dictionary, Dic
<1>3. QED
  BY SMT, <1>2 DEF Dictionary

LEMMA ValidSingle ==
    ASSUME NEW id \in Id, NEW name \in Names
    PROVE  Valid(<<Dictionary(id, name)>>)
<1>1. PICK x \in Dic : x = Dictionary(id, name) /\ x.entries = <<>>
  BY NewDictionary
<1>2. /\ Len(<<x>>) = 1 /\ <<x>>[1] = x /\ Len(<<>>) = 0
      /\ \A i \in 1..1 : i = 1
  BY SMT
<1>3. 1 <= kMaxDictionarySize /\ 0 <= kMaxEntrySize
  BY SMT, UserDictionarySessionAssumptions
<1>4. Valid(<<x>>)
  BY <1>1, <1>2, <1>3 DEF Valid
<1>5. QED
  BY <1>1, <1>4

\* CreateDictionary checks the name and the size, and the id is a new one.
LEMMA ValidAppend ==
    ASSUME NEW d \in Storage, Valid(d), NEW x \in Dic,
           x.id \notin IdsOf(d), x.name \notin NamesOf(d),
           Len(d) < kMaxDictionarySize, Len(x.entries) <= kMaxEntrySize
    PROVE  Valid(Append(d, x))
<1> DEFINE e == Append(d, x)
           n == Len(d)
<1>1. n \in Nat /\ DOMAIN d = 1..n
  BY LenProperties DEF Storage
<1>2. Len(e) = n + 1 /\ e[n + 1] = x /\ \A i \in 1..n : e[i] = d[i]
  BY SMT DEF Storage
<1>3. \A i \in 1..n : d[i].id # x.id /\ d[i].name # x.name
  BY <1>1 DEF IdsOf, NamesOf
<1>4. n + 1 <= kMaxDictionarySize
  BY SMT, <1>1, UserDictionarySessionAssumptions
<1>5. \A i \in 1..(n + 1) : i \in 1..n \/ i = n + 1
  BY SMT, <1>1
<1> HIDE DEF e, n
<1>6. \A i, j \in 1..(n + 1) :
         i # j => e[i].id # e[j].id /\ e[i].name # e[j].name
  <2> SUFFICES ASSUME NEW i \in 1..(n + 1), NEW j \in 1..(n + 1), i # j
               PROVE  e[i].id # e[j].id /\ e[i].name # e[j].name
    OBVIOUS
  <2>1. CASE i \in 1..n /\ j \in 1..n
    BY <1>2, <2>1 DEF Valid, n
  <2>2. CASE i = n + 1 /\ j \in 1..n
    BY <1>2, <1>3, <2>2
  <2>3. CASE j = n + 1 /\ i \in 1..n
    BY <1>2, <1>3, <2>3
  <2>4. QED
    BY <1>5, <2>1, <2>2, <2>3
<1>7. \A i \in 1..(n + 1) : Len(e[i].entries) <= kMaxEntrySize
  BY <1>2, <1>5 DEF Valid, n
<1>8. Valid(e)
  BY <1>2, <1>4, <1>6, <1>7 DEF Valid
<1>9. QED
  BY <1>8 DEF e

LEMMA ValidRemove ==
    ASSUME NEW d \in Storage, Valid(d), NEW i \in 1..Len(d)
    PROVE  Valid(RemoveAt(d, i))
<1> DEFINE n == Len(d)
<1>1. n \in Nat /\ d \in Seq(Dic)
  BY LenProperties DEF Storage
<1>2. PICK e : /\ e = RemoveAt(d, i) /\ Len(e) = n - 1
               /\ \A j \in 1..(i - 1) : e[j] = d[j]
               /\ \A j \in i..(n - 1) : e[j] = d[j + 1]
  <2>1. /\ Len(RemoveAt(d, i)) = n - 1
        /\ \A j \in 1..(i - 1) : RemoveAt(d, i)[j] = d[j]
        /\ \A j \in i..(n - 1) : RemoveAt(d, i)[j] = d[j + 1]
    BY <1>1, RemoveAtFacts
  <2>2. QED
    BY <2>1
<1> DEFINE old(j) == IF j < i THEN j ELSE j + 1
<1>3. /\ \A j \in 1..(n - 1) : old(j) \in 1..n
      /\ \A j, k \in 1..(n - 1) : j # k => old(j) # old(k)
      /\ n - 1 <= n
  BY SMT, <1>1
<1>4. \A j \in 1..(n - 1) : e[j] = d[old(j)]
  <2> SUFFICES ASSUME NEW j \in 1..(n - 1) PROVE e[j] = d[old(j)]
    OBVIOUS
  <2>1. CASE j < i
    <3>1. j \in 1..(i - 1)
      BY SMT, <2>1
    <3>2. QED
      BY <1>2, <2>1, <3>1
  <2>2. CASE ~(j < i)
    <3>1. j \in i..(n - 1)
      BY SMT, <1>1, <2>2
    <3>2. QED
      BY <1>2, <2>2, <3>1
  <2>3. QED
    BY <2>1, <2>2
<1>5. n - 1 <= kMaxDictionarySize
  BY SMTT(30), <1>1, UserDictionarySessionAssumptions DEF Valid
<1> HIDE DEF old
<1>6. \A j, k \in 1..(n - 1) : j # k => e[j].id # e[k].id /\ e[j].name # e[k].name
  <2> SUFFICES ASSUME NEW j \in 1..(n - 1), NEW k \in 1..(n - 1), j # k
               PROVE  e[j].id # e[k].id /\ e[j].name # e[k].name
    OBVIOUS
  <2>1. old(j) \in 1..n /\ old(k) \in 1..n /\ old(j) # old(k)
    BY <1>3
  <2>2. d[old(j)].id # d[old(k)].id /\ d[old(j)].name # d[old(k)].name
    BY <2>1 DEF Valid
  <2>3. QED
    BY <1>4, <2>2
<1>7. \A j \in 1..(n - 1) : Len(e[j].entries) <= kMaxEntrySize
  BY <1>3, <1>4 DEF Valid
<1> HIDE DEF n
<1>8. Valid(e)
  <2>1. Len(e) = n - 1
    BY <1>2
  <2>2. QED
    BY <1>5, <1>6, <1>7, <2>1, ValidIf
<1>9. QED
  BY <1>2, <1>8

\* RenameDictionary checks that no other dictionary has the name.
LEMMA ValidRename ==
    ASSUME NEW d \in Storage, Valid(d), NEW i \in 1..Len(d), NEW n \in Names,
           n = d[i].name \/ n \notin NamesOf(d)
    PROVE  Valid(SetName(d, i, n))
<1> DEFINE e == SetName(d, i, n)
<1>1. DOMAIN d = 1..Len(d)
  BY LenProperties DEF Storage
<1>2. /\ Len(e) = Len(d) /\ e[i].name = n
      /\ \A j \in 1..Len(d) : /\ e[j].id = d[j].id
                              /\ j # i => e[j].name = d[j].name
                              /\ e[j].entries = d[j].entries
  <2>1. NameChanged(d, i, n, e)
    BY SetNameFacts
  <2> HIDE DEF e
  <2>2. QED
    BY <2>1 DEF NameChanged
<1> HIDE DEF e
<1>3. \A j \in 1..Len(d) : j # i => d[j].name # n
  BY <1>1 DEF NamesOf, Valid
<1>4. \A j, k \in 1..Len(d) : j # k => e[j].name # e[k].name
  <2> SUFFICES ASSUME NEW j \in 1..Len(d), NEW k \in 1..Len(d), j # k
               PROVE  e[j].name # e[k].name
    OBVIOUS
  <2>1. CASE j = i
    BY <1>2, <1>3, <2>1
  <2>2. CASE k = i
    BY <1>2, <1>3, <2>2
  <2>3. CASE j # i /\ k # i
    <3>1. e[j].name = d[j].name /\ e[k].name = d[k].name
      BY <1>2, <2>3
    <3>2. d[j].name # d[k].name
      BY ValidGives
    <3>3. QED
      BY <3>1, <3>2
  <2>4. QED
    BY <2>1, <2>2, <2>3
<1>5. \A j, k \in 1..Len(d) : j # k => e[j].id # e[k].id
  <2> SUFFICES ASSUME NEW j \in 1..Len(d), NEW k \in 1..Len(d), j # k
               PROVE  e[j].id # e[k].id
    OBVIOUS
  <2>1. d[j].id # d[k].id
    BY ValidGives
  <2>2. e[j].id = d[j].id /\ e[k].id = d[k].id
    BY <1>2
  <2>3. QED
    BY <2>1, <2>2
<1>6. \A j \in 1..Len(d) : Len(e[j].entries) <= kMaxEntrySize
  BY <1>2, ValidGives
<1>7. Len(d) <= kMaxDictionarySize
  BY ValidGives
<1>8. Valid(e)
  BY <1>2, <1>4, <1>5, <1>6, <1>7, ValidIf
<1>9. QED
  BY <1>8 DEF e

LEMMA ValidSetEntries ==
    ASSUME NEW d \in Storage, Valid(d), NEW i \in 1..Len(d), NEW es \in Seq(Entries),
           Len(es) <= kMaxEntrySize
    PROVE  Valid(SetEntries(d, i, es))
<1> DEFINE e == SetEntries(d, i, es)
<1>1. /\ Len(e) = Len(d) /\ e[i].entries = es
      /\ \A j \in 1..Len(d) : /\ e[j].id = d[j].id
                              /\ e[j].name = d[j].name
                              /\ j # i => e[j].entries = d[j].entries
  <2>1. EntriesChanged(d, i, es, e)
    BY SetEntriesFacts
  <2> HIDE DEF e
  <2>2. QED
    BY <2>1 DEF EntriesChanged
<1> HIDE DEF e
<1>2. \A j, k \in 1..Len(d) : j # k => e[j].id # e[k].id
  <2> SUFFICES ASSUME NEW j \in 1..Len(d), NEW k \in 1..Len(d), j # k
               PROVE  e[j].id # e[k].id
    OBVIOUS
  <2>1. d[j].id # d[k].id
    BY ValidGives
  <2>2. e[j].id = d[j].id /\ e[k].id = d[k].id
    BY <1>1
  <2>3. QED
    BY <2>1, <2>2
<1>3. \A j, k \in 1..Len(d) : j # k => e[j].name # e[k].name
  <2> SUFFICES ASSUME NEW j \in 1..Len(d), NEW k \in 1..Len(d), j # k
               PROVE  e[j].name # e[k].name
    OBVIOUS
  <2>1. d[j].name # d[k].name
    BY ValidGives
  <2>2. e[j].name = d[j].name /\ e[k].name = d[k].name
    BY <1>1
  <2>3. QED
    BY <2>1, <2>2
<1>4. \A j \in 1..Len(d) : Len(e[j].entries) <= kMaxEntrySize
  BY <1>1, ValidGives
<1>5. Valid(e)
  BY <1>1, <1>2, <1>3, <1>4, ValidGives, ValidIf
<1>6. QED
  BY <1>5 DEF e

\* The files keep the limits and their names and ids apart, as the files this
\* program saves do.  Ids may be missing.
ValidFiles ==
    \A f \in Files :
        /\ Len(f) <= kMaxDictionarySize
        /\ \A i, j \in 1..Len(f) : i # j => f[i].name # f[j].name
        /\ \A i, j \in 1..Len(f) :
              i # j /\ f[i].id # 0 /\ f[j].id # 0 => f[i].id # f[j].id
        /\ \A i \in 1..Len(f) : Len(f[i].entries) <= kMaxEntrySize

LEMMA LoadedFile ==
    ASSUME NEW f \in Files, NEW new \in FreshIds(f)
    PROVE  /\ Identified(f, new) \in Storage
           /\ ValidFiles => Valid(Identified(f, new))
<1> DEFINE e == Identified(f, new)
           n == Len(f)
<1>1. f \in Seq([id : Id \cup {0}, name : Names, entries : Seq(Entries)])
  BY UserDictionarySessionAssumptions DEF Dictionaries
<1>2. n \in Nat /\ DOMAIN f = 1..n
  BY <1>1, LenProperties
<1>3. /\ new \in [1..n -> Id]
      /\ \A i, j \in 1..n : i # j /\ f[i].id = 0 => new[i] # e[j].id
  BY <1>2 DEF FreshIds
<1>4. e = [i \in 1..n |-> IF f[i].id = 0 THEN [f[i] EXCEPT !.id = new[i]] ELSE f[i]]
  BY <1>2 DEF Identified
<1> HIDE DEF e
<1>5. ASSUME NEW i \in 1..n
      PROVE  /\ e[i] \in Dic /\ e[i].name = f[i].name /\ e[i].entries = f[i].entries
             /\ f[i].id = 0 => e[i].id = new[i]
  <2>1. f[i] \in [id : Id \cup {0}, name : Names, entries : Seq(Entries)]
    BY <1>1, ElementOfSeq
  <2>2. new[i] \in Id
    BY <1>3
  <2>3. CASE f[i].id = 0
    <3>1. e[i] = [f[i] EXCEPT !.id = new[i]]
      BY <1>4, <2>3
    <3>2. QED
      BY SMTT(30), <2>1, <2>2, <3>1 DEF Dic
  <2>4. CASE f[i].id # 0
    <3>1. e[i] = f[i]
      BY <1>4, <2>4
    <3>2. f[i] \in Dic
      BY SMT, <2>1, <2>4 DEF Dic
    <3>3. QED
      BY <2>4, <3>1, <3>2
  <2>5. QED
    BY <2>3, <2>4
<1>6. e \in Storage /\ Len(e) = n
  <2>1. e = [i \in 1..n |-> e[i]]
    BY <1>4
  <2> HIDE DEF n
  <2>2. QED
    BY SMTT(30), <1>2, <1>5, <2>1 DEF Storage
<1>7. ASSUME ValidFiles
      PROVE  \A i, j \in 1..n : i # j => e[i].id # e[j].id
  <2> SUFFICES ASSUME NEW i \in 1..n, NEW j \in 1..n, i # j
               PROVE  e[i].id # e[j].id
    OBVIOUS
  <2>1. CASE f[i].id = 0
    <3>1. new[i] # e[j].id
      BY <1>3, <2>1
    <3>2. e[i].id = new[i]
      BY <1>5, <2>1
    <3>3. QED
      BY <3>1, <3>2
  <2>2. CASE f[j].id = 0
    <3>1. new[j] # e[i].id
      BY <1>3, <2>2
    <3>2. e[j].id = new[j]
      BY <1>5, <2>2
    <3>3. QED
      BY <3>1, <3>2
  <2>3. CASE f[i].id # 0 /\ f[j].id # 0
    <3>1. f[i].id # f[j].id
      BY <1>7, <2>3 DEF ValidFiles
    <3>2. e[i] = f[i] /\ e[j] = f[j]
      BY <1>4, <2>3
    <3>3. QED
      BY <3>1, <3>2
  <2>4. QED
    BY <2>1, <2>2, <2>3
<1>8. ASSUME ValidFiles PROVE Valid(e)
  <2>1. /\ n <= kMaxDictionarySize
        /\ \A i, j \in 1..n : i # j => f[i].name # f[j].name
        /\ \A i \in 1..n : Len(f[i].entries) <= kMaxEntrySize
    BY <1>8 DEF ValidFiles
  <2> HIDE DEF n
  <2>2. \A i, j \in 1..n : i # j => e[i].name # e[j].name
    <3>1. \A i \in 1..n : e[i].name = f[i].name
      BY <1>5
    <3> SUFFICES ASSUME NEW i \in 1..n, NEW j \in 1..n, i # j
                 PROVE  e[i].name # e[j].name
      OBVIOUS
    <3>2. f[i].name # f[j].name
      BY <2>1
    <3>3. QED
      BY <3>1, <3>2
  <2>3. \A i \in 1..n : Len(e[i].entries) <= kMaxEntrySize
    BY <1>5, <2>1
  <2>4. QED
    BY <1>6, <1>7, <1>8, <2>1, <2>2, <2>3, ValidIf
<1>9. QED
  BY <1>6, <1>8 DEF e

-----------------------------------------------------------------------------
(***************************************************************************)
(* The steps, one by one.                                                  *)
(***************************************************************************)
\* A storage is added to those remembered, and a valid storage stays valid.
Edited ==
    /\ past' = Bounded(Append(past, dictionaries))
    /\ Valid(dictionaries) => Valid(dictionaries')

\* The storages remembered are forgotten, and the new one is valid.
Cleared ==
    /\ past' = <<>>
    /\ ValidFiles => Valid(dictionaries')

LEMMA CreateSessionStep ==
    ASSUME CreateSession
    PROVE  IInv' /\ Cleared
<1>1. /\ dictionaries' = <<>> /\ ClearUndoHistory
      /\ default_name' = CHOOSE n \in Names : TRUE
  BY DEF CreateSession
<1>2. default_name' \in Names
  BY <1>1, UserDictionarySessionAssumptions
<1>3. IInv'
  BY <1>1, <1>2, ValidEmpty, ClearStep
<1>4. QED
  BY <1>1, <1>3, ValidEmpty DEF Cleared, ClearUndoHistory

LEMMA LoadStep ==
    ASSUME IInv, NEW f \in Files, Load(f)
    PROVE  IInv' /\ Cleared
<1>1. PICK new \in FreshIds(f) : dictionaries' = Identified(f, new)
  BY DEF Load
<1>2. ClearUndoHistory /\ default_name' = default_name
  BY DEF Load
<1>3. dictionaries' \in Storage /\ (ValidFiles => Valid(dictionaries'))
  BY <1>1, LoadedFile
<1>4. default_name' \in Names
  BY <1>2 DEF IInv, TypeInv
<1>5. QED
  BY <1>2, <1>3, <1>4, ClearStep DEF Cleared, ClearUndoHistory

LEMMA FirstDictionary ==
    ASSUME IInv, NEW id \in Id
    PROVE  LET first == <<Dictionary(id, default_name)>>
           IN  first \in Storage /\ Valid(first)
<1>1. default_name \in Names
  BY DEF IInv, TypeInv
<1>2. Dictionary(id, default_name) \in Dic
  BY <1>1, NewDictionary
<1>3. \A x \in Dic : <<x>> \in Seq(Dic)
  BY SMT
<1>4. QED
  BY <1>1, <1>2, <1>3, ValidSingle DEF Storage

LEMMA LoadNothingStep ==
    ASSUME IInv, LoadMissingFile \/ LoadEmptyFile
    PROVE  IInv' /\ Cleared
<1>1. PICK id \in Id : dictionaries' = <<Dictionary(id, default_name)>>
  BY DEF LoadMissingFile, LoadEmptyFile, EnsureNonEmptyStorage
<1>2. ClearUndoHistory /\ default_name' = default_name
  BY DEF LoadMissingFile, LoadEmptyFile
<1>3. dictionaries' \in Storage /\ Valid(dictionaries')
  BY <1>1, FirstDictionary
<1>4. default_name' \in Names
  BY <1>2 DEF IInv, TypeInv
<1>5. QED
  BY <1>2, <1>3, <1>4, ClearStep DEF Cleared, ClearUndoHistory

LEMMA SetDefaultStep ==
    ASSUME IInv, NEW name \in Names, SetDefaultDictionaryName(name)
    PROVE  IInv' /\ dictionaries' = dictionaries /\ past' = past
<1>1. /\ dictionaries' = dictionaries /\ past' = past
      /\ undo_history' = undo_history /\ default_name' \in Names
  BY DEF SetDefaultDictionaryName
<1>2. TypeInv'
  BY <1>1 DEF IInv, TypeInv
<1>3. UndoRestores'
  BY <1>1 DEF IInv, UndoRestores
<1>4. QED
  BY <1>1, <1>2, <1>3 DEF IInv

LEMMA AppendDictionaryStep ==
    ASSUME IInv, NEW name \in Names, NEW id \in NewIds(dictionaries),
           NEW x \in Dic, x.id = id, x.name = name, Len(x.entries) <= kMaxEntrySize,
           CanCreate(dictionaries, name), dictionaries' = Append(dictionaries, x),
           AddUndoCommand(UndoCreateDictionary), default_name' = default_name
    PROVE  IInv' /\ Edited
<1>1. dictionaries \in Storage
  BY DEF IInv, TypeInv
<1>2. /\ dictionaries' \in Storage /\ UndoCreateDictionary \in Command
      /\ Undoes(UndoCreateDictionary, dictionaries, dictionaries')
  BY <1>1, CreateUndone
<1>3. IInv'
  BY <1>2, EditStep
<1>4. /\ x.id \notin IdsOf(dictionaries) /\ x.name \notin NamesOf(dictionaries)
      /\ Len(dictionaries) < kMaxDictionarySize
  BY DEF NewIds, CanCreate
<1>5. Valid(dictionaries) => Valid(dictionaries')
  BY <1>1, <1>4, ValidAppend
<1>6. QED
  BY <1>3, <1>5 DEF Edited, AddUndoCommand

LEMMA CreateDictionaryStep ==
    ASSUME IInv, NEW name \in Names, CreateDictionary(name)
    PROVE  IInv' /\ Edited
<1>1. PICK id \in NewIds(dictionaries) :
         dictionaries' = Append(dictionaries, Dictionary(id, name))
  BY DEF CreateDictionary
<1>2. id \in Id
  BY DEF NewIds
<1>3. PICK x \in Dic : /\ x = Dictionary(id, name)
                       /\ x.id = id /\ x.name = name /\ x.entries = <<>>
  BY <1>2, NewDictionary
<1>4. Len(<<>>) <= kMaxEntrySize
  BY SMT, UserDictionarySessionAssumptions
<1>5. Len(x.entries) <= kMaxEntrySize
  BY <1>3, <1>4
<1>6. QED
  BY <1>1, <1>3, <1>5, AppendDictionaryStep DEF CreateDictionary

LEMMA ImportToNewStep ==
    ASSUME IInv, NEW name \in Names, NEW data \in Imports,
           ImportToNewDictionaryFromString(name, data)
    PROVE  IInv' /\ Edited
<1> DEFINE es == Import(<<>>, data)
<1>1. PICK id \in NewIds(dictionaries) :
         dictionaries' = Append(dictionaries,
                                WithEntries(Dictionary(id, name), es))
  BY DEF ImportToNewDictionaryFromString, WithEntries
<1>2. id \in Id
  BY DEF NewIds
<1>3. data \in Seq(Entries) /\ kMaxEntrySize \in Nat
  BY UserDictionarySessionAssumptions
<1>4. <<>> \in Seq(Entries) /\ Len(<<>>) = 0
  BY SMT
<1>5. Extends(es, <<>>, kMaxEntrySize)
  BY <1>3, <1>4, ImportExtends
<1>6. 0 <= kMaxEntrySize
  BY SMT, <1>3
<1> HIDE DEF es
<1>7. es \in Seq(Entries) /\ Len(es) <= kMaxEntrySize
  BY <1>4, <1>5, <1>6 DEF Extends
<1>8. /\ Dictionary(id, name) \in Dic
      /\ Dictionary(id, name).id = id /\ Dictionary(id, name).name = name
  BY <1>2, NewDictionary
<1>9. PICK x \in Dic : /\ x = WithEntries(Dictionary(id, name), es)
                       /\ x.id = id /\ x.name = name /\ x.entries = es
  <2>1. /\ WithEntries(Dictionary(id, name), es) \in Dic
        /\ WithEntries(Dictionary(id, name), es).id = Dictionary(id, name).id
        /\ WithEntries(Dictionary(id, name), es).name = Dictionary(id, name).name
        /\ WithEntries(Dictionary(id, name), es).entries = es
    BY ONLY Zenon, <1>7, <1>8, WithEntriesFacts
  <2>2. QED
    BY <1>8, <2>1
<1>10. Len(x.entries) <= kMaxEntrySize
  BY <1>7, <1>9
<1>11. QED
  BY <1>1, <1>9, <1>10, AppendDictionaryStep DEF ImportToNewDictionaryFromString

LEMMA DeleteDictionaryStep ==
    ASSUME IInv, NEW id \in Id, NEW ensure, DeleteDictionary(id, ensure)
    PROVE  IInv' /\ Edited
<1> DEFINE d == dictionaries
           i == IndexOf(d, id)
           rest == RemoveAt(d, i)
<1>1. d \in Storage /\ default_name \in Names
  BY DEF IInv, TypeInv
<1>2. i # 0 /\ default_name' = default_name
  BY DEF DeleteDictionary
<1>3. i \in 1..Len(d)
  BY <1>1, <1>2, IndexFacts
<1>4. CASE ensure /\ rest = <<>>
  <2>1. PICK new \in Id : dictionaries' = EnsureNonEmptyStorage(rest, new)
    BY <1>4 DEF DeleteDictionary
  <2>2. AddUndoCommand(UndoDeleteLastDictionary(d[i]))
    BY <1>4 DEF DeleteDictionary
  <2> HIDE DEF i, rest
  <2>3. dictionaries' = <<Dictionary(new, default_name)>>
    BY <1>4, <2>1 DEF EnsureNonEmptyStorage
  <2>4. Valid(dictionaries')
    BY <1>1, <2>3, ValidSingle
  <2>5. Dictionary(new, default_name) \in Dic
    BY <1>1, NewDictionary
  <2>6. /\ dictionaries' \in Storage
        /\ UndoDeleteLastDictionary(d[i]) \in Command
        /\ Undoes(UndoDeleteLastDictionary(d[i]), d, dictionaries')
    BY <1>1, <1>3, <1>4, <2>3, <2>5, DeleteLastUndone DEF rest
  <2>7. IInv'
    BY <1>2, <2>2, <2>6, EditStep
  <2>8. QED
    BY <2>2, <2>4, <2>7 DEF Edited, AddUndoCommand
<1>5. CASE ~(ensure /\ rest = <<>>)
  <2>1. dictionaries' = rest /\ AddUndoCommand(UndoDeleteDictionary(i, d[i]))
    BY <1>5 DEF DeleteDictionary
  <2> HIDE DEF i
  <2>2. /\ dictionaries' \in Storage
        /\ UndoDeleteDictionary(i, d[i]) \in Command
        /\ Undoes(UndoDeleteDictionary(i, d[i]), d, dictionaries')
    BY <1>1, <1>3, <2>1, DeleteUndone
  <2>3. Valid(d) => Valid(dictionaries')
    BY <1>1, <1>3, <2>1, ValidRemove
  <2>4. IInv'
    BY <1>2, <2>1, <2>2, EditStep
  <2>5. QED
    BY <2>1, <2>3, <2>4 DEF Edited, AddUndoCommand
<1>6. QED
  BY <1>4, <1>5

LEMMA RenameDictionaryStep ==
    ASSUME IInv, NEW id \in Id, NEW name \in Names, RenameDictionary(id, name)
    PROVE  IInv' /\ Edited
<1> DEFINE d == dictionaries
           i == IndexOf(d, id)
           cmd == UndoRenameDictionary(id, d[i].name)
<1>1. d \in Storage
  BY DEF IInv, TypeInv
<1>2. /\ i # 0 /\ default_name' = default_name
      /\ name = d[i].name \/ name \notin NamesOf(d)
      /\ dictionaries' = SetName(d, i, name)
      /\ AddUndoCommand(cmd)
  BY DEF RenameDictionary, SetName
<1>3. i \in 1..Len(d)
  BY <1>1, <1>2, IndexFacts
<1>4. dictionaries' \in Storage /\ cmd \in Command /\ Undoes(cmd, d, dictionaries')
  BY <1>1, <1>2, RenameUndone
<1> HIDE DEF i, cmd
<1>5. Valid(d) => Valid(dictionaries')
  BY <1>1, <1>2, <1>3, ValidRename
<1>6. IInv'
  BY <1>2, <1>4, EditStep
<1>7. QED
  BY <1>2, <1>5, <1>6 DEF Edited, AddUndoCommand

LEMMA AddEntryStep ==
    ASSUME IInv, NEW id \in Id, NEW x \in Entries, AddEntry(id, x)
    PROVE  IInv' /\ Edited
<1> DEFINE d == dictionaries
           i == IndexOf(d, id)
           es == d[i].entries
           cmd == UndoAddEntry(id)
<1>1. d \in Storage
  BY DEF IInv, TypeInv
<1>2. /\ i # 0 /\ default_name' = default_name /\ Len(es) < kMaxEntrySize
      /\ dictionaries' = SetEntries(d, i, Append(es, x))
      /\ AddUndoCommand(cmd)
  BY DEF AddEntry
<1>3. i \in 1..Len(d) /\ es \in Seq(Entries)
  BY <1>1, <1>2, EntriesType
<1>4. dictionaries' \in Storage /\ cmd \in Command /\ Undoes(cmd, d, dictionaries')
  <2> DEFINE e == SetEntries(d, i, Append(es, x))
  <2>1. e \in Storage /\ cmd \in Command /\ Undoes(cmd, d, e)
    <3>1. i # 0
      BY <1>2
    <3>2. QED
      BY ONLY <1>1, <3>1, id \in Id, x \in Entries, AddEntryUndone
  <2> HIDE DEF e, cmd
  <2>2. QED
    BY <1>2, <2>1 DEF e
<1> HIDE DEF i, es, cmd
<1>5. Append(es, x) \in Seq(Entries) /\ Len(Append(es, x)) <= kMaxEntrySize
  BY SMT, <1>2, <1>3, UserDictionarySessionAssumptions
<1>6. Valid(d) => Valid(dictionaries')
  BY <1>1, <1>2, <1>3, <1>5, ValidSetEntries
<1>7. IInv'
  BY <1>2, <1>4, EditStep
<1>8. QED
  BY <1>2, <1>6, <1>7 DEF Edited, AddUndoCommand

LEMMA EditEntryStep ==
    ASSUME IInv, NEW id \in Id, NEW index, NEW x \in Entries, EditEntry(id, index, x)
    PROVE  IInv' /\ Edited
<1> DEFINE d == dictionaries
           i == IndexOf(d, id)
           es == d[i].entries
           fs == Replaced(es, index, x)
           cmd == UndoEditEntry(id, index, es[index])
<1>1. d \in Storage
  BY DEF IInv, TypeInv
<1>2. /\ i # 0 /\ default_name' = default_name /\ index \in DOMAIN es
      /\ dictionaries' = SetEntries(d, i, fs)
      /\ AddUndoCommand(cmd)
  BY DEF EditEntry, SetEntries, Replaced
<1>3. i \in 1..Len(d) /\ es \in Seq(Entries)
  BY <1>1, <1>2, EntriesType
<1>4. /\ fs \in Seq(Entries) /\ Len(fs) = Len(es)
      /\ dictionaries' \in Storage /\ cmd \in Command /\ Undoes(cmd, d, dictionaries')
  BY <1>1, <1>2, EditEntryUndone
<1>5. ASSUME Valid(d) PROVE Valid(dictionaries')
  <2>1. Len(es) <= kMaxEntrySize
    BY <1>3, <1>5, ValidGives
  <2> HIDE DEF i, es, fs
  <2>2. QED
    BY <1>1, <1>2, <1>3, <1>4, <1>5, <2>1, ValidSetEntries
<1> HIDE DEF i, es, fs, cmd
<1>6. IInv'
  BY <1>2, <1>4, EditStep
<1>7. QED
  BY <1>2, <1>5, <1>6 DEF Edited, AddUndoCommand

LEMMA DeleteEntryStep ==
    ASSUME IInv, NEW id \in Id, NEW I, DeleteEntry(id, I)
    PROVE  IInv' /\ Edited
<1> DEFINE d == dictionaries
           i == IndexOf(d, id)
           es == d[i].entries
           fs == Without(es, I)
           cmd == UndoDeleteEntry(id, [k \in I |-> es[k]])
<1>1. d \in Storage
  BY DEF IInv, TypeInv
<1>2. /\ i # 0 /\ default_name' = default_name /\ I \subseteq DOMAIN es
      /\ dictionaries' = SetEntries(d, i, fs)
      /\ AddUndoCommand(cmd)
  BY DEF DeleteEntry
<1>3. i \in 1..Len(d) /\ es \in Seq(Entries)
  BY <1>1, <1>2, EntriesType
<1>4. dictionaries' \in Storage /\ cmd \in Command /\ Undoes(cmd, d, dictionaries')
  BY <1>1, <1>2, DeleteEntryUndone
<1> HIDE DEF cmd
<1>5. ASSUME Valid(d) PROVE Valid(dictionaries')
  <2>1. Len(es) <= kMaxEntrySize /\ Len(es) \in Nat
    BY <1>3, <1>5, ValidGives, LenProperties
  <2> HIDE DEF i, es
  <2>2. I \in SUBSET (1..Len(es))
    BY <1>2, <1>3, LenProperties
  <2>3. fs \in Seq(Entries) /\ Len(fs) <= Len(es)
    BY ONLY Zenon, <1>3, <2>2, WithoutFacts
  <2> HIDE DEF fs
  <2>4. Len(fs) <= kMaxEntrySize
    <3>1. Len(fs) \in Nat /\ kMaxEntrySize \in Nat
      BY <2>3, LenProperties, UserDictionarySessionAssumptions
    <3>2. QED
      BY ONLY SMT, <2>1, <2>3, <3>1
  <2>5. QED
    BY <1>1, <1>2, <1>3, <1>5, <2>3, <2>4, ValidSetEntries
<1> HIDE DEF i, es, fs
<1>6. IInv'
  BY <1>2, <1>4, EditStep
<1>7. QED
  BY <1>2, <1>5, <1>6 DEF Edited, AddUndoCommand

LEMMA ImportStep ==
    ASSUME IInv, NEW id \in Id, NEW data \in Imports, ImportFromString(id, data)
    PROVE  IInv' /\ Edited
<1> DEFINE d == dictionaries
           i == IndexOf(d, id)
           es == d[i].entries
           fs == Import(es, data)
           cmd == UndoImport(id, Len(es))
<1>1. d \in Storage
  BY DEF IInv, TypeInv
<1>2. /\ i # 0 /\ default_name' = default_name
      /\ dictionaries' = SetEntries(d, i, fs)
      /\ AddUndoCommand(cmd)
  BY DEF ImportFromString
<1>3. i \in 1..Len(d) /\ es \in Seq(Entries)
  BY <1>1, <1>2, EntriesType
<1>4. data \in Seq(Entries) /\ kMaxEntrySize \in Nat
  BY UserDictionarySessionAssumptions
<1>5. dictionaries' \in Storage /\ cmd \in Command /\ Undoes(cmd, d, dictionaries')
  BY <1>1, <1>2, <1>4, ImportUndone
<1> HIDE DEF cmd
<1>6. ASSUME Valid(d) PROVE Valid(dictionaries')
  <2>1. Len(es) <= kMaxEntrySize
    BY <1>3, <1>6, ValidGives
  <2>2. Extends(fs, es, kMaxEntrySize)
    BY <1>3, <1>4, ImportExtends
  <2> HIDE DEF i, es, fs
  <2>3. fs \in Seq(Entries) /\ Len(fs) <= kMaxEntrySize
    BY <2>1, <2>2 DEF Extends
  <2>4. QED
    BY <1>1, <1>2, <1>3, <1>6, <2>3, ValidSetEntries
<1> HIDE DEF i, es, fs
<1>7. IInv'
  BY <1>2, <1>5, EditStep
<1>8. QED
  BY <1>2, <1>6, <1>7 DEF Edited, AddUndoCommand

-----------------------------------------------------------------------------
(***************************************************************************)
(* The theorems.                                                           *)
(***************************************************************************)
LEMMA InitInv ==
    ASSUME Init
    PROVE  IInv /\ past = <<>> /\ Valid(dictionaries)
<1>1. /\ dictionaries = <<>> /\ undo_history = <<>> /\ past = <<>>
      /\ default_name = CHOOSE n \in Names : TRUE
  BY DEF Init, NewSession
<1>2. default_name \in Names
  BY <1>1, UserDictionarySessionAssumptions
<1>3. <<>> \in Seq(Command) /\ <<>> \in Seq(Storage)
  BY SMT
<1>4. 0 <= kMaxUndoHistory
  BY SMT, UserDictionarySessionAssumptions
<1>5. UndoRestores
  BY <1>1, <1>3, <1>4, NothingToRestore, UndoRestoresIs
<1>6. QED
  BY <1>1, <1>2, <1>3, <1>5, ValidEmpty DEF IInv, TypeInv

LEMMA EditDictionaryStep ==
    ASSUME IInv, NEW id \in Id, EditDictionary(id)
    PROVE  IInv' /\ Edited
<1>1. CASE \E ensure \in BOOLEAN : DeleteDictionary(id, ensure)
  BY <1>1, DeleteDictionaryStep
<1>2. CASE \E name \in Names : RenameDictionary(id, name)
  BY <1>2, RenameDictionaryStep
<1>3. CASE \E entry \in Entries : AddEntry(id, entry)
  BY <1>3, AddEntryStep
<1>4. CASE \E entry \in Entries, index \in Indices : EditEntry(id, index, entry)
  BY <1>4, EditEntryStep
<1>5. CASE \E indices \in SUBSET Indices : DeleteEntry(id, indices)
  BY <1>5, DeleteEntryStep
<1>6. CASE \E data \in Imports : ImportFromString(id, data)
  BY <1>6, ImportStep
<1>7. QED
  BY <1>1, <1>2, <1>3, <1>4, <1>5, <1>6 DEF EditDictionary

\* What a step does to the storages: it leaves them alone, forgets those
\* remembered, goes back to the latest of them, or remembers one more.
LEMMA StepKinds ==
    ASSUME IInv, Next
    PROVE  /\ IInv'
           /\ \/ dictionaries' = dictionaries /\ past' = past
              \/ Cleared
              \/ /\ Len(past) \in 1..Len(past)
                 /\ dictionaries' = past[Len(past)]
                 /\ past' = RemoveLast(past)
              \/ Edited
<1>1. CASE CreateSession
  BY <1>1, CreateSessionStep
<1>2. CASE \E name \in Names : SetDefaultDictionaryName(name)
  BY <1>2, SetDefaultStep
<1>3. CASE \E name \in Names : CreateDictionary(name)
  BY <1>3, CreateDictionaryStep
<1>4. CASE \E name \in Names, data \in Imports :
              ImportToNewDictionaryFromString(name, data)
  BY <1>4, ImportToNewStep
<1>5. CASE \E f \in Files : Load(f)
  BY <1>5, LoadStep
<1>6. CASE LoadMissingFile \/ LoadEmptyFile
  BY <1>6, LoadNothingStep
<1>7. CASE Undo
  BY <1>7, UndoStep
<1>8. CASE \E id \in Id : EditDictionary(id)
  BY <1>8, EditDictionaryStep
<1>9. QED
  BY <1>1, <1>2, <1>3, <1>4, <1>5, <1>6, <1>7, <1>8 DEF Next

LEMMA StutteringInv ==
    ASSUME IInv, UNCHANGED vars
    PROVE  IInv' /\ dictionaries' = dictionaries /\ past' = past
<1>1. /\ dictionaries' = dictionaries /\ past' = past
      /\ undo_history' = undo_history /\ default_name' = default_name
  BY DEF vars
<1>2. QED
  BY <1>1 DEF IInv, TypeInv, UndoRestores

\* However edits, imports, loads and undos follow each other, Undo in
\* user_dictionary_session.cc walks back exactly the way the user came, for any
\* limits, dictionaries, entries and data to import.
THEOREM UndoWalksBack == Spec => []UndoRestores
<1>1. Init => IInv
  BY InitInv
<1>2. IInv /\ [Next]_vars => IInv'
  BY StepKinds, StutteringInv
<1>3. IInv => UndoRestores
  BY DEF IInv
<1>4. QED
  BY <1>1, <1>2, <1>3, PTL DEF Spec

LEMMA ValidStep ==
    ASSUME ValidFiles, ValidInv, Next
    PROVE  ValidInv'
<1>1. /\ IInv /\ Valid(dictionaries)
      /\ \A n \in 1..Len(past) : Valid(past[n])
  BY DEF ValidInv
<1>2. past \in Seq(Storage) /\ dictionaries \in Storage
  BY <1>1 DEF IInv, TypeInv
<1>3. IInv'
  BY <1>1, StepKinds
<1>4. CASE dictionaries' = dictionaries /\ past' = past
  BY <1>1, <1>3, <1>4 DEF ValidInv
<1>5. CASE Cleared
  <2>1. \A n \in 1..Len(<<>>) : FALSE
    BY SMT
  <2>2. \A n \in 1..Len(past') : Valid(past'[n])
    BY <1>5, <2>1 DEF Cleared
  <2>3. Valid(dictionaries')
    BY <1>5 DEF Cleared
  <2>4. QED
    BY <1>3, <2>2, <2>3 DEF ValidInv
<1>6. CASE /\ Len(past) \in 1..Len(past)
           /\ dictionaries' = past[Len(past)]
           /\ past' = RemoveLast(past)
  <2>1. \A n \in 1..Len(RemoveLast(past)) :
           n \in 1..Len(past) /\ RemoveLast(past)[n] = past[n]
    BY SMTT(30), <1>2, <1>6 DEF RemoveLast
  <2>2. \A n \in 1..Len(past') : Valid(past'[n])
    BY <1>1, <1>6, <2>1
  <2>3. Valid(dictionaries')
    BY <1>1, <1>6
  <2>4. QED
    BY <1>3, <2>2, <2>3 DEF ValidInv
<1>7. CASE Edited
  <2> DEFINE q == Append(past, dictionaries)
  <2>1. /\ q \in Seq(Storage) /\ Len(q) # 0
        /\ \A m \in 1..Len(q) : \/ q[m] = dictionaries
                                \/ m \in 1..Len(past) /\ q[m] = past[m]
    <3>1. q \in Seq(Storage) /\ Len(q) = Len(past) + 1 /\ Len(q) # 0
      BY SMT, <1>2
    <3>2. q[Len(past) + 1] = dictionaries /\ \A m \in 1..Len(past) : q[m] = past[m]
      BY SMT, <1>2
    <3>3. \A m \in 1..(Len(past) + 1) : m = Len(past) + 1 \/ m \in 1..Len(past)
      BY SMT, <1>2
    <3> HIDE DEF q
    <3>4. \A m \in 1..(Len(past) + 1) : \/ q[m] = dictionaries
                                        \/ m \in 1..Len(past) /\ q[m] = past[m]
      BY <3>2, <3>3
    <3>5. QED
      BY <3>1, <3>4
  <2>2. past' = Bounded(q) /\ Valid(dictionaries')
    BY <1>1, <1>7 DEF Edited
  <2> HIDE DEF q
  <2>3. \A m \in 1..Len(q) : Valid(q[m])
    BY <1>1, <2>1
  <2>4. \A n \in 1..Len(Bounded(q)) : \E m \in 1..Len(q) : Bounded(q)[n] = q[m]
    BY <2>1, BoundedElements
  <2>5. \A n \in 1..Len(past') : Valid(past'[n])
    BY <2>2, <2>3, <2>4
  <2>6. QED
    BY <1>3, <2>2, <2>5 DEF ValidInv
<1>8. QED
  BY <1>1, <1>4, <1>5, <1>6, <1>7, StepKinds

\* If the files loaded keep the limits and their names and ids apart, every mix
\* of edits, imports and undos keeps the ids and the names of the dictionaries
\* distinct and all the limits, which only CreateDictionary, RenameDictionary,
\* AddEntry and Import check: Undo checks none of them.
THEOREM StorageStaysValid ==
    ASSUME ValidFiles
    PROVE  Spec => []StorageValid
<1>1. Init => ValidInv
  <2>1. \A n \in 1..Len(<<>>) : FALSE
    BY SMT
  <2>2. QED
    BY <2>1, InitInv DEF ValidInv
<1>2. ValidInv /\ [Next]_vars => ValidInv'
  <2>1. ValidInv /\ UNCHANGED vars => ValidInv'
    BY StutteringInv DEF ValidInv
  <2>2. QED
    BY <2>1, ValidStep
<1>3. ValidInv => StorageValid
  BY StorageValidIs DEF ValidInv, IInv, TypeInv
<1>4. QED
  BY <1>1, <1>2, <1>3, PTL DEF Spec
=============================================================================
