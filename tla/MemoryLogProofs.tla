--------------------------- MODULE MemoryLogProofs ---------------------------
(***************************************************************************)
(* Theorems about MemoryLog, for all entries, sizes and bounds.            *)
(***************************************************************************)
EXTENDS MemoryLog, SequenceTheorems, WellFoundedInduction, TLAPS

\* The entries by index, compacted or not: "all" of the contract.
All == gone \o log.entries

\* The log by itself: what is gone lies before start, and the last committed entry,
\* if there is one, is in the log.
InBounds ==
    /\ Len(gone) = log.start - 1
    /\ \/ log.commit = 0 /\ log.start = 1
       \/ log.start <= log.commit /\ log.commit < EndIndex(log)

LogOK == log \in Log /\ gone \in Seq(Entry) /\ InBounds

Piece == [from : Nat, entries : Seq(Entry), next : Nat]

-----------------------------------------------------------------------------
(* Operators of LogStore. *)

LEMMA MinOfTwo ==
    ASSUME NEW a \in Int, NEW b \in Int
    PROVE  Min({a, b}) = IF a <= b THEN a ELSE b
<1> DEFINE m == IF a <= b THEN a ELSE b
<1>1. m \in {a, b} /\ \A y \in {a, b} : m <= y
  OBVIOUS
<1>2. \A x \in {a, b} : (\A y \in {a, b} : x <= y) => x = m
  OBVIOUS
<1> QED
  BY <1>1, <1>2 DEF Min

LEMMA MaxOfTwo ==
    ASSUME NEW a \in Int, NEW b \in Int
    PROVE  Max({a, b}) = IF a >= b THEN a ELSE b
<1> DEFINE m == IF a >= b THEN a ELSE b
<1>1. m \in {a, b} /\ \A y \in {a, b} : m >= y
  OBVIOUS
<1>2. \A x \in {a, b} : (\A y \in {a, b} : x >= y) => x = m
  OBVIOUS
<1> QED
  BY <1>1, <1>2 DEF Max

\* The smaller of two ages or lengths is one.
LEMMA MinIsNat ==
    ASSUME NEW a \in Nat, NEW b \in Nat
    PROVE  Min({a, b}) \in Nat
<1>1. Min({a, b}) = IF a <= b THEN a ELSE b
  BY MinOfTwo
<1> QED
  BY <1>1

\* Where the index j is in a sequence of n entries that begins with index s.
LEMMA PlaceOfIndex ==
    ASSUME NEW s \in Int, NEW n \in Int, NEW j \in Int, s <= j, j < s + n
    PROVE  j - s + 1 \in 1 .. n
OBVIOUS

\* The index after the entries from index i to the last in a log that begins with s.
LEMMA IndexAfter ==
    ASSUME NEW s \in Int, NEW i \in Int, NEW last \in Int
    PROVE  s + last = i + (last - (i - s + 1) + 1)
OBVIOUS

LEMMA MaxIsReached ==
    ASSUME NEW a \in Int, NEW b \in Int, NEW S \in SUBSET (a .. b), S # {}
    PROVE  Max(S) \in S
<1> DEFINE T == {n \in Nat : b - n \in S}
<1>1. PICK s \in S : TRUE
  OBVIOUS
<1>2. b - s \in Nat /\ b - (b - s) = s /\ b - s \in T
  OBVIOUS
<1>3. PICK t \in T : \A u \in T : ~(<<u, t>> \in OpToRel(<, Nat))
  <2>1. T \subseteq Nat /\ T # {}
    BY <1>2
  <2> HIDE DEF T
  <2> QED
    BY <2>1, NatLessThanWellFounded, WFMin, Zenon
<1>4. \A u \in T : t <= u
  <2> TAKE u \in T
  <2>1. ~(u < t)
    <3>1. u < t => <<u, t>> \in {ss \in Nat \X Nat : ss[1] < ss[2]}
      BY DEF T
    <3>2. OpToRel(<, Nat) = {ss \in Nat \X Nat : ss[1] < ss[2]}
      BY Zenon DEF OpToRel
    <3> QED
      BY <1>3, <3>1, <3>2
  <2> QED
    BY <2>1
<1>5. \A y \in S : b - t >= y
  <2> TAKE y \in S
  <2>1. b - y \in T
    OBVIOUS
  <2>2. t <= b - y
    BY <1>4, <2>1
  <2> QED
    BY <2>2
<1> QED
  BY <1>3, <1>5 DEF Max

\* What Compact removes: n entries from the front, never a committed last one.
LEMMA CompactRemovesPrefix ==
    ASSUME NEW l \in Log, l.start <= l.commit, l.commit < EndIndex(l)
    PROVE  \E n \in 0 .. l.commit - l.start :
               /\ Compact(l) \in Log
               /\ Compact(l).start = l.start + n
               /\ Compact(l).entries = SubSeq(l.entries, n + 1, Len(l.entries))
               /\ Compact(l).commit = l.commit
               /\ Compact(l).locked = l.locked
               /\ l.locked => n = 0
<1>1. /\ l.start \in Nat /\ l.commit \in Nat /\ l.aged \in Nat /\ l.locked \in BOOLEAN
      /\ l.entries \in Seq(Entry) /\ Len(l.entries) \in Nat
  BY LenProperties DEF Log
<1>2. SubSeq(l.entries, 1, Len(l.entries)) = l.entries
  BY <1>1, SubSeqFull
<1>3. CASE l.locked \/ l.entries = <<>>
  <2>1. Compact(l) = l
    BY <1>3 DEF Compact
  <2>2. 0 \in 0 .. l.commit - l.start
    BY <1>1
  <2> QED
    BY <1>1, <1>2, <2>1, <2>2
<1>4. CASE ~(l.locked \/ l.entries = <<>>)
  <2> DEFINE n == Min({l.commit - l.start, Expired(l)})
             a == Max({l.aged - n, 0})
  <2>1. Expired(l) \in Nat
    BY <1>1 DEF Expired
  <2>2. n \in 0 .. l.commit - l.start
    BY <1>1, <2>1, MinOfTwo
  <2>3. a \in Nat
    <3> HIDE DEF n
    <3> QED
      BY <1>1, <2>2, MaxOfTwo
  <2>4. n + 1 \in 1 .. Len(l.entries)
    BY <1>1, <2>2 DEF EndIndex
  <2>5. SubSeq(l.entries, n + 1, Len(l.entries)) \in Seq(Entry)
    <3> HIDE DEF n
    <3>1. \A i \in n + 1 .. Len(l.entries) : l.entries[i] \in Entry
      BY <1>1, <2>4, ElementOfSeq
    <3> QED
      BY <1>1, <2>4, <3>1, SubSeqProperties
  <2>6. Compact(l) = [l EXCEPT !.start = l.start + n, !.aged = a,
                               !.entries = SubSeq(l.entries, n + 1, Len(l.entries))]
    BY <1>4 DEF Compact
  <2> HIDE DEF n, a
  <2> DEFINE s == l.start + n
             t == SubSeq(l.entries, n + 1, Len(l.entries))
  <2>7. s \in Nat /\ t \in Seq(Entry)
    BY <1>1, <2>2, <2>5
  <2>8. Compact(l) = [l EXCEPT !.start = s, !.aged = a, !.entries = t]
    BY <2>6
  <2> HIDE DEF s, t
  <2>9. Compact(l) \in Log
    BY <2>3, <2>7, <2>8 DEF Log
  <2>10. /\ Compact(l).start = s
         /\ Compact(l).entries = t
         /\ Compact(l).commit = l.commit
         /\ Compact(l).locked = l.locked
    BY <2>8 DEF Log
  <2>11. /\ Compact(l).start = l.start + n
        /\ Compact(l).entries = SubSeq(l.entries, n + 1, Len(l.entries))
        /\ Compact(l).commit = l.commit
        /\ Compact(l).locked = l.locked
    BY <2>10 DEF s, t
  <2> QED
    BY <1>4, <2>2, <2>9, <2>11
<1> QED
  BY <1>3, <1>4

LEMMA ConcatOfThree ==
    ASSUME NEW S, NEW a \in Seq(S), NEW b \in Seq(S), NEW c \in Seq(S)
    PROVE  (a \o b) \o c = a \o (b \o c)
BY ConcatAssociative

SameConcat(a, b, c, d) == a \o b = c \o d

LEMMA ConcatRegroups ==
    ASSUME NEW S, NEW a \in Seq(S), NEW b \in Seq(S), NEW c \in Seq(S),
           NEW ab, ab = a \o b, NEW bc, bc = b \o c
    PROVE  SameConcat(ab, c, a, bc)
BY ConcatOfThree DEF SameConcat

\* c is a with the first n entries of b; with the rest of b it is still a and b.
Takes(S, a, b, n, c) ==
    /\ c \in Seq(S)
    /\ Len(c) = Len(a) + n
    /\ c \o SubSeq(b, n + 1, Len(b)) = a \o b

\* Entries that go from the front of the log to what is gone keep their index.
LEMMA ShiftKeepsAll ==
    ASSUME NEW S, NEW a \in Seq(S), NEW b \in Seq(S), NEW n \in 0 .. Len(b),
           NEW c, c = a \o SubSeq(b, 1, n)
    PROVE  Takes(S, a, b, n, c)
<1>1. Len(b) \in Nat /\ \A i \in 1 .. Len(b) : b[i] \in S
  BY LenProperties
<1>2. \A i \in 1 .. n : b[i] \in S
  BY <1>1
<1>3. SubSeq(b, 1, n) \in Seq(S) /\ Len(SubSeq(b, 1, n)) = n
  BY <1>1, <1>2, SubSeqProperties
<1>4. \A i \in n + 1 .. Len(b) : b[i] \in S
  BY <1>1
<1>5. SubSeq(b, n + 1, Len(b)) \in Seq(S)
  BY <1>1, <1>4, SubSeqProperties
<1>6. SubSeq(b, 1, n) \o SubSeq(b, n + 1, Len(b)) = b
  <2>1. 1 \in 1 .. Len(b) + 1 /\ n \in 1 - 1 .. Len(b) /\ Len(b) \in n .. Len(b)
    BY <1>1
  <2>2. SubSeq(b, 1, n) \o SubSeq(b, n + 1, Len(b)) = SubSeq(b, 1, Len(b))
    BY <2>1, ConcatAdjacentSubSeq, Zenon
  <2> QED
    BY <2>2, SubSeqFull, Zenon
<1>7. a \o SubSeq(b, 1, n) \in Seq(S) /\ Len(a \o SubSeq(b, 1, n)) = Len(a) + n
  BY <1>3, ConcatProperties
<1> DEFINE front == SubSeq(b, 1, n)
           back  == SubSeq(b, n + 1, Len(b))
<1>8. front \in Seq(S) /\ back \in Seq(S) /\ front \o back = b /\ c = a \o front
  BY <1>3, <1>5, <1>6
<1> HIDE DEF front, back
<1>9. SameConcat(c, back, a, b)
  BY <1>8, ConcatRegroups, Zenon
<1>10. c \o SubSeq(b, n + 1, Len(b)) = a \o b
  BY <1>9, Zenon DEF back, SameConcat
<1>11. c \in Seq(S) /\ Len(c) = Len(a) + n
  BY <1>7, Zenon
<1> QED
  BY <1>10, <1>11, Zenon DEF Takes

-----------------------------------------------------------------------------
(* What each operation does to the log and to its contract. *)

\* The log by index, and what is known of it at all times.
LEMMA LogFacts ==
    ASSUME LogOK
    PROVE  /\ log.start \in Nat \ {0} /\ log.commit \in Nat /\ log.aged \in Nat
           /\ log.locked \in BOOLEAN /\ log.entries \in Seq(Entry)
           /\ Len(log.entries) \in Nat /\ Len(gone) = log.start - 1
           /\ EndIndex(log) \in Nat /\ log.commit < EndIndex(log)
           /\ All \in Seq(Entry) /\ Len(All) = EndIndex(log) - 1
<1>1. /\ log.start \in Nat /\ log.commit \in Nat /\ log.aged \in Nat
      /\ log.locked \in BOOLEAN /\ log.entries \in Seq(Entry)
  BY DEF LogOK, Log
<1>2. Len(log.entries) \in Nat /\ Len(gone) \in Nat /\ Len(gone) = log.start - 1
  BY <1>1, LenProperties DEF LogOK, InBounds
<1>3. All \in Seq(Entry) /\ Len(All) = Len(gone) + Len(log.entries)
  BY <1>1, ConcatProperties DEF LogOK, All
<1>4. EndIndex(log) \in Nat /\ EndIndex(log) = log.start + Len(log.entries)
  BY <1>1, <1>2 DEF EndIndex
<1>5. log.start # 0 /\ Len(All) = EndIndex(log) - 1
  BY <1>1, <1>2, <1>3, <1>4
<1>6. log.commit < EndIndex(log)
  BY <1>1, <1>2, <1>4, <1>5 DEF LogOK, InBounds
<1> QED
  BY <1>1, <1>2, <1>3, <1>4, <1>5, <1>6

LEMMA AppendKeepsLog ==
    ASSUME LogOK, NEW e \in Entry, Becomes(AppendTo(log, e))
    PROVE  /\ LogOK' /\ All' = Append(All, e)
           /\ EndIndex(log)' = EndIndex(log) + 1
           /\ log'.start = log.start /\ log'.commit = log.commit /\ log'.locked = log.locked
<1>1. log' = [log EXCEPT !.entries = Append(log.entries, e)]
  BY DEF Becomes, AppendTo
<1>2. /\ Append(log.entries, e) \in Seq(Entry)
      /\ Len(Append(log.entries, e)) = Len(log.entries) + 1
  BY LogFacts, AppendProperties
<1>3. /\ log' \in Log /\ log'.entries = Append(log.entries, e)
      /\ log'.start = log.start /\ log'.commit = log.commit /\ log'.locked = log.locked
  BY <1>1, <1>2 DEF LogOK, Log
<1>4. gone' = gone
  <2>1. gone' = gone \o SubSeq(log.entries, 1, 0)
    BY <1>3, LogFacts DEF Becomes, AppendTo
  <2>2. SubSeq(log.entries, 1, 0) = <<>>
    BY SubSeqEmpty
  <2> QED
    BY <2>1, <2>2, ConcatEmptySeq DEF LogOK
<1>5. All' = Append(All, e)
  <2>1. Append(log.entries, e) = log.entries \o <<e>> /\ Append(All, e) = All \o <<e>>
    BY LogFacts, AppendIsConcat
  <2>2. <<e>> \in Seq(Entry) /\ gone \in Seq(Entry) /\ log.entries \in Seq(Entry)
    BY LogFacts DEF LogOK
  <2> DEFINE rest == log.entries
             last == <<e>>
  <2>3. rest \in Seq(Entry) /\ last \in Seq(Entry)
    BY <2>2
  <2> HIDE DEF rest, last
  <2>4. (gone \o rest) \o last = gone \o (rest \o last)
    BY <2>2, <2>3, ConcatAssociative
  <2> QED
    BY <1>3, <1>4, <2>1, <2>4, Zenon DEF All, rest, last
<1>6. EndIndex(log)' = EndIndex(log) + 1
  BY <1>2, <1>3, LogFacts DEF EndIndex
<1>7. InBounds'
  BY <1>3, <1>4, <1>6, LogFacts DEF InBounds, LogOK
<1> QED
  BY <1>3, <1>4, <1>5, <1>6, <1>7 DEF LogOK

LEMMA ReplaceKeepsLog ==
    ASSUME LogOK, NEW i \in log.commit + 1 .. EndIndex(log) - 1, NEW e \in Entry,
           Becomes(SetAt(log, i, e))
    PROVE  /\ LogOK' /\ All' = Append(SubSeq(All, 1, i - 1), e)
           /\ EndIndex(log)' = i + 1
           /\ log'.start = log.start /\ log'.commit = log.commit /\ log'.locked = log.locked
<1> DEFINE n == i - log.start
           kept == SubSeq(log.entries, 1, n)
           a == Min({log.aged, n})
<1>1. n \in 0 .. Len(log.entries) /\ i \in Nat /\ log.start + n = i
  <2>1. log.start <= i
    BY LogFacts DEF LogOK, InBounds
  <2>2. i < log.start + Len(log.entries)
    BY LogFacts DEF EndIndex
  <2> QED
    BY <2>1, <2>2, LogFacts
<1>2. a \in Nat
  <2>1. n \in Nat /\ log.aged \in Nat
    BY <1>1, LogFacts
  <2> HIDE DEF n
  <2> QED
    BY <2>1, MinIsNat
<1>3. kept \in Seq(Entry) /\ Len(kept) = n
  <2>1. \A k \in 1 .. n : log.entries[k] \in Entry
    BY <1>1, LogFacts, ElementOfSeq
  <2> QED
    BY <1>1, <2>1, SubSeqProperties
<1>4. SetAt(log, i, e) = [log EXCEPT !.aged = a, !.entries = Append(kept, e)]
  BY LogFacts DEF SetAt, Trim, AppendTo, LogOK, Log
<1> HIDE DEF a, kept
<1>5. Append(kept, e) \in Seq(Entry) /\ Len(Append(kept, e)) = n + 1
  BY <1>3, AppendProperties
<1>6. /\ log' \in Log /\ log'.entries = Append(kept, e)
      /\ log'.start = log.start /\ log'.commit = log.commit /\ log'.locked = log.locked
  <2>1. log' = [log EXCEPT !.aged = a, !.entries = Append(kept, e)]
    BY <1>4 DEF Becomes
  <2> QED
    BY <1>2, <1>5, <2>1 DEF LogOK, Log
<1>7. gone' = gone
  <2>1. gone' = gone \o SubSeq(log.entries, 1, 0)
    BY <1>6, LogFacts DEF Becomes
  <2>2. SubSeq(log.entries, 1, 0) = <<>>
    BY SubSeqEmpty
  <2> QED
    BY <2>1, <2>2, ConcatEmptySeq DEF LogOK
<1>8. EndIndex(log)' = i + 1
  <2>1. EndIndex(log)' = log.start + (n + 1)
    BY <1>5, <1>6, Zenon DEF EndIndex
  <2>2. log.start \in Int /\ n \in Int
    BY <1>1, LogFacts
  <2>3. log.start + (n + 1) = (log.start + n) + 1
    BY <2>2
  <2> QED
    BY <1>1, <2>1, <2>3
<1>9. All' = Append(SubSeq(All, 1, i - 1), e)
  <2>1. gone \o kept = SubSeq(All, 1, i - 1)
    <3>1. \A k \in 1 .. i - 1 : All[k] \in Entry
      BY <1>1, LogFacts, ElementOfSeq
    <3>2. /\ SubSeq(All, 1, i - 1) \in Seq(Entry) /\ Len(SubSeq(All, 1, i - 1)) = i - 1
          /\ \A k \in 1 .. i - 1 : SubSeq(All, 1, i - 1)[k] = All[k]
      BY <1>1, <3>1, SubSeqProperties, LogFacts
    <3>0. Len(gone) + n = i - 1 /\ gone \in Seq(Entry)
      BY <1>1, LogFacts DEF LogOK
    <3>3. /\ gone \o kept \in Seq(Entry) /\ Len(gone \o kept) = i - 1
          /\ \A k \in 1 .. i - 1 :
                (gone \o kept)[k] = IF k <= Len(gone) THEN gone[k] ELSE kept[k - Len(gone)]
      <4>1. /\ gone \o kept \in Seq(Entry) /\ Len(gone \o kept) = Len(gone) + Len(kept)
            /\ \A k \in 1 .. Len(gone) + Len(kept) :
                  (gone \o kept)[k] = IF k <= Len(gone) THEN gone[k] ELSE kept[k - Len(gone)]
        BY <1>3, <3>0, ConcatProperties, Zenon
      <4> QED
        BY <1>3, <3>0, <4>1
    <3>4. \A k \in 1 .. n : kept[k] = log.entries[k]
      <4>1. \A k \in 1 .. n : log.entries[k] \in Entry
        BY <1>1, LogFacts, ElementOfSeq
      <4> QED
        BY <1>1, <4>1, SubSeqProperties DEF kept
    <3>5. \A k \in 1 .. i - 1 :
            All[k] = IF k <= Len(gone) THEN gone[k] ELSE log.entries[k - Len(gone)]
      BY <1>1, ConcatProperties, LogFacts DEF LogOK, All
    <3>6. \A k \in 1 .. i - 1 : (gone \o kept)[k] = SubSeq(All, 1, i - 1)[k]
      <4> TAKE k \in 1 .. i - 1
      <4>1. CASE k <= Len(gone)
        BY <4>1, <3>2, <3>3, <3>5
      <4>2. CASE ~(k <= Len(gone))
        <5>1. k - Len(gone) \in 1 .. n
          <6>1. Len(gone) \in Nat /\ n \in Nat /\ k \in Nat /\ k <= i - 1
            BY <1>1, LogFacts
          <6> QED
            BY <1>1, <4>2, <3>0, <6>1
        <5> QED
          BY <4>2, <5>1, <3>2, <3>3, <3>4, <3>5
      <4> QED
        BY <4>1, <4>2
    <3> QED
      BY <3>2, <3>3, <3>6, SeqEqual
  <2>2. Append(kept, e) = kept \o <<e>> /\ <<e>> \in Seq(Entry)
    BY <1>3, AppendIsConcat
  <2>3. gone \o (kept \o <<e>>) = (gone \o kept) \o <<e>>
    BY <1>3, <2>2, ConcatAssociative DEF LogOK
  <2>4. gone \o kept \in Seq(Entry)
    BY <1>3, ConcatProperties DEF LogOK
  <2>5. Append(gone \o kept, e) = (gone \o kept) \o <<e>>
    BY <2>4, AppendIsConcat
  <2> QED
    BY <1>6, <1>7, <2>1, <2>2, <2>3, <2>5 DEF All
<1>10. InBounds'
  BY <1>1, <1>6, <1>7, <1>8, LogFacts DEF InBounds, LogOK
<1> QED
  BY <1>6, <1>7, <1>8, <1>9, <1>10 DEF LogOK

\* Committing and unlocking: the log l differs from log in its commit index and lock,
\* and is compacted.  The entries keep their indexes.
LEMMA CompactKeepsLog ==
    ASSUME LogOK, NEW l \in Log, l.start = log.start, l.entries = log.entries,
           l.start <= l.commit, l.commit < EndIndex(l), Becomes(Compact(l))
    PROVE  /\ LogOK' /\ All' = All /\ EndIndex(log)' = EndIndex(log)
           /\ log'.commit = l.commit /\ log'.locked = l.locked
           /\ l.locked => log'.start = log.start
<1>1. PICK n \in 0 .. l.commit - l.start :
         /\ log' \in Log
         /\ log'.start = log.start + n
         /\ log'.entries = SubSeq(log.entries, n + 1, Len(log.entries))
         /\ log'.commit = l.commit
         /\ log'.locked = l.locked
         /\ l.locked => n = 0
  BY CompactRemovesPrefix DEF Becomes
<1>2. n \in 0 .. Len(log.entries) /\ n < Len(log.entries) /\ l.commit \in Nat
  BY LogFacts DEF EndIndex, Log
<1>3. gone' = gone \o SubSeq(log.entries, 1, n)
  <2>1. log'.start - log.start = n
    BY <1>1, <1>2, LogFacts
  <2> QED
    BY <1>1, <2>1 DEF Becomes
<1>4. gone' \in Seq(Entry) /\ Len(gone') = Len(gone) + n /\ All' = All
  <2>1. gone \in Seq(Entry) /\ log.entries \in Seq(Entry)
    BY LogFacts DEF LogOK
  <2> QED
    <3>1. /\ gone' \in Seq(Entry) /\ Len(gone') = Len(gone) + n
          /\ gone' \o SubSeq(log.entries, n + 1, Len(log.entries)) = gone \o log.entries
      <4> DEFINE b == log.entries
      <4>1. b \in Seq(Entry) /\ n \in 0 .. Len(b) /\ gone' = gone \o SubSeq(b, 1, n)
        BY <1>2, <1>3, <2>1
      <4> HIDE DEF b
      <4>2. Takes(Entry, gone, b, n, gone')
        BY <2>1, <4>1, ShiftKeepsAll
      <4> QED
        BY <4>2, Zenon DEF b, Takes
    <3>2. All' = gone' \o log'.entries /\ All = gone \o log.entries
      BY DEF All
    <3> QED
      BY <1>1, <3>1, <3>2, Zenon
<1>5. Len(log'.entries) = Len(log.entries) - n
  <2>1. \A i \in n + 1 .. Len(log.entries) : log.entries[i] \in Entry
    BY <1>2, LogFacts, ElementOfSeq
  <2>2. Len(SubSeq(log.entries, n + 1, Len(log.entries)))
            = IF n + 1 <= Len(log.entries) THEN Len(log.entries) - (n + 1) + 1 ELSE 0
    BY <1>2, <2>1, LogFacts, SubSeqProperties
  <2> QED
    BY <1>1, <1>2, <2>2, LogFacts
<1>6. EndIndex(log)' = EndIndex(log)
  <2>1. /\ EndIndex(log) = log.start + Len(log.entries)
        /\ log.start \in Nat /\ Len(log.entries) \in Nat /\ n \in Nat
    BY <1>2, LogFacts DEF EndIndex
  <2>2. EndIndex(log)' = log'.start + Len(log'.entries)
    BY DEF EndIndex
  <2>3. log'.start = log.start + n
    BY <1>1
  <2> QED
    BY <1>5, <2>1, <2>2, <2>3
<1>7. InBounds'
  <2>1. l.commit < EndIndex(log) /\ log.start + n <= l.commit
    BY <1>2, LogFacts DEF EndIndex
  <2>2. Len(gone)' = log'.start - 1
    <3>1. Len(gone) = log.start - 1 /\ log.start \in Nat /\ n \in Nat
      BY <1>2, LogFacts
    <3> QED
      BY <1>1, <1>4, <3>1
  <2> QED
    BY <1>1, <1>6, <2>1, <2>2 DEF InBounds
<1>8. l.locked => log'.start = log.start
  BY <1>1, LogFacts
<1> QED
  BY <1>1, <1>4, <1>6, <1>7, <1>8 DEF LogOK

\* Locking and ageing leave everything where it is.
LEMMA SameKeepsLog ==
    ASSUME LogOK, log' \in Log, gone' = gone, log'.start = log.start,
           log'.entries = log.entries, log'.commit = log.commit
    PROVE  LogOK' /\ All' = All /\ EndIndex(log)' = EndIndex(log)
<1>1. All' = All /\ EndIndex(log)' = EndIndex(log)
  BY DEF All, EndIndex
<1>2. InBounds'
  BY <1>1 DEF InBounds, LogOK
<1> QED
  BY <1>1, <1>2 DEF LogOK

\* A log that becomes one with the same start takes nothing away.
LEMMA NothingGone ==
    ASSUME LogOK, NEW l, l.start = log.start, Becomes(l)
    PROVE  log' = l /\ gone' = gone
<1>1. l.start - log.start = 0
  BY LogFacts
<1>2. gone' = gone \o SubSeq(log.entries, 1, 0)
  BY <1>1 DEF Becomes
<1>3. SubSeq(log.entries, 1, 0) = <<>>
  BY SubSeqEmpty
<1> QED
  BY <1>2, <1>3, ConcatEmptySeq DEF LogOK, Becomes

\* What a read returns.
LEMMA ReadTakesPrefix ==
    ASSUME NEW l \in Log, NEW i \in l.start .. EndIndex(l)
    PROVE  LET p == Read(l, i) IN
           /\ p \in Piece
           /\ p.from = i
           /\ p.next \in i .. EndIndex(l)
           /\ p.next = i + Len(p.entries)
           /\ \A j \in i .. p.next - 1 : p.entries[j - i + 1] = GetAt(l, j)
<1> DEFINE k    == i - l.start + 1
           fit  == {n \in k .. Len(l.entries) : SizeOf(l, k, n) <= MaxSize}
           last == Max(fit \cup {k - 1})
           part == SubSeq(l.entries, k, last)
<1>1. /\ l.start \in Nat /\ l.entries \in Seq(Entry) /\ Len(l.entries) \in Nat
      /\ i \in Nat /\ EndIndex(l) = l.start + Len(l.entries)
  BY LenProperties DEF Log, EndIndex
<1>2. k \in 1 .. Len(l.entries) + 1
  BY <1>1
<1>3. last \in k - 1 .. Len(l.entries)
  <2> DEFINE S == fit \cup {k - 1}
  <2>1. S \in SUBSET (k - 1 .. Len(l.entries)) /\ S # {}
    BY <1>1, <1>2
  <2>2. k - 1 \in Int /\ Len(l.entries) \in Int
    BY <1>1, <1>2
  <2> HIDE DEF S
  <2>3. Max(S) \in S
    BY <2>1, <2>2, MaxIsReached
  <2> QED
    BY <2>1, <2>3 DEF S
<1>4. Read(l, i) = [from |-> i, entries |-> part, next |-> l.start + last]
  BY DEF Read
<1> HIDE DEF last, k
<1>5. /\ part \in Seq(Entry)
      /\ Len(part) = IF k <= last THEN last - k + 1 ELSE 0
      /\ \A j \in 1 .. last - k + 1 : part[j] = l.entries[k + j - 1]
  <2>1. \A j \in k .. last : l.entries[j] \in Entry
    BY <1>1, <1>2, <1>3, ElementOfSeq
  <2>2. k \in Int /\ last \in Int
    BY <1>2, <1>3
  <2> QED
    BY <2>1, <2>2, SubSeqProperties
<1> HIDE DEF part, fit
<1>6. k = i - l.start + 1
  BY DEF k
<1>7. l.start + last \in i .. EndIndex(l) /\ l.start + last = i + Len(part)
  <2> DEFINE size == Len(l.entries)
  <2>0. /\ l.start \in Nat /\ i \in Nat /\ size \in Nat /\ k \in Int /\ last \in Int
        /\ k - 1 <= last /\ last <= size
    BY <1>1, <1>2, <1>3
  <2> HIDE DEF size
  <2>1. l.start + last \in i .. l.start + size /\ last - k + 1 >= 0
    BY <1>6, <2>0
  <2>2. Len(part) = IF k <= last THEN last - k + 1 ELSE 0
    BY <1>5
  <2>3. Len(part) = last - k + 1 /\ Len(part) \in Int
    BY <2>0, <2>2
  <2>4. l.start + last = i + Len(part)
    <3>1. l.start \in Int /\ i \in Int /\ k \in Int /\ last \in Int
      BY <2>0
    <3>2. l.start + last = i + (last - (i - l.start + 1) + 1)
      BY <3>1, IndexAfter, Zenon
    <3> QED
      BY <1>6, <2>3, <3>2, Zenon
  <2>5. EndIndex(l) = l.start + size
    BY <1>1 DEF size
  <2> QED
    BY <2>1, <2>4, <2>5, Zenon
<1>8. \A j \in i .. l.start + last - 1 : part[j - i + 1] = GetAt(l, j)
  <2> TAKE j \in i .. l.start + last - 1
  <2>1. j - i + 1 \in 1 .. last - k + 1 /\ k + (j - i + 1) - 1 = j - l.start + 1
    <3>1. /\ j \in Int /\ i <= j /\ j <= l.start + last - 1
          /\ l.start \in Int /\ last \in Int /\ i \in Int /\ k \in Int
      BY <1>1, <1>2, <1>3
    <3> QED
      BY <1>6, <3>1
  <2> QED
    BY <1>5, <2>1 DEF GetAt
<1>9. l.start + last \in Nat
  BY <1>1, <1>2, <1>3
<1>10. /\ Read(l, i).from = i /\ Read(l, i).entries = part
       /\ Read(l, i).next = l.start + last
       /\ Read(l, i) \in Piece
  BY <1>1, <1>4, <1>5, <1>9 DEF Piece
<1>11. \A j \in i .. Read(l, i).next - 1 : Read(l, i).entries[j - i + 1] = GetAt(l, j)
  <2> DEFINE p == Read(l, i)
             m == l.start + last
  <2>1. p.next = m /\ p.entries = part
    BY <1>10
  <2> HIDE DEF m
  <2>2. \A j \in i .. m - 1 : part[j - i + 1] = GetAt(l, j)
    <3>0. l.start \in Int /\ last \in Int
      BY <1>1, <1>2, <1>3
    <3>1. m - 1 = l.start + last - 1
      BY <3>0 DEF m
    <3> QED
      BY <1>8, <3>1, Zenon
  <2> HIDE DEF p
  <2>3. \A j \in i .. p.next - 1 : p.entries[j - i + 1] = GetAt(l, j)
    BY <2>1, <2>2
  <2> QED
    BY <2>3 DEF p
<1>12. Read(l, i).next \in i .. EndIndex(l) /\ Read(l, i).next = i + Len(Read(l, i).entries)
  BY <1>7, <1>10, Zenon
<1> QED
  BY <1>10, <1>11, <1>12, Zenon

\* What a write does to the log it writes to.
LEMMA WriteReplacesRest ==
    ASSUME NEW c \in Log, NEW p \in Piece, p.from \in c.start .. EndIndex(c),
           p.next = p.from + Len(p.entries)
    PROVE  /\ Write(c, p) \in Log
           /\ Write(c, p).start = c.start
           /\ EndIndex(Write(c, p)) = p.next
           /\ \A j \in c.start .. p.next - 1 :
                 GetAt(Write(c, p), j) = IF j < p.from THEN GetAt(c, j)
                                         ELSE p.entries[j - p.from + 1]
<1> DEFINE n    == p.from - c.start
           kept == SubSeq(c.entries, 1, n)
           aged == Min({c.aged, n})
           w    == kept \o p.entries
<1>1. /\ c.start \in Nat /\ c.entries \in Seq(Entry) /\ Len(c.entries) \in Nat
      /\ c.aged \in Nat /\ EndIndex(c) = c.start + Len(c.entries)
  BY LenProperties DEF Log, EndIndex
<1>2. p.from \in Nat /\ p.next \in Nat /\ p.entries \in Seq(Entry) /\ Len(p.entries) \in Nat
  BY LenProperties DEF Piece
<1>3. n \in 0 .. Len(c.entries) /\ p.from = c.start + n
  BY <1>1, <1>2
<1> HIDE DEF n
<1>4. /\ kept \in Seq(Entry) /\ Len(kept) = n
      /\ \A k \in 1 .. n : kept[k] = c.entries[k]
  <2>1. \A k \in 1 .. n : c.entries[k] \in Entry
    BY <1>1, <1>3, ElementOfSeq
  <2>2. /\ kept \in Seq(Entry)
        /\ Len(kept) = IF 1 <= n THEN n - 1 + 1 ELSE 0
        /\ \A k \in 1 .. n - 1 + 1 : kept[k] = c.entries[1 + k - 1]
    BY <1>1, <1>3, <2>1, SubSeqProperties
  <2> HIDE DEF kept
  <2> QED
    BY <1>3, <2>2
<1>5. aged \in Nat
  <2>1. n \in Nat
    BY <1>3
  <2> QED
    BY <1>1, <2>1, MinIsNat
<1> HIDE DEF kept, aged
<1>6. /\ w \in Seq(Entry) /\ Len(w) = n + Len(p.entries)
      /\ \A k \in 1 .. n + Len(p.entries) :
            w[k] = IF k <= n THEN kept[k] ELSE p.entries[k - n]
  BY <1>2, <1>4, ConcatProperties
<1> HIDE DEF w
<1>7. Write(c, p) = [c EXCEPT !.entries = w, !.aged = aged]
  <2>1. Trim(c, p.from) = [c EXCEPT !.entries = kept, !.aged = aged]
    BY DEF Trim, kept, aged, n
  <2>2. Trim(c, p.from).entries = kept
    BY <2>1 DEF Log
  <2>3. Write(c, p) = [Trim(c, p.from) EXCEPT !.entries = w]
    BY <2>2, Zenon DEF Write, w
  <2> QED
    BY <2>1, <2>3 DEF Log
<1> DEFINE d == Write(c, p)
<1>8. d \in Log /\ d.start = c.start /\ d.entries = w
  BY <1>5, <1>6, <1>7 DEF Log
<1> HIDE DEF d
<1>9. EndIndex(d) = p.next
  BY <1>1, <1>2, <1>3, <1>6, <1>8 DEF EndIndex
<1>10. ASSUME NEW j \in c.start .. p.next - 1
       PROVE  GetAt(d, j) = IF j < p.from THEN GetAt(c, j) ELSE p.entries[j - p.from + 1]
  <2> DEFINE k == j - c.start + 1
  <2>0. /\ c.start \in Int /\ n \in Int /\ Len(p.entries) \in Int /\ j \in Int
        /\ c.start <= j /\ j < p.next /\ p.from = c.start + n /\ p.next \in Int
    <3>1. /\ c.start \in Int /\ n \in Int /\ Len(p.entries) \in Int /\ p.next \in Int
          /\ p.from = c.start + n
      BY <1>1, <1>2, <1>3
    <3> QED
      BY <3>1
  <2>1. k \in 1 .. n + Len(p.entries)
    <3> DEFINE m == n + Len(p.entries)
    <3>1. p.next = c.start + m /\ m \in Int
      BY <1>2, <2>0
    <3> HIDE DEF m
    <3>2. j < c.start + m
      BY <2>0, <3>1
    <3>3. k \in 1 .. m
      BY <2>0, <3>1, <3>2, PlaceOfIndex
    <3> QED
      BY <3>3, Zenon DEF m
  <2>2. GetAt(d, j) = w[k] /\ GetAt(c, j) = c.entries[k]
    BY <1>8 DEF GetAt
  <2>3. CASE j < p.from
    <3>1. k \in 1 .. n
      BY <2>0, <2>3, PlaceOfIndex
    <3> HIDE DEF k
    <3> QED
      BY <1>4, <1>6, <2>1, <2>2, <2>3, <3>1
  <2>4. CASE ~(j < p.from)
    <3>1. ~(k <= n) /\ k - n = j - p.from + 1
      BY <2>0, <2>4
    <3> HIDE DEF k
    <3> QED
      BY <1>6, <2>1, <2>2, <2>4, <3>1
  <2> QED
    BY <2>3, <2>4
<1> QED
  BY <1>8, <1>9, <1>10 DEF d

-----------------------------------------------------------------------------
(* The inductive invariant. *)

\* The index that the next write goes on with, or the next read if nothing is to write.
Reached == IF files = <<>> THEN reader.next ELSE files[1].from

\* Each piece has the entries of its indexes and ends where the next one begins.
PiecesFit ==
    \A k \in 1 .. Len(files) :
        /\ files[k].from # 0
        /\ files[k].next = files[k].from + Len(files[k].entries)
        /\ files[k].next = IF k = Len(files) THEN reader.next ELSE files[k + 1].from
        /\ files[k].next <= reader.next

TransferOK ==
    /\ copy \in Log /\ reader \in Reader /\ files \in Seq(Piece)
    /\ reader.phase = "idle" => files = <<>>
    /\ reader.phase = "reading" =>
          log.locked /\ log.commit # 0 /\ reader.next \in log.start .. EndIndex(log)
    /\ reader.phase # "idle" => copy.start # 0 /\ Reached \in copy.start .. EndIndex(copy)
    /\ reader.phase = "sending" /\ files = <<>> => EndIndex(copy) = reader.next
    /\ PiecesFit

\* What is read stays in the log while the reading lasts, and if it was committed then,
\* afterwards too.
Lasts(j) == reader.phase = "reading" \/ j <= reader.sure

\* The copy and the pieces have the entries of the log.
CopyOK ==
    /\ reader.phase = "sending" => reader.sure <= log.commit /\ reader.sure < reader.next
    /\ reader.phase # "idle" =>
          \A j \in copy.start .. Reached - 1 : Lasts(j) => GetAt(copy, j) = All[j]
    /\ \A k \in 1 .. Len(files) : \A j \in files[k].from .. files[k].next - 1 :
          Lasts(j) => files[k].entries[j - files[k].from + 1] = All[j]

IInv == LogOK /\ TransferOK /\ CopyOK

ContractStep == [Contract!Next]_(Contract!allVars)

-----------------------------------------------------------------------------
(* Steps of replication and of time. *)

\* A step that only puts the entry e at index i of the log is one of the contract.
LEMMA PutInContract ==
    ASSUME LogOK, NEW i \in log.commit + 1 .. Len(All) + 1, NEW e \in Entry,
           All' = Append(SubSeq(All, 1, i - 1), e), log'.commit = log.commit
    PROVE  ContractStep
<1>1. i \in 1 .. Len(All) + 1 /\ log.commit < i /\ i <= Len(All) + 1
  BY LogFacts, LenProperties
<1>2. Contract!Put(i, e)
  BY <1>1 DEF Contract!Put, All
<1>3. Contract!Next
  BY <1>1, <1>2 DEF Contract!Next, All
<1> QED
  BY <1>3 DEF ContractStep

LEMMA CommitInContract ==
    ASSUME LogOK, NEW i \in log.commit + 1 .. Len(All), All' = All, log'.commit = i
    PROVE  ContractStep
<1>1. i \in 1 .. Len(All) + 1 /\ log.commit < i /\ i <= Len(All)
  BY LogFacts, LenProperties
<1>2. Contract!CommitTo(i)
  BY <1>1 DEF Contract!CommitTo, All
<1>3. Contract!Next
  BY <1>1, <1>2 DEF Contract!Next, All
<1> QED
  BY <1>3 DEF ContractStep

LEMMA StutterInContract ==
    ASSUME All' = All, log'.commit = log.commit
    PROVE  ContractStep
BY DEF ContractStep, Contract!allVars, All

LEMMA TransferFacts ==
    ASSUME IInv
    PROVE  /\ reader.next \in Nat /\ reader.sure \in Nat
           /\ reader.phase \in {"idle", "reading", "sending"}
           /\ copy.start \in Nat /\ Len(files) \in Nat
           /\ files # <<>> => reader.phase # "idle" /\ Len(files) >= 1
           /\ \A k \in 1 .. Len(files) :
                 /\ files[k] \in Piece
                 /\ files[k].from \in Nat \ {0} /\ files[k].next \in Nat
                 /\ files[k].from <= files[k].next /\ files[k].next <= reader.next
           /\ Reached \in Nat /\ Reached <= reader.next
<1>1. /\ reader.next \in Nat /\ reader.sure \in Nat
      /\ reader.phase \in {"idle", "reading", "sending"}
  BY DEF IInv, TransferOK, Reader
<1>2. copy.start \in Nat /\ files \in Seq(Piece)
  BY DEF IInv, TransferOK, Log
<1>3. Len(files) \in Nat /\ \A k \in 1 .. Len(files) : files[k] \in Piece
  BY <1>2, LenProperties
<1>4. files # <<>> => reader.phase # "idle" /\ Len(files) >= 1
  BY <1>2, <1>3, EmptySeq DEF IInv, TransferOK
<1>5. ASSUME NEW k \in 1 .. Len(files)
      PROVE  /\ files[k].from \in Nat \ {0} /\ files[k].next \in Nat
             /\ files[k].from <= files[k].next /\ files[k].next <= reader.next
  <2>1. /\ files[k].from \in Nat /\ files[k].next \in Nat /\ Len(files[k].entries) \in Nat
    BY <1>3, LenProperties DEF Piece
  <2>2. /\ files[k].from # 0 /\ files[k].next = files[k].from + Len(files[k].entries)
        /\ files[k].next <= reader.next
    BY DEF IInv, TransferOK, PiecesFit
  <2> QED
    BY <2>1, <2>2
<1>6. Reached \in Nat /\ Reached <= reader.next
  <2>1. CASE files = <<>>
    BY <1>1, <2>1 DEF Reached
  <2>2. CASE files # <<>>
    <3>1. 1 \in 1 .. Len(files)
      BY <1>3, <1>4, <2>2
    <3>2. /\ files[1].from \in Nat /\ files[1].next \in Nat
          /\ files[1].from <= files[1].next /\ files[1].next <= reader.next
      BY <1>5, <3>1
    <3> QED
      BY <1>1, <2>2, <3>2 DEF Reached
  <2> QED
    BY <2>1, <2>2
<1> QED
  BY <1>1, <1>2, <1>3, <1>4, <1>5, <1>6

\* What the transfer has read and may rely on is in the log.
LEMMA LastsInLog ==
    ASSUME IInv, reader.phase # "idle", NEW j \in Nat \ {0}, j < reader.next, Lasts(j)
    PROVE  j \in 1 .. Len(All)
<1>1. /\ EndIndex(log) \in Nat /\ log.commit \in Nat /\ log.commit < EndIndex(log)
      /\ Len(All) = EndIndex(log) - 1
  BY LogFacts DEF IInv
<1>2. reader.next \in Nat /\ reader.sure \in Nat
  BY TransferFacts
<1>3. CASE reader.phase = "reading"
  <2>1. reader.next <= EndIndex(log)
    BY <1>1, <1>2, <1>3, LogFacts DEF IInv, TransferOK
  <2> QED
    BY <1>1, <1>2, <2>1
<1>4. CASE reader.phase = "sending"
  <2>1. j <= reader.sure /\ reader.sure <= log.commit
    BY <1>4 DEF Lasts, IInv, CopyOK
  <2> QED
    BY <1>1, <1>2, <2>1
<1> QED
  BY <1>3, <1>4, TransferFacts

\* A step that leaves the transfer alone and keeps what it relies on.
LEMMA LogMovesOn ==
    ASSUME IInv, LogOK', UNCHANGED <<reader, files, copy>>,
           log'.locked = log.locked, log.commit <= log'.commit,
           reader.phase = "reading" =>
               log'.start = log.start /\ EndIndex(log) <= EndIndex(log)',
           NEW m \in 0 .. Len(All), \A j \in 1 .. m : All'[j] = All[j],
           reader.phase = "reading" => m = Len(All), log.commit <= m
    PROVE  IInv'
<1>1. /\ Reached' = Reached /\ EndIndex(copy)' = EndIndex(copy)
      /\ PiecesFit' = PiecesFit /\ \A j : Lasts(j)' = Lasts(j) /\ GetAt(copy, j)' = GetAt(copy, j)
  BY DEF Reached, EndIndex, PiecesFit, Lasts, GetAt
<1>2. /\ log.commit \in Nat /\ log'.commit \in Nat /\ log.start \in Nat
      /\ EndIndex(log) \in Nat /\ EndIndex(log)' \in Nat /\ Len(All) = EndIndex(log) - 1
  <2>1. LogOK
    BY DEF IInv
  <2>2. log' \in Log
    BY DEF LogOK
  <2>3. log'.commit \in Nat /\ log'.start \in Nat /\ Len(log'.entries) \in Nat
    BY <2>2, LenProperties DEF Log
  <2>4. EndIndex(log)' \in Nat
    BY <2>3 DEF EndIndex
  <2> QED
    BY <2>1, <2>3, <2>4, LogFacts
<1>3. TransferOK'
  <2>1. copy' \in Log /\ reader' \in Reader /\ files' \in Seq(Piece) /\ PiecesFit'
    BY <1>1 DEF IInv, TransferOK
  <2>2. reader'.phase = "idle" => files' = <<>>
    BY DEF IInv, TransferOK
  <2>3. reader'.phase = "reading" =>
          log'.locked /\ log'.commit # 0 /\ reader'.next \in log'.start .. EndIndex(log)'
    BY <1>2 DEF IInv, TransferOK, Reader
  <2>4. /\ reader'.phase # "idle" => copy'.start # 0 /\ Reached' \in copy'.start .. EndIndex(copy)'
        /\ reader'.phase = "sending" /\ files' = <<>> => EndIndex(copy)' = reader'.next
    BY <1>1 DEF IInv, TransferOK
  <2> QED
    BY <2>1, <2>2, <2>3, <2>4 DEF TransferOK
<1>4. \A j \in 1 .. Len(All) : Lasts(j) /\ reader.phase # "idle" => All'[j] = All[j]
  <2> SUFFICES ASSUME NEW j \in 1 .. Len(All), Lasts(j), reader.phase # "idle"
               PROVE  All'[j] = All[j]
    OBVIOUS
  <2>1. CASE reader.phase = "reading"
    BY <2>1
  <2>2. CASE reader.phase = "sending"
    <3>1. j <= reader.sure /\ reader.sure <= log.commit
      BY <2>2 DEF Lasts, IInv, CopyOK
    <3>2. reader.sure \in Nat
      BY DEF IInv, TransferOK, Reader
    <3>3. j <= m
      BY <1>2, <3>1, <3>2
    <3> QED
      BY <3>3
  <2> QED
    BY <2>1, <2>2 DEF IInv, TransferOK, Reader
<1>5. CopyOK'
  <2>1. reader'.phase = "sending" => reader'.sure <= log'.commit /\ reader'.sure < reader'.next
    <3>1. reader.phase = "sending" => reader.sure <= log.commit /\ reader.sure < reader.next
      BY DEF IInv, CopyOK
    <3> QED
      BY <1>2, <3>1, TransferFacts
  <2>2. ASSUME reader.phase # "idle", NEW j \in copy.start .. Reached - 1, Lasts(j)
        PROVE  GetAt(copy, j) = All'[j]
    <3>1. j \in Nat \ {0} /\ j < reader.next
      <4>1. copy.start # 0
        BY <2>2 DEF IInv, TransferOK
      <4> QED
        BY <4>1, TransferFacts
    <3>2. j \in 1 .. Len(All)
      BY <2>2, <3>1, LastsInLog
    <3> QED
      BY <1>4, <2>2, <3>2 DEF IInv, CopyOK
  <2>3. ASSUME NEW k \in 1 .. Len(files), NEW j \in files[k].from .. files[k].next - 1, Lasts(j)
        PROVE  files[k].entries[j - files[k].from + 1] = All'[j]
    <3>1. reader.phase # "idle"
      BY TransferFacts, EmptySeq
    <3>2. j \in Nat \ {0} /\ j < reader.next
      <4>1. /\ files[k].from \in Nat \ {0} /\ files[k].next \in Nat /\ reader.next \in Nat
            /\ files[k].next <= reader.next
        BY TransferFacts
      <4> QED
        BY <4>1
    <3>3. j \in 1 .. Len(All)
      BY <2>3, <3>1, <3>2, LastsInLog
    <3>4. All'[j] = All[j]
      BY <1>4, <2>3, <3>1, <3>3
    <3>5. files[k].entries[j - files[k].from + 1] = All[j]
      BY <2>3 DEF IInv, CopyOK
    <3> QED
      BY <3>4, <3>5
  <2>4. reader'.phase # "idle" =>
          \A j \in copy'.start .. Reached' - 1 : Lasts(j)' => GetAt(copy, j)' = All'[j]
    BY <1>1, <2>2
  <2>5. \A k \in 1 .. Len(files') : \A j \in files'[k].from .. files'[k].next - 1 :
          Lasts(j)' => files'[k].entries[j - files'[k].from + 1] = All'[j]
    BY <1>1, <2>3
  <2> QED
    BY <2>1, <2>4, <2>5 DEF CopyOK
<1> QED
  BY <1>3, <1>5 DEF IInv

LEMMA AppendEntrySafe ==
    ASSUME IInv, NEW e \in Entry, AppendEntry(e)
    PROVE  IInv' /\ ContractStep
<1>1. LogOK /\ Becomes(AppendTo(log, e)) /\ UNCHANGED <<reader, files, copy>>
  BY DEF IInv, AppendEntry
<1>2. /\ LogOK' /\ All' = Append(All, e) /\ EndIndex(log)' = EndIndex(log) + 1
      /\ log'.start = log.start /\ log'.commit = log.commit /\ log'.locked = log.locked
  BY <1>1, AppendKeepsLog
<1>3. /\ EndIndex(log) \in Nat /\ log.commit \in Nat /\ log.commit < EndIndex(log)
      /\ All \in Seq(Entry) /\ Len(All) \in Nat /\ Len(All) = EndIndex(log) - 1
  BY <1>1, LogFacts, LenProperties
<1>4. /\ log.commit <= log'.commit /\ EndIndex(log) <= EndIndex(log)'
      /\ Len(All) \in 0 .. Len(All) /\ log.commit <= Len(All)
  BY <1>2, <1>3
<1>5. \A j \in 1 .. Len(All) : All'[j] = All[j]
  BY <1>2, <1>3, AppendProperties
<1>6. IInv'
  BY <1>1, <1>2, <1>4, <1>5, LogMovesOn
<1>7. Len(All) + 1 \in log.commit + 1 .. Len(All) + 1
  BY <1>3
<1>8. All' = Append(SubSeq(All, 1, Len(All) + 1 - 1), e)
  <2>1. Len(All) + 1 - 1 = Len(All) /\ SubSeq(All, 1, Len(All)) = All
    BY <1>3, SubSeqFull
  <2> QED
    BY <1>2, <2>1, Zenon
<1>9. ContractStep
  <2> DEFINE i == Len(All) + 1
  <2>1. i \in log.commit + 1 .. Len(All) + 1 /\ All' = Append(SubSeq(All, 1, i - 1), e)
    BY <1>7, <1>8
  <2> HIDE DEF i
  <2> QED
    BY <1>1, <1>2, <2>1, PutInContract
<1> QED
  BY <1>6, <1>9

LEMMA ReplaceEntrySafe ==
    ASSUME IInv, NEW i, NEW e \in Entry, ReplaceEntry(i, e)
    PROVE  IInv' /\ ContractStep
<1>1. /\ LogOK /\ Becomes(SetAt(log, i, e)) /\ UNCHANGED <<reader, files, copy>>
      /\ i \in log.commit + 1 .. EndIndex(log) - 1 /\ reader.phase # "reading"
  BY DEF IInv, ReplaceEntry
<1>2. LogOK' /\ All' = Append(SubSeq(All, 1, i - 1), e)
  BY <1>1, ReplaceKeepsLog
<1>3. log'.commit = log.commit /\ log'.locked = log.locked
  BY <1>1, ReplaceKeepsLog
<1>4. /\ EndIndex(log) \in Nat /\ log.commit \in Nat /\ log.commit < EndIndex(log)
      /\ All \in Seq(Entry) /\ Len(All) \in Nat /\ Len(All) = EndIndex(log) - 1
  BY <1>1, LogFacts, LenProperties
<1>5. /\ i \in Nat /\ i - 1 \in 0 .. Len(All) /\ log.commit <= i - 1
      /\ i \in log.commit + 1 .. Len(All) + 1 /\ log.commit <= log'.commit
  BY <1>1, <1>3, <1>4
<1>6. \A j \in 1 .. i - 1 : All'[j] = All[j]
  <2> DEFINE kept == SubSeq(All, 1, i - 1)
  <2>1. \A j \in 1 .. i - 1 : All[j] \in Entry
    BY <1>4, <1>5, ElementOfSeq
  <2>2. /\ kept \in Seq(Entry)
        /\ Len(kept) = IF 1 <= i - 1 THEN i - 1 - 1 + 1 ELSE 0
        /\ \A j \in 1 .. i - 1 - 1 + 1 : kept[j] = All[1 + j - 1]
    BY <1>5, <2>1, SubSeqProperties
  <2> HIDE DEF kept
  <2>3. Len(kept) = i - 1 /\ \A j \in 1 .. i - 1 : kept[j] = All[j]
    BY <1>5, <2>2
  <2>4. \A j \in 1 .. Len(kept) : Append(kept, e)[j] = kept[j]
    BY <2>2, AppendProperties
  <2>5. All' = Append(kept, e)
    BY <1>2 DEF kept
  <2> QED
    BY <2>3, <2>4, <2>5
<1>7. IInv'
  BY <1>1, <1>2, <1>3, <1>5, <1>6, LogMovesOn
<1>8. ContractStep
  BY <1>1, <1>2, <1>3, <1>5, PutInContract
<1> QED
  BY <1>7, <1>8

LEMMA CommitEntrySafe ==
    ASSUME IInv, NEW i, CommitEntry(i)
    PROVE  IInv' /\ ContractStep
<1> DEFINE l == [log EXCEPT !.commit = i]
<1>1. /\ LogOK /\ Becomes(Compact(l)) /\ UNCHANGED <<reader, files, copy>>
      /\ i \in log.commit + 1 .. EndIndex(log) - 1
  BY DEF IInv, CommitEntry, Commit
<1>2. /\ EndIndex(log) \in Nat /\ log.commit \in Nat /\ log.commit < EndIndex(log)
      /\ All \in Seq(Entry) /\ Len(All) \in Nat /\ Len(All) = EndIndex(log) - 1
      /\ log.start \in Nat
  BY <1>1, LogFacts, LenProperties
<1>3. i \in Nat /\ i # 0 /\ i < EndIndex(log) /\ log.commit <= i /\ log.start <= i
  <2>1. i \in Nat /\ log.commit < i /\ i < EndIndex(log)
    BY <1>1, <1>2
  <2> QED
    BY <1>1, <1>2, <2>1 DEF LogOK, InBounds
<1>4. /\ l \in Log /\ l.start = log.start /\ l.entries = log.entries /\ l.commit = i
      /\ l.locked = log.locked
  BY <1>1, <1>3 DEF Log, LogOK
<1> HIDE DEF l
<1>5. EndIndex(l) = EndIndex(log)
  BY <1>4 DEF EndIndex
<1>6. /\ LogOK' /\ All' = All /\ EndIndex(log)' = EndIndex(log)
      /\ log'.commit = i /\ log'.locked = log.locked
      /\ log.locked => log'.start = log.start
  <2>1. l.start <= l.commit /\ l.commit < EndIndex(l)
    BY <1>3, <1>4, <1>5
  <2> QED
    BY <1>1, <1>4, <2>1, CompactKeepsLog
<1>7. IInv'
  <2>1. reader.phase = "reading" => log.locked
    BY DEF IInv, TransferOK
  <2>2. EndIndex(log) <= EndIndex(log)' /\ log.commit <= log'.commit
    BY <1>2, <1>3, <1>6
  <2>3. Len(All) \in 0 .. Len(All) /\ log.commit <= Len(All)
    BY <1>2
  <2>4. \A j \in 1 .. Len(All) : All'[j] = All[j]
    BY <1>6
  <2> QED
    BY <1>1, <1>6, <2>1, <2>2, <2>3, <2>4, LogMovesOn
<1>8. ContractStep
  <2>1. i \in log.commit + 1 .. Len(All)
    BY <1>1, <1>2
  <2> QED
    BY <1>1, <1>6, <2>1, CommitInContract
<1> QED
  BY <1>7, <1>8

LEMMA TimePassesSafe ==
    ASSUME IInv, TimePasses
    PROVE  IInv' /\ ContractStep
<1>1. LogOK /\ gone' = gone /\ UNCHANGED <<reader, files, copy>>
  BY DEF IInv, TimePasses
<1>2. /\ log' \in Log /\ log'.start = log.start /\ log'.entries = log.entries
      /\ log'.commit = log.commit /\ log'.locked = log.locked
  <2>1. log \in Log /\ log.aged + 1 \in Nat
    BY <1>1, LogFacts DEF LogOK
  <2> QED
    BY <2>1 DEF TimePasses, Log
<1>3. LogOK' /\ All' = All /\ EndIndex(log)' = EndIndex(log)
  BY <1>1, <1>2, SameKeepsLog
<1>4. IInv'
  <2>1. /\ EndIndex(log) \in Nat /\ log.commit \in Nat /\ log.commit < EndIndex(log)
        /\ Len(All) \in Nat /\ Len(All) = EndIndex(log) - 1
    BY <1>1, LogFacts, LenProperties
  <2>2. EndIndex(log) <= EndIndex(log)' /\ log.commit <= log'.commit
    BY <1>2, <1>3, <2>1
  <2>3. Len(All) \in 0 .. Len(All) /\ log.commit <= Len(All)
    BY <2>1
  <2>4. \A j \in 1 .. Len(All) : All'[j] = All[j]
    BY <1>3
  <2> QED
    BY <1>1, <1>2, <1>3, <2>2, <2>3, <2>4, LogMovesOn
<1>5. ContractStep
  BY <1>2, <1>3, StutterInContract
<1> QED
  BY <1>4, <1>5

-----------------------------------------------------------------------------
(* Steps of a transfer. *)

LEMMA GetAtIsAll ==
    ASSUME LogOK, NEW j \in log.start .. EndIndex(log) - 1
    PROVE  GetAt(log, j) = All[j]
<1>1. /\ log.start \in Nat /\ Len(gone) = log.start - 1 /\ Len(log.entries) \in Nat
      /\ EndIndex(log) = log.start + Len(log.entries)
      /\ gone \in Seq(Entry) /\ log.entries \in Seq(Entry) /\ log.start # 0
  BY LogFacts DEF LogOK, EndIndex
<1>2. /\ j \in 1 .. Len(gone) + Len(log.entries) /\ ~(j <= Len(gone))
      /\ j - Len(gone) = j - log.start + 1
  BY <1>1
<1>3. All[j] = log.entries[j - Len(gone)]
  BY <1>1, <1>2, ConcatProperties DEF All
<1> QED
  BY <1>2, <1>3 DEF GetAt

\* A transfer that has ended, or was given up, leaves nothing behind.
LEMMA NoTransferSafe ==
    ASSUME IInv, UNCHANGED <<log, gone>>, reader' = NoTransfer, files' = <<>>, copy' = EmptyLog
    PROVE  IInv' /\ ContractStep
<1>1. LogOK' /\ All' = All /\ log'.commit = log.commit
  BY DEF IInv, LogOK, InBounds, EndIndex, All
<1>2. copy' \in Log /\ reader' \in Reader /\ files' \in Seq(Piece) /\ reader'.phase = "idle"
  BY EmptySeq DEF EmptyLog, Log, Reader, NoTransfer
<1>3. 1 .. Len(files') = {}
  BY EmptySeq
<1>4. TransferOK'
  BY <1>2, <1>3 DEF TransferOK, PiecesFit
<1>5. CopyOK'
  BY <1>2, <1>3 DEF CopyOK
<1>6. ContractStep
  BY <1>1, StutterInContract
<1> QED
  BY <1>1, <1>4, <1>5, <1>6 DEF IInv

LEMMA BeginTransferSafe ==
    ASSUME IInv, NEW i, NEW rest \in Rests, BeginTransfer(i, rest)
    PROVE  IInv' /\ ContractStep
<1> DEFINE l    == [log EXCEPT !.locked = TRUE]
           n    == i - log.start
           kept == SubSeq(log.entries, 1, n)
           all  == kept \o rest
<1>1. /\ LogOK /\ Becomes(l) /\ log.commit >= log.start /\ reader.phase = "idle"
      /\ i \in log.start .. EndIndex(log) - 1
      /\ reader' = [phase |-> "reading", from |-> i, next |-> i, sure |-> 0]
      /\ copy' = [EmptyLog EXCEPT !.start = log.start, !.entries = all]
      /\ files' = files
  BY DEF IInv, BeginTransfer, LockCompaction
<1>2. /\ log.start \in Nat /\ log.start # 0 /\ log.commit \in Nat
      /\ log.entries \in Seq(Entry) /\ Len(log.entries) \in Nat
      /\ EndIndex(log) = log.start + Len(log.entries)
  BY <1>1, LogFacts DEF EndIndex
<1>3. files = <<>>
  BY <1>1 DEF IInv, TransferOK
<1>4. n \in 0 .. Len(log.entries) /\ i \in Nat /\ i = log.start + n
  BY <1>1, <1>2
<1>5. /\ l \in Log /\ l.start = log.start /\ l.entries = log.entries /\ l.commit = log.commit
      /\ l.locked
  BY <1>1 DEF LogOK, Log
<1> HIDE DEF l, n
<1>6. log' = l /\ gone' = gone
  BY <1>1, <1>5, NothingGone
<1>7. /\ LogOK' /\ All' = All /\ EndIndex(log)' = EndIndex(log)
  <2>1. /\ log' \in Log /\ log'.start = log.start /\ log'.entries = log.entries
        /\ log'.commit = log.commit
    BY <1>5, <1>6
  <2> QED
    BY <1>1, <1>6, <2>1, SameKeepsLog
<1>8. /\ kept \in Seq(Entry) /\ Len(kept) = n
      /\ \A k \in 1 .. n : kept[k] = log.entries[k]
  <2>1. \A k \in 1 .. n : log.entries[k] \in Entry
    BY <1>2, <1>4, ElementOfSeq
  <2>2. /\ kept \in Seq(Entry)
        /\ Len(kept) = IF 1 <= n THEN n - 1 + 1 ELSE 0
        /\ \A k \in 1 .. n - 1 + 1 : kept[k] = log.entries[1 + k - 1]
    BY <1>2, <1>4, <2>1, SubSeqProperties
  <2> HIDE DEF kept
  <2> QED
    BY <1>4, <2>2
<1> HIDE DEF kept
<1>9. rest \in Seq(Entry)
  <2>1. <<>> \in Seq(Entry) /\ \A e \in Entry : <<e>> \in Seq(Entry)
    OBVIOUS
  <2>2. rest = <<>> \/ \E e \in Entry : rest = <<e>>
    BY Zenon DEF Rests
  <2> QED
    BY <2>1, <2>2, Zenon
<1>10. /\ all \in Seq(Entry) /\ Len(all) = n + Len(rest) /\ Len(rest) \in Nat
       /\ \A k \in 1 .. n : all[k] = log.entries[k]
  <2>1. /\ all \in Seq(Entry) /\ Len(all) = Len(kept) + Len(rest) /\ Len(rest) \in Nat
        /\ \A k \in 1 .. Len(kept) + Len(rest) :
              all[k] = IF k <= Len(kept) THEN kept[k] ELSE rest[k - Len(kept)]
    BY <1>8, <1>9, ConcatProperties, LenProperties
  <2> HIDE DEF all
  <2> QED
    BY <1>4, <1>8, <2>1
<1> HIDE DEF all
<1>11. copy' \in Log /\ copy'.start = log.start /\ copy'.entries = all
  BY <1>1, <1>2, <1>10 DEF EmptyLog, Log
<1>12. EndIndex(copy)' = i + Len(rest)
  <2>1. EndIndex(copy)' = log.start + Len(all)
    BY <1>11 DEF EndIndex
  <2> QED
    BY <1>2, <1>4, <1>10, <2>1
<1>13. reader' \in Reader /\ reader'.phase = "reading" /\ reader'.next = i
  BY <1>1, <1>4 DEF Reader
<1>14. Reached' = i /\ 1 .. Len(files') = {} /\ files' \in Seq(Piece)
  BY <1>1, <1>3, <1>13, EmptySeq DEF Reached
<1>15. TransferOK'
  <2>1. log'.locked /\ log'.commit # 0 /\ i \in log'.start .. EndIndex(log)'
    BY <1>1, <1>2, <1>4, <1>5, <1>6, <1>7
  <2>2. copy'.start # 0 /\ i \in copy'.start .. EndIndex(copy)'
    BY <1>2, <1>4, <1>10, <1>11, <1>12
  <2>3. PiecesFit'
    BY <1>14 DEF PiecesFit
  <2> QED
    BY <1>11, <1>13, <1>14, <2>1, <2>2, <2>3 DEF TransferOK
<1>16. CopyOK'
  <2>1. ASSUME NEW j \in log.start .. i - 1
        PROVE  GetAt(copy, j)' = All'[j]
    <3>0. /\ log.start \in Int /\ n \in Int /\ i \in Int /\ i = log.start + n
          /\ i <= EndIndex(log) /\ EndIndex(log) \in Int
      BY <1>2, <1>4
    <3>1. j - log.start + 1 \in 1 .. n /\ j \in log.start .. EndIndex(log) - 1
      <4>1. j \in Int /\ log.start <= j /\ j < log.start + n
        BY <3>0
      <4> QED
        BY <3>0, <4>1, PlaceOfIndex
    <3>2. GetAt(copy, j)' = log.entries[j - log.start + 1]
      BY <1>10, <1>11, <3>1 DEF GetAt
    <3>3. GetAt(log, j) = All[j]
      BY <1>1, <3>1, GetAtIsAll
    <3> QED
      BY <1>7, <3>2, <3>3 DEF GetAt
  <2> QED
    BY <1>11, <1>13, <1>14, <2>1 DEF CopyOK
<1>17. ContractStep
  BY <1>5, <1>6, <1>7, StutterInContract
<1> QED
  BY <1>7, <1>15, <1>16, <1>17 DEF IInv

LEMMA ReadPieceSafe ==
    ASSUME IInv, ReadPiece
    PROVE  IInv' /\ ContractStep
<1> DEFINE p    == Read(log, reader.next)
           done == p.next >= EndIndex(log)
<1>1. /\ LogOK /\ reader.phase = "reading" /\ files' = Append(files, p) /\ copy' = copy
      /\ reader' = [reader EXCEPT !.next  = p.next,
                                  !.phase = IF done THEN "sending" ELSE "reading",
                                  !.sure  = IF done THEN log.commit ELSE 0]
      /\ Becomes(IF done THEN UnlockCompaction(log) ELSE log)
  BY DEF IInv, ReadPiece
<1>2. /\ log.locked /\ log.commit # 0 /\ reader.next \in log.start .. EndIndex(log)
      /\ log \in Log /\ log.start \in Nat /\ log.start # 0 /\ log.commit \in Nat
      /\ EndIndex(log) \in Nat /\ log.commit < EndIndex(log) /\ log.start <= log.commit
  <2>1. log.locked /\ log.commit # 0 /\ reader.next \in log.start .. EndIndex(log)
    BY <1>1 DEF IInv, TransferOK
  <2>2. log \in Log /\ log.start <= log.commit
    BY <1>1, <2>1 DEF LogOK, InBounds
  <2> QED
    BY <1>1, <2>1, <2>2, LogFacts
<1>3. /\ p \in Piece /\ p.from = reader.next /\ p.next \in reader.next .. EndIndex(log)
      /\ p.next = reader.next + Len(p.entries)
      /\ \A j \in reader.next .. p.next - 1 : p.entries[j - reader.next + 1] = GetAt(log, j)
  BY <1>2, ReadTakesPrefix
<1> HIDE DEF p
<1>4. /\ LogOK' /\ All' = All /\ EndIndex(log)' = EndIndex(log) /\ log'.commit = log.commit
      /\ ~done => log'.locked /\ log'.start = log.start
  <2>1. CASE done
    <3> DEFINE l == [log EXCEPT !.locked = FALSE]
    <3>1. /\ l \in Log /\ l.start = log.start /\ l.entries = log.entries
          /\ l.commit = log.commit
      BY <1>2 DEF Log
    <3>2. Becomes(Compact(l))
      BY <1>1, <2>1 DEF UnlockCompaction
    <3> HIDE DEF l
    <3>3. l.start <= l.commit /\ l.commit < EndIndex(l)
      BY <1>2, <3>1 DEF EndIndex
    <3>4. LogOK' /\ All' = All /\ EndIndex(log)' = EndIndex(log) /\ log'.commit = l.commit
      BY <1>1, <3>1, <3>2, <3>3, CompactKeepsLog
    <3> QED
      BY <2>1, <3>1, <3>4
  <2>2. CASE ~done
    <3>1. Becomes(log)
      BY <1>1, <2>2
    <3>2. log' = log /\ gone' = gone
      BY <1>1, <3>1, NothingGone
    <3> QED
      BY <1>1, <1>2, <3>2, SameKeepsLog
  <2> QED
    BY <2>1, <2>2
<1>5. /\ reader' \in Reader /\ reader'.next = p.next
      /\ reader'.phase = IF done THEN "sending" ELSE "reading"
      /\ done => reader'.sure = log.commit
  <2>1. reader \in Reader /\ p.next \in Nat
    BY <1>3 DEF IInv, TransferOK, Piece
  <2> HIDE DEF done
  <2> QED
    BY <1>1, <1>2, <2>1 DEF Reader
<1>6. /\ files \in Seq(Piece) /\ Len(files) \in Nat
      /\ files' \in Seq(Piece) /\ Len(files') = Len(files) + 1
      /\ \A k \in 1 .. Len(files) : files'[k] = files[k]
      /\ files'[Len(files) + 1] = p
  BY <1>1, <1>3, AppendProperties, LenProperties DEF IInv, TransferOK
<1>7. /\ files' # <<>> /\ Reached' = Reached
  <2>1. files' # <<>>
    BY <1>6, EmptySeq
  <2>2. CASE files = <<>>
    <3>1. Len(files) = 0
      BY <2>2, EmptySeq
    <3>2. files'[1] = p
      BY <1>6, <3>1
    <3> QED
      BY <1>3, <2>1, <2>2, <3>2 DEF Reached
  <2>3. CASE files # <<>>
    <3>1. 1 \in 1 .. Len(files)
      BY <2>3, TransferFacts
    <3> QED
      BY <1>6, <2>1, <2>3, <3>1 DEF Reached
  <2> QED
    BY <2>1, <2>2, <2>3
<1>8. /\ p.from \in Nat /\ p.next \in Nat /\ reader.next \in Nat
      /\ reader.next <= p.next /\ p.from # 0 /\ p.next <= EndIndex(log)
  BY <1>2, <1>3 DEF Piece
<1>9. PiecesFit'
  <2> SUFFICES ASSUME NEW k \in 1 .. Len(files')
               PROVE  /\ files'[k].from # 0
                      /\ files'[k].next = files'[k].from + Len(files'[k].entries)
                      /\ files'[k].next = IF k = Len(files') THEN reader'.next
                                          ELSE files'[k + 1].from
                      /\ files'[k].next <= reader'.next
    BY DEF PiecesFit
  <2>1. CASE k = Len(files) + 1
    BY <1>3, <1>5, <1>6, <1>8, <2>1
  <2>2. CASE k # Len(files) + 1
    <3>1. k \in 1 .. Len(files) /\ k # Len(files')
      BY <1>6, <2>2
    <3>2. /\ files'[k] = files[k]
          /\ files[k].from # 0
          /\ files[k].next = files[k].from + Len(files[k].entries)
          /\ files[k].next = IF k = Len(files) THEN reader.next ELSE files[k + 1].from
          /\ files[k].next <= reader.next
      BY <1>6, <3>1 DEF IInv, TransferOK, PiecesFit
    <3>3. files[k].next \in Nat
      BY <3>1, TransferFacts
    <3>4. files'[k].next = files'[k + 1].from
      <4>1. CASE k = Len(files)
        BY <1>3, <1>6, <3>2, <4>1
      <4>2. CASE k # Len(files)
        <5>1. k + 1 \in 1 .. Len(files)
          BY <1>6, <3>1, <4>2
        <5> QED
          BY <1>6, <3>2, <4>2, <5>1
      <4> QED
        BY <4>1, <4>2
    <3>5. files'[k].next <= reader'.next
      BY <1>5, <1>8, <3>2, <3>3
    <3> QED
      BY <3>1, <3>2, <3>4, <3>5
  <2> QED
    BY <2>1, <2>2
<1>10. TransferOK'
  <2>1. copy \in Log /\ copy.start # 0 /\ Reached \in copy.start .. EndIndex(copy)
    BY <1>1 DEF IInv, TransferOK
  <2>2. EndIndex(copy)' = EndIndex(copy)
    BY <1>1 DEF EndIndex
  <2>3. reader'.phase # "idle"
    BY <1>5
  <2>4. reader'.phase = "reading" =>
          log'.locked /\ log'.commit # 0 /\ reader'.next \in log'.start .. EndIndex(log)'
    <3>1. ~done => p.next \in log.start .. EndIndex(log)
      BY <1>2, <1>8
    <3> QED
      BY <1>2, <1>4, <1>5, <3>1
  <2> QED
    BY <1>1, <1>5, <1>6, <1>7, <1>9, <2>1, <2>2, <2>3, <2>4 DEF TransferOK
<1>11. CopyOK'
  <2>1. reader'.phase = "sending" => reader'.sure <= log'.commit /\ reader'.sure < reader'.next
    BY <1>2, <1>4, <1>5, <1>8
  <2>2. \A j \in copy'.start .. Reached' - 1 : GetAt(copy, j)' = All'[j]
    BY <1>1, <1>4, <1>7 DEF IInv, CopyOK, Lasts, GetAt
  <2>3. ASSUME NEW k \in 1 .. Len(files'), NEW j \in files'[k].from .. files'[k].next - 1
        PROVE  files'[k].entries[j - files'[k].from + 1] = All'[j]
    <3>1. CASE k = Len(files) + 1
      <4>1. files'[k] = p /\ j \in reader.next .. p.next - 1
        BY <1>3, <1>6, <2>3, <3>1
      <4>2. j \in log.start .. EndIndex(log) - 1
        BY <1>2, <1>8, <4>1
      <4>3. p.entries[j - reader.next + 1] = All[j]
        BY <1>1, <1>3, <4>1, <4>2, GetAtIsAll
      <4> QED
        BY <1>3, <1>4, <4>1, <4>3
    <3>2. CASE k # Len(files) + 1
      <4>1. k \in 1 .. Len(files) /\ files'[k] = files[k]
        BY <1>6, <3>2
      <4>2. files[k].entries[j - files[k].from + 1] = All[j]
        BY <1>1, <2>3, <4>1 DEF IInv, CopyOK, Lasts
      <4> QED
        BY <1>4, <4>1, <4>2
    <3> QED
      BY <3>1, <3>2
  <2> QED
    BY <2>1, <2>2, <2>3 DEF CopyOK
<1>12. ContractStep
  BY <1>4, StutterInContract
<1> QED
  BY <1>4, <1>10, <1>11, <1>12 DEF IInv

LEMMA WritePieceSafe ==
    ASSUME IInv, WritePiece
    PROVE  IInv' /\ ContractStep
<1> DEFINE p == files[1]
<1>1. /\ reader.phase = "sending" /\ files # <<>> /\ files' = Tail(files)
      /\ copy' = Write(copy, p) /\ UNCHANGED <<log, gone, reader>>
  BY DEF WritePiece
<1>2. /\ files \in Seq(Piece) /\ Len(files) \in Nat /\ 1 \in 1 .. Len(files)
      /\ files' \in Seq(Piece) /\ Len(files') = Len(files) - 1
      /\ \A k \in 1 .. Len(files') : files'[k] = files[k + 1]
  <2>1. files \in Seq(Piece)
    BY DEF IInv, TransferOK
  <2>2. Len(files) \in Nat /\ 1 \in 1 .. Len(files)
    BY <1>1, TransferFacts
  <2>3. /\ Tail(files) \in Seq(Piece) /\ Len(Tail(files)) = Len(files) - 1
        /\ \A k \in 1 .. Len(Tail(files)) : Tail(files)[k] = files[k + 1]
    BY <1>1, <2>1, HeadTailProperties
  <2> QED
    BY <1>1, <2>1, <2>2, <2>3
<1>3. /\ p \in Piece /\ p.from \in Nat /\ p.next \in Nat /\ p.from <= p.next
      /\ p.next = p.from + Len(p.entries)
      /\ p.next = IF 1 = Len(files) THEN reader.next ELSE files[1 + 1].from
  <2>1. /\ p.next = p.from + Len(p.entries)
        /\ p.next = IF 1 = Len(files) THEN reader.next ELSE files[1 + 1].from
    BY <1>2 DEF IInv, TransferOK, PiecesFit
  <2> QED
    BY <1>2, <2>1, TransferFacts
<1>4. /\ copy \in Log /\ copy.start \in Nat /\ copy.start # 0 /\ Reached = p.from
      /\ p.from \in copy.start .. EndIndex(copy)
  BY <1>1, TransferFacts DEF IInv, TransferOK, Reached
<1>5. /\ copy' \in Log /\ copy'.start = copy.start /\ EndIndex(copy)' = p.next
      /\ \A j \in copy.start .. p.next - 1 :
            GetAt(copy, j)' = IF j < p.from THEN GetAt(copy, j) ELSE p.entries[j - p.from + 1]
  <2> HIDE DEF p
  <2>1. /\ Write(copy, p) \in Log
        /\ Write(copy, p).start = copy.start
        /\ EndIndex(Write(copy, p)) = p.next
        /\ \A j \in copy.start .. p.next - 1 :
              GetAt(Write(copy, p), j) = IF j < p.from THEN GetAt(copy, j)
                                         ELSE p.entries[j - p.from + 1]
    BY <1>3, <1>4, WriteReplacesRest
  <2> QED
    BY <1>1, <2>1 DEF EndIndex, GetAt
<1>6. Reached' = p.next
  <2>1. CASE Len(files) = 1
    <3>1. files' = <<>>
      BY <1>2, <2>1, EmptySeq
    <3> QED
      BY <1>1, <1>3, <2>1, <3>1 DEF Reached
  <2>2. CASE Len(files) # 1
    <3>1. 1 \in 1 .. Len(files') /\ files' # <<>>
      BY <1>2, <2>2, EmptySeq
    <3>2. files'[1].from = p.next
      BY <1>2, <1>3, <2>2, <3>1
    <3> QED
      BY <3>1, <3>2 DEF Reached
  <2> QED
    BY <2>1, <2>2
<1>7. PiecesFit'
  <2> SUFFICES ASSUME NEW k \in 1 .. Len(files')
               PROVE  /\ files'[k].from # 0
                      /\ files'[k].next = files'[k].from + Len(files'[k].entries)
                      /\ files'[k].next = IF k = Len(files') THEN reader'.next
                                          ELSE files'[k + 1].from
                      /\ files'[k].next <= reader'.next
    BY DEF PiecesFit
  <2>1. k + 1 \in 1 .. Len(files) /\ files'[k] = files[k + 1]
    BY <1>2
  <2>2. /\ files[k + 1].from # 0
        /\ files[k + 1].next = files[k + 1].from + Len(files[k + 1].entries)
        /\ files[k + 1].next = IF k + 1 = Len(files) THEN reader.next
                               ELSE files[k + 1 + 1].from
        /\ files[k + 1].next <= reader.next
    BY <2>1 DEF IInv, TransferOK, PiecesFit
  <2>3. k # Len(files') => k + 1 \in 1 .. Len(files') /\ k + 1 # Len(files)
    BY <1>2
  <2>4. k = Len(files') => k + 1 = Len(files)
    BY <1>2
  <2> QED
    BY <1>1, <1>2, <2>1, <2>2, <2>3, <2>4
<1>8. TransferOK'
  <2>1. Reached' \in copy'.start .. EndIndex(copy)'
    BY <1>3, <1>4, <1>5, <1>6
  <2>2. files' = <<>> => EndIndex(copy)' = reader'.next
    BY <1>5, <1>6 DEF Reached
  <2>3. reader' \in Reader
    BY <1>1 DEF IInv, TransferOK
  <2> QED
    BY <1>1, <1>2, <1>4, <1>5, <1>7, <2>1, <2>2, <2>3 DEF TransferOK
<1>9. LogOK' /\ All' = All /\ log' = log
  BY <1>1 DEF IInv, LogOK, InBounds, EndIndex, All
<1>10. CopyOK'
  <2>1. reader'.sure <= log'.commit /\ reader'.sure < reader'.next
    BY <1>1, <1>9 DEF IInv, CopyOK
  <2>2. ASSUME NEW j \in copy.start .. p.next - 1, Lasts(j)
        PROVE  GetAt(copy, j)' = All[j]
    <3>1. j \in Nat
      BY <1>4
    <3>2. CASE j < p.from
      <4>1. j \in copy.start .. Reached - 1
        BY <1>3, <1>4, <3>1, <3>2
      <4>2. GetAt(copy, j) = All[j]
        BY <1>1, <2>2, <4>1 DEF IInv, CopyOK
      <4> QED
        BY <1>5, <3>2, <4>2
    <3>3. CASE ~(j < p.from)
      <4>1. j \in p.from .. p.next - 1
        BY <1>3, <1>4, <3>1, <3>3
      <4>2. p.entries[j - p.from + 1] = All[j]
        BY <1>2, <2>2, <4>1 DEF IInv, CopyOK
      <4> QED
        BY <1>5, <3>3, <4>2
    <3> QED
      BY <3>2, <3>3
  <2>3. ASSUME NEW k \in 1 .. Len(files'), NEW j \in files'[k].from .. files'[k].next - 1,
               Lasts(j)
        PROVE  files'[k].entries[j - files'[k].from + 1] = All[j]
    <3>1. k + 1 \in 1 .. Len(files) /\ files'[k] = files[k + 1]
      BY <1>2
    <3> QED
      BY <2>3, <3>1 DEF IInv, CopyOK
  <2>4. \A j : Lasts(j)' = Lasts(j)
    BY <1>1 DEF Lasts
  <2>5. \A j \in copy'.start .. Reached' - 1 : Lasts(j)' => GetAt(copy, j)' = All'[j]
    BY <1>5, <1>6, <1>9, <2>2, <2>4
  <2>6. \A k \in 1 .. Len(files') : \A j \in files'[k].from .. files'[k].next - 1 :
          Lasts(j)' => files'[k].entries[j - files'[k].from + 1] = All'[j]
    BY <1>9, <2>3, <2>4
  <2> QED
    BY <2>1, <2>5, <2>6 DEF CopyOK
<1>11. ContractStep
  BY <1>9, StutterInContract
<1> QED
  BY <1>8, <1>9, <1>10, <1>11 DEF IInv

-----------------------------------------------------------------------------
(* The theorems. *)

LEMMA InitSafe ==
    ASSUME Init
    PROVE  IInv /\ Contract!Init
<1>1. /\ log = EmptyLog /\ gone = <<>> /\ files = <<>> /\ copy = EmptyLog
      /\ reader = NoTransfer
  BY DEF Init
<1>2. log \in Log /\ gone \in Seq(Entry) /\ log.entries = <<>> /\ log.start = 1
      /\ log.commit = 0 /\ Len(gone) = 0
  BY <1>1, EmptySeq DEF EmptyLog, Log
<1>3. LogOK
  BY <1>2 DEF LogOK, InBounds
<1>4. /\ reader \in Reader /\ reader.phase = "idle" /\ copy \in Log
      /\ files \in Seq(Piece) /\ 1 .. Len(files) = {}
  BY <1>1, EmptySeq DEF NoTransfer, Reader, EmptyLog, Log
<1>5. TransferOK
  BY <1>1, <1>4 DEF TransferOK, PiecesFit
<1>6. CopyOK
  BY <1>4 DEF CopyOK
<1>7. Contract!Init
  <2>1. gone \o log.entries = <<>>
    BY <1>1, <1>2, ConcatEmptySeq
  <2> QED
    BY <1>2, <2>1 DEF Contract!Init
<1> QED
  BY <1>3, <1>5, <1>6, <1>7 DEF IInv

LEMMA StepSafe ==
    ASSUME IInv, [Next]_vars
    PROVE  IInv' /\ ContractStep
<1>1. CASE Replicate
  <2>1. ASSUME NEW e \in Entry, AppendEntry(e)
        PROVE  IInv' /\ ContractStep
    BY <2>1, AppendEntrySafe
  <2>2. ASSUME NEW i \in 1 .. MaxIndex, NEW e \in Entry, ReplaceEntry(i, e)
        PROVE  IInv' /\ ContractStep
    BY <2>2, ReplaceEntrySafe
  <2>3. ASSUME NEW i \in 1 .. MaxIndex, CommitEntry(i)
        PROVE  IInv' /\ ContractStep
    BY <2>3, CommitEntrySafe
  <2> QED
    BY <1>1, <2>1, <2>2, <2>3 DEF Replicate
<1>2. CASE TimePasses
  BY <1>2, TimePassesSafe
<1>3. ASSUME NEW i \in 1 .. MaxIndex, NEW rest \in Rests, BeginTransfer(i, rest)
      PROVE  IInv' /\ ContractStep
  BY <1>3, BeginTransferSafe
<1>4. CASE ReadPiece
  BY <1>4, ReadPieceSafe
<1>5. CASE WritePiece
  BY <1>5, WritePieceSafe
<1>6. CASE EndTransfer
  BY <1>6, NoTransferSafe DEF EndTransfer
<1>7. CASE BreakTransfer
  BY <1>7, NoTransferSafe DEF BreakTransfer
<1>8. CASE UNCHANGED vars
  <2>1. /\ log' = log /\ gone' = gone /\ reader' = reader /\ files' = files /\ copy' = copy
    BY <1>8 DEF vars
  <2>2. LogOK' /\ All' = All
    BY <2>1 DEF IInv, LogOK, InBounds, EndIndex, All
  <2>3. TransferOK' /\ CopyOK'
    BY <2>1 DEF IInv, TransferOK, CopyOK, PiecesFit, Reached, Lasts, EndIndex, GetAt, All
  <2>4. ContractStep
    BY <2>1, <2>2, StutterInContract
  <2> QED
    BY <2>2, <2>3, <2>4 DEF IInv
<1> QED
  BY <1>1, <1>2, <1>3, <1>4, <1>5, <1>6, <1>7, <1>8 DEF Next, Transfer

LEMMA Invariance == Spec => []IInv
<1>1. Init => IInv
  BY InitSafe
<1>2. IInv /\ [Next]_vars => IInv'
  BY StepSafe
<1> QED
  BY <1>1, <1>2, PTL DEF Spec

\* The log and the transfer have the shapes the code gives them: in particular no index
\* or age is ever below zero, where the code subtracts unsigned ones (memory.rs).
THEOREM TypeCorrect == Spec => []TypeOK
<1>1. IInv => TypeOK
  BY DEF IInv, LogOK, TransferOK, TypeOK, Piece
<1> QED
  BY <1>1, Invariance, PTL

\* compact, trim and commit agree on where the log starts, and the last committed entry
\* is always in it.
THEOREM CommittedStays == Spec => []CommittedEntryStays
<1>1. IInv => CommittedEntryStays
  <2> SUFFICES ASSUME IInv PROVE CommittedEntryStays
    OBVIOUS
  <2>1. log.start \in Nat /\ log.commit \in Nat
    BY LogFacts DEF IInv
  <2> QED
    BY <2>1 DEF IInv, LogOK, InBounds, CommittedEntryStays
<1> QED
  BY <1>1, Invariance, PTL

\* Reads and writes of a transfer never meet the assertions on their index, whatever
\* replication commits and compacts meanwhile.
THEOREM TransferStaysInBounds == Spec => []TransferInBounds
<1>1. IInv => TransferInBounds
  <2> SUFFICES ASSUME IInv PROVE TransferInBounds
    OBVIOUS
  <2>1. reader.phase = "reading" => reader.next \in log.start .. EndIndex(log)
    BY DEF IInv, TransferOK
  <2>2. ASSUME reader.phase = "sending", files # <<>>
        PROVE  Head(files).from \in copy.start .. EndIndex(copy)
    <3>1. Reached = Head(files).from
      BY <2>2 DEF Reached
    <3> QED
      BY <2>2, <3>1 DEF IInv, TransferOK
  <2> QED
    BY <2>1, <2>2 DEF TransferInBounds
<1> QED
  BY <1>1, Invariance, PTL

\* When a transfer has written all it read, the other server has every entry that was
\* committed, at its index, and nothing stale behind.
THEOREM CopiesAreFaithful == Spec => []CopyIsFaithful
<1>1. IInv => CopyIsFaithful
  <2> SUFFICES ASSUME IInv, reader.phase = "sending", files = <<>>
               PROVE  /\ EndIndex(copy) = reader.next
                      /\ \A i \in copy.start .. reader.sure : GetAt(copy, i) = All[i]
    BY DEF CopyIsFaithful, All
  <2>1. EndIndex(copy) = reader.next /\ Reached = reader.next
    BY DEF IInv, TransferOK, Reached
  <2>2. ASSUME NEW i \in copy.start .. reader.sure
        PROVE  GetAt(copy, i) = All[i]
    <3>1. reader.sure < reader.next
      BY DEF IInv, CopyOK
    <3>2. reader.sure \in Nat /\ reader.next \in Nat /\ copy.start \in Nat
      BY TransferFacts
    <3>3. i \in copy.start .. Reached - 1 /\ i <= reader.sure
      BY <2>1, <3>1, <3>2
    <3> QED
      BY <3>3 DEF IInv, CopyOK, Lasts
  <2> QED
    BY <2>1, <2>2
<1> QED
  BY <1>1, Invariance, PTL

\* The log store implements its contract: compaction, locking and transfers stutter in
\* it, append and set_at put an entry, commit commits.
THEOREM LogIsKept == Spec => KeepsTheLog
<1>1. Init => Contract!Init
  BY InitSafe
<1>2. IInv /\ [Next]_vars => [Contract!Next]_(Contract!allVars)
  BY StepSafe DEF ContractStep
<1> QED
  BY <1>1, <1>2, Invariance, PTL DEF Spec, KeepsTheLog, Contract!Spec
=============================================================================
