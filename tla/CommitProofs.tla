---------------------------- MODULE CommitProofs ----------------------------
(***************************************************************************)
(* Committed entries stay, for all servers, gaps and bounds, in the groups *)
(* whose steps are OwnTermCommits, ComparedCommits and MatchesWithin.      *)
(*                                                                         *)
(* The argument, from the bottom up.  Terms in a log do not fall and each  *)
(* is in one piece (Ordered).  A log p is open when whatever is written    *)
(* in a later term contains it: then a server that has it keeps it         *)
(* (HasStays), and it stays open unless a leader is elected by voters none *)
(* of whom has it (OpenStays).  For the log of a leader up to an entry of  *)
(* its term, either p is open and all that the leader counts for it have   *)
(* it, or a majority has gone on to later terms uncounted and it will not  *)
(* be committed (Committable).  So what is counted on a majority is open   *)
(* and on a majority for good (Kept), and all that is known to be          *)
(* committed is within such a log (QuickKnown, CommitKept).                *)
(***************************************************************************)
EXTENDS ReplicationProofs

\* What is known of a state of a group whose transfers end in their term.
Sound == Core /\ Current /\ Agreement /\ TransfersInTerm

\* Log l agrees with log p up to index n.
AgreeTo(l, p, n) == n <= Len(l) /\ n <= Len(p) /\ \A i \in 1 .. n : l[i] = p[i]

-----------------------------------------------------------------------------
(* Logs whose terms do not fall, and whose terms are each in one piece. *)

LEMMA LinkOf ==
    ASSUME NEW l \in Seq(LogEntry), NEW i \in 1 .. Len(l)
    PROVE  \E x \in LogLinks(l) : /\ x.index = i /\ x.entry = l[i]
                                  /\ x.prev = IF i = 1 THEN 0 ELSE l[i - 1].term
<1>1. LinkAt(l, i) \in LogLinks(l)
  BY DEF LogLinks
<1>2. /\ LinkAt(l, i).index = i /\ LinkAt(l, i).entry = l[i]
      /\ LinkAt(l, i).prev = IF i = 1 THEN 0 ELSE l[i - 1].term
  BY DEF LinkAt
<1> QED
  BY <1>1, <1>2

LEMMA EntryTerm ==
    ASSUME NEW l \in Seq(LogEntry), NEW i \in 1 .. Len(l)
    PROVE  l[i] \in LogEntry /\ l[i].term \in Nat /\ l[i].term # 0
<1>1. l[i] \in LogEntry
  BY ElementOfSeq
<1> QED
  BY <1>1 DEF LogEntry

LEMMA LogRises ==
    ASSUME NEW l \in Seq(LogEntry), \A x \in LogLinks(l) : x.prev <= x.entry.term,
           NEW i \in 1 .. Len(l), NEW j \in i .. Len(l)
    PROVE  l[i].term <= l[j].term
<1> DEFINE S == {k \in i .. j : l[k].term > l[j].term}
<1>1. /\ Len(l) \in Nat /\ i \in Nat /\ j \in Nat /\ i >= 1 /\ i <= j /\ j <= Len(l)
      /\ \A k \in i .. j : k \in 1 .. Len(l) /\ l[k].term \in Nat
  <2>1. Len(l) \in Nat
    BY LenProperties
  <2>2. \A k \in i .. j : k \in 1 .. Len(l)
    BY <2>1
  <2> QED
    BY <2>1, <2>2, EntryTerm
<1>2. CASE S = {}
  <2>1. ~(l[i].term > l[j].term) /\ l[i].term \in Nat /\ l[j].term \in Nat
    BY <1>1, <1>2
  <2> QED
    BY <2>1
<1>3. CASE S # {}
  <2> DEFINE k == Max(S)
  <2>1. k \in S /\ \A y \in S : k >= y
    <3>1. S \in SUBSET (0 .. j)
      BY <1>1
    <3> HIDE DEF S
    <3> QED
      BY <1>1, <1>3, <3>1, MaxIsReached
  <2> HIDE DEF k
  <2>2. k \in i .. j /\ l[k].term > l[j].term /\ k # j
    BY <1>1, <2>1
  <2>3. k + 1 \in i .. j /\ k + 1 # 1 /\ (k + 1) - 1 = k /\ k + 1 > k
    BY <1>1, <2>2
  <2>4. ~(l[k + 1].term > l[j].term)
    <3>1. k + 1 \notin S
      <4> HIDE DEF S
      <4> QED
        BY <1>1, <2>1, <2>2, <2>3
    <3> QED
      BY <2>3, <3>1
  <2>5. PICK a : a = k + 1
    OBVIOUS
  <2>6. PICK x \in LogLinks(l) : x.entry = l[a] /\ x.prev = l[k].term
    <3>1. a \in 1 .. Len(l) /\ a # 1 /\ a - 1 = k
      BY <1>1, <2>3, <2>5
    <3> QED
      BY <3>1, LinkOf
  <2>7. l[k].term <= l[a].term
    BY <2>6
  <2>8. l[k].term \in Nat /\ l[a].term \in Nat /\ l[j].term \in Nat
    BY <1>1, <2>2, <2>3, <2>5
  <2> QED
    BY <2>2, <2>4, <2>5, <2>7, <2>8
<1> QED
  BY <1>2, <1>3

\* A term that is at index n somewhere, and in l at b and in one piece, is in l at n.
LEMMA TermRun ==
    ASSUME NEW l \in Seq(LogEntry), NEW n \in Nat, n # 0, NEW b \in n .. Len(l), NEW t,
           l[b].term = t,
           \A y \in LogLinks(l) : y.entry.term = t /\ n < y.index => y.prev = t
    PROVE  l[n].term = t
<1> DEFINE S == {k \in n .. b : l[k].term # t}
<1>1. Len(l) \in Nat /\ b \in Nat /\ n <= b /\ b <= Len(l)
  BY LenProperties
<1>2. CASE S = {}
  BY <1>1, <1>2
<1>3. CASE S # {}
  <2> DEFINE k == Max(S)
  <2>1. k \in S /\ \A y \in S : k >= y
    <3>1. S \in SUBSET (0 .. b)
      BY <1>1
    <3> HIDE DEF S
    <3> QED
      BY <1>1, <1>3, <3>1, MaxIsReached
  <2> HIDE DEF k
  <2>2. k \in n .. b /\ l[k].term # t /\ k # b
    BY <2>1
  <2>3. PICK a : a = k + 1
    OBVIOUS
  <2>4. a \in n .. b /\ a # 1 /\ a - 1 = k /\ a > k /\ n < a /\ a \in 1 .. Len(l)
    BY <1>1, <2>2, <2>3
  <2>5. l[a].term = t
    <3>1. a \notin S
      <4> HIDE DEF S
      <4>1. \A y \in S : ~(y > k)
        <5>1. S \subseteq Nat
          BY <1>1 DEF S
        <5> QED
          BY <2>1, <5>1
      <4> QED
        BY <2>4, <4>1
    <3> QED
      BY <2>4, <3>1
  <2>6. PICK y \in LogLinks(l) : y.index = a /\ y.entry = l[a] /\ y.prev = l[k].term
    BY <2>4, LinkOf
  <2> QED
    BY <2>2, <2>4, <2>5, <2>6
<1> QED
  BY <1>2, <1>3

\* Logs that agree in the term of an entry agree up to it, now and after a step.
LEMMA AgreeNow ==
    ASSUME Core, LinksAgree, NEW q \in Server, NEW w \in Server, NEW p \in Seq(LogEntry),
           NEW j \in 1 .. Len(p), AgreeTo(Entries(w), p, j),
           j <= Len(Entries(q)), Entries(q)[j].term = p[j].term
    PROVE  AgreeTo(Entries(q), p, j)
<1>1. PICK l, f : l = Entries(q) /\ f = Entries(w)
  OBVIOUS
<1>2. l \in Seq(LogEntry) /\ f \in Seq(LogEntry)
  BY <1>1, StateTyped
<1>3. \A x \in LogLinks(l), y \in LogLinks(f) :
          x.index = y.index /\ x.entry.term = y.entry.term => x = y
  BY <1>1 DEF LinksAgree, IsLink
<1>4. j \in Nat /\ j <= Len(l) /\ j <= Len(f) /\ l[j].term = f[j].term /\ j <= Len(p)
  BY <1>1, LenProperties DEF AgreeTo
<1>5. \A k \in 1 .. j : l[k] = f[k]
  BY <1>2, <1>3, <1>4, LinksMatch
<1> QED
  BY <1>1, <1>4, <1>5 DEF AgreeTo

LEMMA AgreeNext ==
    ASSUME Core', LinksAgree', NEW q \in Server, NEW w \in Server, NEW p \in Seq(LogEntry),
           NEW j \in 1 .. Len(p), AgreeTo(Entries(w)', p, j),
           j <= Len(Entries(q)'), Entries(q)'[j].term = p[j].term
    PROVE  AgreeTo(Entries(q)', p, j)
<1>1. PICK l, f : l = Entries(q)' /\ f = Entries(w)'
  OBVIOUS
<1>2. l \in Seq(LogEntry) /\ f \in Seq(LogEntry)
  <2>1. srv'[q] \in FullState /\ srv'[w] \in FullState
    BY DEF Core, Typed
  <2> QED
    BY <1>1, <2>1, StateFields DEF Entries
<1>3. \A x \in LogLinks(l), y \in LogLinks(f) :
          x.index = y.index /\ x.entry.term = y.entry.term => x = y
  BY <1>1 DEF LinksAgree, IsLink
<1>4. j \in Nat /\ j <= Len(l) /\ j <= Len(f) /\ l[j].term = f[j].term /\ j <= Len(p)
  BY <1>1, LenProperties DEF AgreeTo
<1>5. \A k \in 1 .. j : l[k] = f[k]
  BY <1>2, <1>3, <1>4, LinksMatch
<1> QED
  BY <1>1, <1>4, <1>5 DEF AgreeTo

-----------------------------------------------------------------------------
(* What changes a log. *)

LEMMA LogChanges ==
    ASSUME Core, Next, NEW q \in Server
    PROVE  \/ Entries(q)' = Entries(q)
           \/ AppendsEntry(q) \/ CopiesLog(q) \/ \E m \in msgs : TakesEntries(q, m)
           \/ \E Q \in SUBSET Server : /\ WinsElection(q, Q)
                                       /\ Entries(q)' = Append(Entries(q),
                                              [term |-> srv'[q].term, type |-> "Configuration"])
<1>1. PICK s \in Server :
          \/ SameLogs(s) \/ AppendsEntry(s) \/ CopiesLog(s)
          \/ \E m \in msgs : RefusesRequest(s, m) \/ TakesEntries(s, m)
          \/ \E Q \in SUBSET Server : WinsElection(s, Q)
  BY StepDoes
<1>2. CASE \E Q \in SUBSET Server : WinsElection(s, Q)
  BY <1>2 DEF WinsElection
<1>3. CASE q # s /\ ~\E Q \in SUBSET Server : WinsElection(s, Q)
  <2>1. Alone(s)
    BY <1>1, <1>3 DEF SameLogs, AppendsEntry, CopiesLog, RefusesRequest, TakesEntries
  <2> QED
    BY <1>3, <2>1, AloneGives DEF Entries
<1>4. CASE q = s /\ ~\E Q \in SUBSET Server : WinsElection(s, Q)
  BY <1>1, <1>4 DEF SameLogs, RefusesRequest
<1> QED
  BY <1>2, <1>3, <1>4

\* A state transfer within a term makes the log that of the leader.
LEMMA CopiesWhole ==
    ASSUME Sound, NEW s \in Server, CopiesLog(s)
    PROVE  \E f \in Server : /\ Leads(f, srv[s].term)
                             /\ Len(Entries(s)') = Len(Entries(f))
                             /\ \A i \in 1 .. Len(Entries(f)) : Entries(s)'[i] = Entries(f)[i]
<1>1. PICK x : x = srv[s].transfer
  OBVIOUS
<1>2. PICK f, l, y, r : f = x.from /\ l = Entries(s) /\ y = Entries(f) /\ r = Entries(s)'
  OBVIOUS
<1>3. /\ f \in Server /\ x.start \in 1 .. Len(l) + 1 /\ x.start \in 1 .. Len(y) + 1
      /\ Len(r) = Len(y)
      /\ \A j \in 1 .. x.start - 1 : r[j] = l[j]
      /\ \A j \in x.start .. Len(y) : r[j] = y[j]
  BY <1>1, <1>2, CopiedLog DEF Sound
<1>4. x # NoTransfer /\ Leads(f, srv[s].term)
  BY <1>1, <1>2 DEF CopiesLog, Sound, TransfersInTerm
<1>5. l \in Seq(LogEntry) /\ y \in Seq(LogEntry) /\ Len(l) \in Nat /\ Len(y) \in Nat
  BY <1>2, <1>3, StateTyped DEF Sound
<1>6. PICK n : n = x.start - 1
  OBVIOUS
<1>7. n \in Nat /\ n <= Len(l) /\ n <= Len(y) /\ x.start = n + 1
  BY <1>3, <1>5, <1>6
<1>8. n = 0 \/ l[n].term = y[n].term
  <2>1. TermAt(srv[s].log, n) = TermAt(srv[f].log, n)
    BY <1>1, <1>2, <1>4, <1>6 DEF Sound, Agreement, TransfersAgree, TransferAgrees
  <2>2. /\ srv[s].log \in FullLog /\ srv[f].log \in FullLog
        /\ srv[s].log.entries = l /\ srv[f].log.entries = y
    BY <1>2, <1>3, StateTyped, StateFields DEF Sound, Entries
  <2>3. n \in 0 .. Len(l) /\ n \in 0 .. Len(y)
    BY <1>5, <1>7
  <2>4. TermAt(srv[s].log, n) = IF n = 0 THEN 0 ELSE l[n].term
    BY <2>2, <2>3, TermAtFacts
  <2>5. TermAt(srv[f].log, n) = IF n = 0 THEN 0 ELSE y[n].term
    BY <2>2, <2>3, TermAtFacts
  <2> QED
    BY <2>1, <2>4, <2>5
<1>9. \A k \in 1 .. n : l[k] = y[k]
  <2>1. \A a \in LogLinks(l), b \in LogLinks(y) :
            a.index = b.index /\ a.entry.term = b.entry.term => a = b
    BY <1>2, <1>3 DEF Sound, Agreement, LinksAgree, IsLink
  <2> QED
    BY <1>5, <1>7, <1>8, <2>1, LinksMatch
<1>10. \A i \in 1 .. Len(y) : r[i] = y[i]
  <2> TAKE i \in 1 .. Len(y)
  <2>1. i \in 1 .. n \/ i \in x.start .. Len(y)
    BY <1>5, <1>7
  <2>2. \A j \in 1 .. n : r[j] = l[j]
    BY <1>3, <1>6
  <2> QED
    BY <1>3, <1>9, <2>1, <2>2
<1> QED
  BY <1>2, <1>3, <1>4, <1>10

-----------------------------------------------------------------------------
(***************************************************************************)
(* The order of terms in logs: none is above the term of its server or     *)
(* request; they do not fall; a term is in one piece, and in the log of    *)
(* its leader.                                                             *)
(***************************************************************************)
Below ==
    /\ \A s \in Server : \A i \in 1 .. Len(Entries(s)) : Entries(s)[i].term <= srv[s].term
    /\ \A m \in Requests : \A k \in 1 .. Len(m.entries) : m.entries[k].term <= m.term

Rising == \A x : IsLink(x) => x.prev <= x.entry.term

Contiguous ==
    \A x, y : IsLink(x) /\ IsLink(y) /\ x.entry.term = y.entry.term /\ x.index < y.index
              => y.prev = x.entry.term

LeaderHas ==
    \A x : IsLink(x) =>
        \A s \in Server : Leads(s, x.entry.term) =>
            x.index \in 1 .. Len(Entries(s)) /\ Entries(s)[x.index].term = x.entry.term

Ordered == Below /\ Rising /\ Contiguous /\ LeaderHas

LEMMA LogBelow ==
    ASSUME Sound, Core', Next, Below, NEW q \in Server, NEW i \in 1 .. Len(Entries(q)')
    PROVE  Entries(q)'[i].term <= srv'[q].term
<1>1. PICK l, r, t, u : l = Entries(q) /\ r = Entries(q)' /\ t = srv[q].term /\ u = srv'[q].term
  OBVIOUS
<1>2. /\ l \in Seq(LogEntry) /\ Len(l) \in Nat /\ r \in Seq(LogEntry) /\ Len(r) \in Nat
      /\ i \in 1 .. Len(r)
  <2>1. srv'[q] \in FullState
    BY DEF Core, Typed
  <2> QED
    BY <1>1, <2>1, StateTyped, StateFields DEF Entries, Sound
<1>3. t \in Nat /\ u \in Nat /\ u >= t
  BY <1>1, TermsGrow DEF Sound
<1>4. \A j \in 1 .. Len(l) : l[j].term \in Nat /\ l[j].term <= u
  BY <1>1, <1>2, <1>3, EntryTerm DEF Below
<1>5. CASE r = l
  BY <1>1, <1>2, <1>4, <1>5
<1>6. CASE \E x \in LogEntry : r = Append(l, x) /\ x.term <= u
  BY <1>1, <1>2, <1>4, <1>6
<1>7. CASE AppendsEntry(q)
  <2>1. PICK x : x = [term |-> t, type |-> "Application"]
    OBVIOUS
  <2>2. r = Append(l, x) /\ Leads(q, t)
    BY <1>1, <1>7, <2>1 DEF AppendsEntry
  <2>3. x \in LogEntry /\ x.term = t
    BY <1>1, <2>1, <2>2, StateTyped DEF Sound, ServerOK, Term, LogEntry, Leads
  <2> QED
    BY <1>3, <1>6, <2>2, <2>3
<1>8. CASE CopiesLog(q)
  <2>1. PICK f \in Server : /\ Leads(f, t) /\ Len(r) = Len(Entries(f))
                            /\ \A j \in 1 .. Len(Entries(f)) : r[j] = Entries(f)[j]
    BY <1>1, <1>8, CopiesWhole
  <2>2. r[i].term <= t
    BY <1>2, <2>1 DEF Below, Leads
  <2>3. r[i].term \in Nat
    BY <1>2, EntryTerm
  <2> QED
    BY <1>1, <1>3, <2>2, <2>3
<1>9. CASE \E m \in msgs : TakesEntries(q, m)
  <2>1. PICK m \in msgs : TakesEntries(q, m)
    BY <1>9
  <2>2. /\ m \in FullRequest /\ m \in Requests /\ m.entries \in Seq(LogEntry)
        /\ m.lastIndex + 1 \in 1 .. Len(l) + 1 /\ u = m.term
        /\ \E c \in 1 .. Len(m.entries) + 1 : Appended(l, m.entries, m.lastIndex + 1, c, r)
    BY <1>1, <2>1, TakesAppended, RequestFields DEF TakesEntries, Sound
  <2>3. \A k \in 1 .. Len(m.entries) : m.entries[k].term <= u
    BY <2>2 DEF Below
  <2>4. \/ i \in 1 .. Len(l) /\ r[i] = l[i]
        \/ \E k \in 1 .. Len(m.entries) : r[i] = m.entries[k]
    <3>1. PICK es, j : es = m.entries /\ j = m.lastIndex + 1
      OBVIOUS
    <3>2. PICK c \in 1 .. Len(es) + 1 : Appended(l, es, j, c, r)
      BY <2>2, <3>1
    <3>3. es \in Seq(LogEntry) /\ j \in 1 .. Len(l) + 1 /\ l \in Seq(LogEntry) /\ r \in Seq(LogEntry)
      BY <1>2, <2>2, <3>1
    <3>4. \A k \in 1 .. Len(r) : \/ k \in 1 .. Len(l) /\ r[k] = l[k]
                                 \/ \E h \in 1 .. Len(es) : k = j - 1 + h /\ r[k] = es[h]
      BY <3>2, <3>3, AppendedFrom, ZenonT(30)
    <3> QED
      BY <1>2, <3>1, <3>4
  <2> QED
    BY <1>1, <1>4, <2>3, <2>4
<1>10. CASE \E Q \in SUBSET Server :
               /\ WinsElection(q, Q)
               /\ r = Append(l, [term |-> u, type |-> "Configuration"])
  <2>1. PICK x : x = [term |-> u, type |-> "Configuration"]
    OBVIOUS
  <2>2. u # 0 /\ u \in Term
    <3>1. t < u
      BY <1>1, <1>10 DEF WinsElection
    <3>2. srv'[q] \in FullState
      BY DEF Core, Typed
    <3> QED
      BY <1>1, <1>3, <3>1, <3>2, StateFields
  <2>3. x \in LogEntry /\ x.term = u
    BY <1>3, <2>1, <2>2 DEF Term, LogEntry
  <2> QED
    BY <1>3, <1>6, <1>10, <2>1, <2>3
<1> QED
  BY <1>1, <1>5, <1>7, <1>8, <1>9, <1>10, LogChanges DEF Sound

LEMMA BelowKept ==
    ASSUME Sound, Core', Next, Below
    PROVE  Below'
<1>1. \A s \in Server : \A i \in 1 .. Len(Entries(s)') : Entries(s)'[i].term <= srv'[s].term
  BY LogBelow
<1>2. ASSUME NEW m \in Requests', NEW k \in 1 .. Len(m.entries)
      PROVE  m.entries[k].term <= m.term
  <2>1. CASE m \in Requests
    BY <2>1 DEF Below
  <2>2. CASE \E s \in Server : RequestOf(s, srv'[s], m)
    <3>1. PICK s \in Server : RequestOf(s, srv'[s], m)
      BY <2>2
    <3>2. PICK r, b, len : r = Entries(s)' /\ b = m.lastIndex /\ len = Len(m.entries)
      OBVIOUS
    <3>3. /\ m \in FullRequest /\ b + len <= Len(r) /\ m.term = srv'[s].term
          /\ m.entries[k] = r[b + k]
      BY <3>1, <3>2 DEF RequestOf, InLog, Entries
    <3>4. b \in Nat /\ len \in Nat /\ Len(r) \in Nat
      <4>1. srv'[s] \in FullState
        BY DEF Core, Typed
      <4> QED
        BY <3>2, <3>3, <4>1, RequestFields, StateFields DEF Entries
    <3>5. b + k \in 1 .. Len(r)
      BY <3>2, <3>3, <3>4
    <3> QED
      BY <1>1, <3>2, <3>3, <3>5
  <2> QED
    BY <2>1, <2>2, NewRequests DEF Sound
<1> QED
  BY <1>1, <1>2 DEF Below

LEMMA LogNext ==
    ASSUME Core', NEW q \in Server
    PROVE  /\ srv'[q] \in FullState /\ srv'[q].term \in Nat
           /\ Entries(q)' \in Seq(LogEntry) /\ Len(Entries(q)') \in Nat
<1>1. srv'[q] \in FullState
  BY DEF Core, Typed
<1> QED
  BY <1>1, StateFields, Bounds DEF Entries

\* The indexes of links, now and after a step.
LEMMA LinkIndex ==
    ASSUME NEW x,
           \/ \E l \in Seq(LogEntry) : x \in LogLinks(l)
           \/ \E m \in FullRequest : x \in RequestLinks(m)
    PROVE  x.index \in Nat /\ x.index # 0
<1>1. ASSUME NEW l \in Seq(LogEntry), x \in LogLinks(l)
      PROVE  x.index \in Nat /\ x.index # 0
  <2>1. PICK i \in 1 .. Len(l) : x = LinkAt(l, i)
    BY <1>1 DEF LogLinks
  <2>2. x.index = i /\ Len(l) \in Nat
    BY <2>1, LenProperties DEF LinkAt
  <2> QED
    BY <2>2
<1>2. ASSUME NEW m \in FullRequest, x \in RequestLinks(m)
      PROVE  x.index \in Nat /\ x.index # 0
  <2>1. PICK k \in 1 .. Len(m.entries) : x = RequestLink(m, k)
    BY <1>2 DEF RequestLinks
  <2>2. x.index = m.lastIndex + k
    BY <2>1 DEF RequestLink
  <2>3. PICK b, len : b = m.lastIndex /\ len = Len(m.entries)
    OBVIOUS
  <2>4. b \in Nat /\ len \in Nat /\ k \in 1 .. len /\ x.index = b + k
    BY <2>2, <2>3, RequestFields
  <2> QED
    BY <2>4
<1> QED
  BY <1>1, <1>2

LEMMA LinkIndexNow ==
    ASSUME Core, NEW x, IsLink(x)
    PROVE  x.index \in Nat /\ x.index # 0
<1> QED
  BY LinkIndex, StateTyped, MessageKinds DEF Core, IsLink

LEMMA LinkIndexNext ==
    ASSUME Core', NEW x, IsLink(x)'
    PROVE  x.index \in Nat /\ x.index # 0
<1>1. \A s \in Server : Entries(s)' \in Seq(LogEntry)
  BY LogNext
<1>2. \A m \in Requests' : m \in FullRequest
  BY DEF Core, Typed, Requests, FullRequest, FullResponse
<1> QED
  BY <1>1, <1>2, LinkIndex DEF IsLink

\* A link that is new is the end of its leader's log.
LEMMA NewLinkIs ==
    ASSUME Core', NEW z, IsLink(z)', NewLink(z)
    PROVE  \E s \in Server :
               /\ Leads(s, z.entry.term)' /\ srv'[s].term = z.entry.term
               /\ z.index = Len(Entries(s)') /\ z.index \in 1 .. Len(Entries(s)')
               /\ z.entry = Entries(s)'[z.index]
               /\ z.prev = IF z.index = 1 THEN 0 ELSE Entries(s)'[z.index - 1].term
               /\ \A x : IsLink(x) /\ x.entry.term = z.entry.term => x.index < z.index
<1>1. PICK s \in Server : /\ Leads(s, z.entry.term)'
                          /\ z = LinkAt(Entries(s)', Len(Entries(s)'))
                          /\ z.index = Len(Entries(s)')
                          /\ \A x : IsLink(x) /\ x.entry.term = z.entry.term => x.index < z.index
  BY DEF NewLink
<1>2. z.index \in Nat /\ z.index # 0
  BY LinkIndexNext
<1>3. z.index \in 1 .. Len(Entries(s)')
  BY <1>1, <1>2
<1>4. /\ z.entry = Entries(s)'[z.index]
      /\ z.prev = IF z.index = 1 THEN 0 ELSE Entries(s)'[z.index - 1].term
  BY <1>1 DEF LinkAt
<1>5. srv'[s].term = z.entry.term
  BY <1>1 DEF Leads
<1> QED
  BY <1>1, <1>3, <1>4, <1>5

LEMMA RisingKept ==
    ASSUME Sound, Core', Next, Below', Rising
    PROVE  Rising'
<1> SUFFICES ASSUME NEW z, IsLink(z)' PROVE z.prev <= z.entry.term
  BY DEF Rising
<1>1. CASE IsLink(z)
  BY <1>1 DEF Rising
<1>2. CASE NewLink(z)
  <2>1. PICK s \in Server :
               /\ srv'[s].term = z.entry.term
               /\ z.index \in 1 .. Len(Entries(s)')
               /\ z.prev = IF z.index = 1 THEN 0 ELSE Entries(s)'[z.index - 1].term
    BY <1>2, NewLinkIs
  <2>2. PICK i : i = z.index
    OBVIOUS
  <2>3. srv'[s].term \in Nat /\ Len(Entries(s)') \in Nat
    BY LogNext
  <2>4. CASE i = 1
    BY <2>1, <2>2, <2>3, <2>4
  <2>5. CASE i # 1
    <3>1. i - 1 \in 1 .. Len(Entries(s)')
      BY <2>1, <2>2, <2>3, <2>5
    <3>2. Entries(s)'[i - 1].term <= srv'[s].term
      BY <3>1 DEF Below
    <3> QED
      BY <2>1, <2>2, <2>5, <3>2
  <2> QED
    BY <2>4, <2>5
<1> QED
  BY <1>1, <1>2, LinksAfter DEF Sound

LEMMA RisesNow ==
    ASSUME Core, Rising, NEW q \in Server, NEW i \in 1 .. Len(Entries(q)),
           NEW j \in i .. Len(Entries(q))
    PROVE  Entries(q)[i].term <= Entries(q)[j].term
<1>1. \A x \in LogLinks(Entries(q)) : x.prev <= x.entry.term
  BY DEF Rising, IsLink
<1> QED
  BY <1>1, StateTyped, LogRises

LEMMA RisesNext ==
    ASSUME Core', Rising', NEW q \in Server, NEW i \in 1 .. Len(Entries(q)'),
           NEW j \in i .. Len(Entries(q)')
    PROVE  Entries(q)'[i].term <= Entries(q)'[j].term
<1>1. \A x \in LogLinks(Entries(q)') : x.prev <= x.entry.term
  BY DEF Rising, IsLink
<1>2. PICK l : l = Entries(q)'
  OBVIOUS
<1>3. l \in Seq(LogEntry)
  BY <1>2, LogNext
<1>4. l[i].term <= l[j].term
  BY <1>1, <1>2, <1>3, LogRises
<1> QED
  BY <1>2, <1>4

LEMMA LeaderHasKept ==
    ASSUME Sound, Core', Next, LeaderHas
    PROVE  LeaderHas'
<1> SUFFICES ASSUME NEW z, IsLink(z)', NEW s \in Server, Leads(s, z.entry.term)'
             PROVE  /\ z.index \in 1 .. Len(Entries(s)')
                    /\ Entries(s)'[z.index].term = z.entry.term
  BY DEF LeaderHas
<1>1. PICK t, l, r : t = z.entry.term /\ l = Entries(s) /\ r = Entries(s)'
  OBVIOUS
<1>2. CASE IsLink(z)
  <2>1. t \in Nat /\ Reached(t)
    BY <1>1, <1>2, LinkFields DEF Sound
  <2>2. Leads(s, t) /\ Len(l) <= Len(r) /\ \A i \in 1 .. Len(l) : r[i] = l[i]
    BY <1>1, <2>1, LeadersBefore DEF Sound
  <2>3. z.index \in 1 .. Len(l) /\ l[z.index].term = t
    BY <1>1, <1>2, <2>2 DEF LeaderHas
  <2>4. Len(l) \in Nat /\ Len(r) \in Nat
    BY <1>1, StateTyped, LogNext DEF Sound
  <2> QED
    BY <1>1, <2>2, <2>3, <2>4
<1>3. CASE NewLink(z)
  <2>1. PICK q \in Server : /\ Leads(q, z.entry.term)'
                            /\ z.index \in 1 .. Len(Entries(q)')
                            /\ z.entry = Entries(q)'[z.index]
    BY <1>3, NewLinkIs
  <2>2. s = q
    BY <2>1 DEF Core, OneLeaderPerTerm, Leads
  <2> QED
    BY <2>1, <2>2
<1> QED
  BY <1>2, <1>3, LinksAfter DEF Sound

LEMMA ContiguousKept ==
    ASSUME Sound, Core', Next, Below', Rising', LeaderHas', Contiguous
    PROVE  Contiguous'
<1> SUFFICES ASSUME NEW x, NEW y, IsLink(x)', IsLink(y)', x.entry.term = y.entry.term,
                    x.index < y.index
             PROVE  y.prev = x.entry.term
  BY DEF Contiguous
<1>1. x.index \in Nat /\ x.index # 0 /\ y.index \in Nat /\ y.index # 0
  BY LinkIndexNext
<1>2. CASE IsLink(x) /\ IsLink(y)
  BY <1>2 DEF Contiguous
<1>3. CASE NewLink(x) /\ IsLink(y)
  <2>1. y.index < x.index
    BY <1>3, NewLinkIs
  <2> QED
    BY <1>1, <2>1
<1>4. CASE NewLink(y)
  <2>1. PICK s \in Server :
               /\ Leads(s, y.entry.term)' /\ srv'[s].term = y.entry.term
               /\ y.index = Len(Entries(s)') /\ y.index \in 1 .. Len(Entries(s)')
               /\ y.prev = IF y.index = 1 THEN 0 ELSE Entries(s)'[y.index - 1].term
    BY <1>4, NewLinkIs
  <2>2. PICK r, i, k, t : r = Entries(s)' /\ i = x.index /\ k = y.index - 1 /\ t = y.entry.term
    OBVIOUS
  <2>3. /\ r \in Seq(LogEntry) /\ i \in 1 .. Len(r) /\ r[i].term = t
        /\ k \in i .. Len(r) /\ k \in 1 .. Len(r) /\ y.index # 1 /\ Len(r) \in Nat
    <3>1. i \in 1 .. Len(r) /\ r[i].term = t
      BY <2>1, <2>2 DEF LeaderHas
    <3> QED
      BY <1>1, <2>1, <2>2, <3>1, LogNext
  <2>4. r[i].term <= r[k].term
    BY <2>2, <2>3, RisesNext
  <2>5. r[k].term <= t
    BY <2>1, <2>2, <2>3 DEF Below
  <2>6. r[k].term \in Nat /\ r[i].term \in Nat
    BY <2>3, EntryTerm
  <2>7. r[k].term = t
    BY <2>3, <2>4, <2>5, <2>6
  <2> QED
    BY <2>1, <2>2, <2>3, <2>7
<1> QED
  BY <1>2, <1>3, <1>4, LinksAfter DEF Sound

LEMMA OrderedKept ==
    ASSUME Sound, Core', Next, Ordered
    PROVE  Ordered'
<1>1. Below'
  BY BelowKept DEF Ordered
<1>2. Rising' /\ LeaderHas'
  BY <1>1, RisingKept, LeaderHasKept DEF Ordered
<1>3. Contiguous'
  BY <1>1, <1>2, ContiguousKept DEF Ordered
<1> QED
  BY <1>1, <1>2, <1>3 DEF Ordered

-----------------------------------------------------------------------------
(***************************************************************************)
(* A log p that later leaders have: it is below every entry of a later     *)
(* term, leaders of its term and of later ones have it, and so does what   *)
(* they ask others to append.                                              *)
(***************************************************************************)
Prefix == Seq(LogEntry) \ {<<>>}

TermOf(p) == p[Len(p)].term

Has(q, p) == AgreeTo(Entries(q), p, Len(p))

Compat(m, p) ==
    /\ m.lastIndex \in 1 .. Len(p) => m.lastTerm = p[m.lastIndex].term
    /\ m.lastIndex >= Len(p) => m.lastTerm >= TermOf(p)
    /\ \A k \in 1 .. Len(m.entries) :
           m.lastIndex + k <= Len(p) => m.entries[k] = p[m.lastIndex + k]

InLaterLogs(p) == \A q \in Server : \A i \in 1 .. Len(Entries(q)) :
                      Entries(q)[i].term > TermOf(p) => Has(q, p)
LeadersHave(p) == \A q \in Server :
                      srv[q].role = "Leader" /\ srv[q].term >= TermOf(p) => Has(q, p)
RequestsKeep(p) == \A m \in Requests : m.term >= TermOf(p) => Compat(m, p)

Open(p) == InLaterLogs(p) /\ LeadersHave(p) /\ RequestsKeep(p)

LEMMA PrefixFields ==
    ASSUME NEW p \in Prefix
    PROVE  /\ p \in Seq(LogEntry) /\ Len(p) \in Nat /\ Len(p) # 0 /\ Len(p) \in 1 .. Len(p)
           /\ TermOf(p) \in Nat /\ TermOf(p) # 0
<1>1. p \in Seq(LogEntry) /\ p # <<>>
  BY DEF Prefix
<1>2. Len(p) \in Nat /\ Len(p) # 0
  BY <1>1, LenProperties, EmptySeq
<1>3. Len(p) \in 1 .. Len(p)
  BY <1>2
<1> QED
  BY <1>1, <1>2, <1>3, EntryTerm DEF TermOf

\* A log that has the term of p, at the end of p or after it.
LEMMA RunHas ==
    ASSUME Core, LinksAgree, Ordered, NEW p \in Prefix, NEW q \in Server, NEW w \in Server,
           Has(w, p), NEW b \in Len(p) .. Len(Entries(q)), Entries(q)[b].term = TermOf(p)
    PROVE  Has(q, p)
<1>1. PICK l, n, t : l = Entries(q) /\ n = Len(p) /\ t = TermOf(p)
  OBVIOUS
<1>2. /\ l \in Seq(LogEntry) /\ Len(l) \in Nat /\ n \in Nat /\ n # 0 /\ b \in n .. Len(l)
      /\ l[b].term = t
  BY <1>1, StateTyped, PrefixFields
<1>3. PICK x \in LogLinks(Entries(w)) : x.index = n /\ x.entry.term = t
  <2>1. Entries(w) \in Seq(LogEntry) /\ n \in 1 .. Len(Entries(w)) /\ Entries(w)[n].term = t
    BY <1>1, <1>2, StateTyped DEF Has, AgreeTo, TermOf
  <2> QED
    BY <2>1, LinkOf
<1>4. \A y \in LogLinks(l) : y.entry.term = t /\ n < y.index => y.prev = t
  BY <1>1, <1>3 DEF Ordered, Contiguous, IsLink
<1>5. l[n].term = t
  BY <1>2, <1>4, TermRun
<1>6. n \in 1 .. Len(p) /\ n <= Len(l) /\ p \in Seq(LogEntry)
  BY <1>1, <1>2, PrefixFields
<1> QED
  BY <1>1, <1>5, <1>6, AgreeNow DEF Has, TermOf

\* A server keeps what it has of p, in the term of p and later.
LEMMA AgreeStays ==
    ASSUME Sound, Core', Next, NEW p \in Prefix, Open(p), NEW n \in 1 .. Len(p),
           NEW q \in Server, srv[q].term >= TermOf(p), AgreeTo(Entries(q), p, n)
    PROVE  AgreeTo(Entries(q)', p, n)
<1>1. PICK l, r, t : l = Entries(q) /\ r = Entries(q)' /\ t = TermOf(p)
  OBVIOUS
<1>2. /\ l \in Seq(LogEntry) /\ Len(l) \in Nat /\ r \in Seq(LogEntry) /\ Len(r) \in Nat
      /\ n \in Nat /\ n # 0 /\ n <= Len(l) /\ n <= Len(p) /\ Len(p) \in Nat
      /\ \A i \in 1 .. n : l[i] = p[i]
  BY <1>1, StateTyped, LogNext, PrefixFields DEF Sound, AgreeTo
<1>3. srv[q].term \in Nat /\ t \in Nat
  BY <1>1, StateTyped, PrefixFields DEF Sound
<1> SUFFICES n <= Len(r) /\ \A i \in 1 .. n : r[i] = p[i]
  BY <1>1, <1>2 DEF AgreeTo
<1>4. CASE r = l
  BY <1>2, <1>4
<1>5. CASE \E x : r = Append(l, x)
  BY <1>2, <1>5
<1>6. CASE CopiesLog(q)
  <2>1. PICK f \in Server : /\ Leads(f, srv[q].term) /\ Len(r) = Len(Entries(f))
                            /\ \A i \in 1 .. Len(Entries(f)) : r[i] = Entries(f)[i]
    BY <1>1, <1>6, CopiesWhole
  <2>2. Has(f, p)
    BY <2>1 DEF Open, LeadersHave, Leads
  <2>3. n <= Len(Entries(f)) /\ \A i \in 1 .. n : Entries(f)[i] = p[i]
    BY <1>1, <1>2, <2>2 DEF Has, AgreeTo
  <2> QED
    BY <1>2, <2>1, <2>3
<1>7. CASE \E m \in msgs : TakesEntries(q, m)
  <2>1. PICK m \in msgs : TakesEntries(q, m)
    BY <1>7
  <2>2. PICK es, b : es = m.entries /\ b = m.lastIndex
    OBVIOUS
  <2>3. /\ m \in Requests /\ srv'[q].term = m.term /\ srv'[q].term >= srv[q].term
        /\ m \in FullRequest /\ es \in Seq(LogEntry) /\ Len(es) \in Nat /\ b \in Nat
        /\ \E c \in 1 .. Len(es) + 1 : Appended(l, es, b + 1, c, r)
    BY <1>1, <2>1, <2>2, TakesAppended, RequestFields DEF TakesEntries, Alone, Sound
  <2>4. Compat(m, p)
    <3>1. m.term >= t
      BY <1>1, <1>3, <2>3, RequestFields
    <3> QED
      BY <1>1, <2>3, <3>1 DEF Open, RequestsKeep
  <2>5. PICK c \in 1 .. Len(es) + 1 : AppendedAfter(l, es, b, c, r)
    BY <1>2, <2>3, AppendedAt
  <2>6. \A k \in 1 .. Len(es) : b + k <= n => l[b + k].term = es[k].term
    <3> SUFFICES ASSUME NEW k \in 1 .. Len(es), b + k <= n
                 PROVE  l[b + k] = es[k]
      OBVIOUS
    <3>1. es[k] = p[b + k]
      BY <1>1, <1>2, <2>2, <2>3, <2>4 DEF Compat
    <3>2. b + k \in 1 .. n
      BY <1>2, <2>3
    <3> QED
      BY <1>2, <3>1, <3>2
  <2>7. n <= Len(r) /\ \A j \in 1 .. n : r[j] = l[j]
    BY <1>2, <2>3, <2>5, <2>6, AppendedKeeps
  <2> QED
    BY <1>2, <2>7
<1>8. AppendsEntry(q) => \E x : r = Append(l, x)
  BY <1>1 DEF AppendsEntry
<1> QED
  BY <1>1, <1>4, <1>5, <1>6, <1>7, <1>8, LogChanges DEF Sound

LEMMA HasStays ==
    ASSUME Sound, Core', Next, NEW p \in Prefix, Open(p),
           NEW q \in Server, srv[q].term >= TermOf(p), Has(q, p)
    PROVE  Has(q, p)'
<1>1. PICK n : n = Len(p)
  OBVIOUS
<1>2. n \in 1 .. Len(p) /\ AgreeTo(Entries(q), p, n)
  BY <1>1, PrefixFields DEF Has
<1>3. AgreeTo(Entries(q)', p, n)
  BY <1>2, AgreeStays
<1> QED
  BY <1>1, <1>3 DEF Has

\* What a server has taken from a request agrees with p, as far as the request has compared
\* and brought.
LEMMA TakenAgrees ==
    ASSUME Sound, Sound', Next, Ordered, NEW p \in Prefix, Open(p),
           NEW w \in Server, Has(w, p), Has(w, p)',
           NEW q \in Server, NEW m \in msgs, TakesEntries(q, m), m.term >= TermOf(p),
           NEW j \in 1 .. Len(p), j <= m.lastIndex + Len(m.entries)
    PROVE  AgreeTo(Entries(q)', p, j)
<1>1. PICK l, r, es, b, n, t : /\ l = Entries(q) /\ r = Entries(q)' /\ n = Len(p)
                               /\ t = TermOf(p) /\ es = m.entries /\ b = m.lastIndex
  OBVIOUS
<1>2. /\ l \in Seq(LogEntry) /\ Len(l) \in Nat /\ r \in Seq(LogEntry) /\ Len(r) \in Nat
      /\ n \in Nat /\ n # 0 /\ t \in Nat /\ j \in 1 .. n
  BY <1>1, StateTyped, LogNext, PrefixFields DEF Sound
<1>3. /\ m \in Requests /\ m \in FullRequest /\ es \in Seq(LogEntry) /\ Len(es) \in Nat /\ b \in Nat
      /\ b + 1 \in 1 .. Len(l) + 1 /\ LogOk(srv[q].log, m) /\ m.lastTerm \in Nat
      /\ \E c \in 1 .. Len(es) + 1 : Appended(l, es, b + 1, c, r)
  BY <1>1, TakesAppended, RequestFields, Bounds DEF TakesEntries, Sound
<1>4. Compat(m, p)
  BY <1>1, <1>3 DEF Open, RequestsKeep
<1>5. PICK c \in 1 .. Len(es) + 1 : Appended(l, es, b + 1, c, r)
  BY <1>3
<1>6. AppendedAfter(l, es, b, c, r) /\ b <= Len(l)
  BY <1>2, <1>3, <1>5, AppendedAt
<1>7. b + Len(es) <= Len(r)
  <2>1. PICK i : i = b + 1
    OBVIOUS
  <2>2. i \in 1 .. Len(l) + 1 /\ Appended(l, es, i, c, r)
    BY <1>3, <1>5, <2>1
  <2>3. Len(r) >= i - 1 + Len(es)
    BY <1>2, <1>3, <2>2, AppendedFrom
  <2>4. PICK len, size : len = Len(es) /\ size = Len(r)
    OBVIOUS
  <2>5. b \in Nat /\ len \in Nat /\ size \in Nat /\ i = b + 1 /\ size >= i - 1 + len
    BY <1>2, <1>3, <2>1, <2>3, <2>4
  <2>6. b + len <= size
    BY <2>5
  <2> QED
    BY <2>4, <2>6
<1>8. j <= Len(r) /\ b <= Len(r)
  <2>1. PICK len, size : len = Len(es) /\ size = Len(r)
    OBVIOUS
  <2>2. /\ b \in Nat /\ len \in Nat /\ size \in Nat /\ j \in Nat
        /\ j <= b + len /\ b + len <= size
    BY <1>1, <1>2, <1>3, <1>7, <2>1
  <2>3. j <= size /\ b <= size
    BY <2>2
  <2> QED
    BY <2>1, <2>3
<1>9. CASE j > b
  <2>1. PICK k \in 1 .. Len(es) : j = b + k
    <3>1. PICK len : len = Len(es)
      OBVIOUS
    <3>2. j \in Nat /\ b \in Nat /\ len \in Nat /\ j > b /\ j <= b + len
      BY <1>1, <1>2, <1>3, <1>9, <3>1
    <3>3. PICK k : k = j - b
      OBVIOUS
    <3>4. k \in 1 .. len /\ j = b + k
      BY <3>2, <3>3
    <3> QED
      BY <3>1, <3>4
  <2>2. es[k] = p[j]
    BY <1>1, <1>2, <1>4, <2>1 DEF Compat
  <2>3. r[b + k].term = es[k].term
    <3>1. k \in 1 .. c - 1 \/ k \in c .. Len(es)
      BY <1>3, <1>5
    <3> QED
      BY <1>6, <3>1 DEF AppendedAfter
  <2>4. AgreeTo(Entries(w)', p, j)
    BY <1>1, <1>2 DEF Has, AgreeTo
  <2> QED
    BY <1>1, <1>2, <1>8, <2>1, <2>2, <2>3, <2>4, PrefixFields, AgreeNext DEF Sound, Agreement
<1>10. \A i \in 1 .. b : r[i] = l[i]
  BY <1>6 DEF AppendedAfter
<1>11. b # 0 => l[b].term = m.lastTerm
  <2>1. srv[q].log \in FullLog /\ srv[q].log.entries = l
    BY <1>1, StateTyped, StateFields DEF Sound, Entries
  <2>2. b \in 0 .. Len(l)
    BY <1>2, <1>3, <1>6
  <2> QED
    BY <1>1, <1>3, <2>1, <2>2, TermAtFacts DEF LogOk
<1>12. CASE j <= b /\ b <= n
  <2>1. b \in 1 .. n /\ b # 0
    BY <1>2, <1>3, <1>12
  <2>2. l[b].term = p[b].term
    BY <1>1, <1>4, <1>11, <2>1 DEF Compat
  <2>3. AgreeTo(Entries(w), p, b)
    BY <1>1, <1>2, <2>1 DEF Has, AgreeTo
  <2>4. AgreeTo(l, p, b)
    BY <1>1, <1>6, <2>1, <2>2, <2>3, PrefixFields, AgreeNow DEF Sound, Agreement
  <2>5. \A i \in 1 .. j : r[i] = p[i]
    BY <1>2, <1>3, <1>10, <1>12, <2>4 DEF AgreeTo
  <2> QED
    BY <1>1, <1>2, <1>8, <2>5 DEF AgreeTo
<1>13. CASE j <= b /\ b > n
  <2>1. b # 0 /\ b \in n .. Len(l) /\ b \in 1 .. Len(l)
    BY <1>2, <1>3, <1>6, <1>13
  <2>2. l[b].term \in Nat /\ l[b].term >= t
    BY <1>1, <1>2, <1>4, <1>3, <1>11, <1>13, <2>1 DEF Compat
  <2>3. Has(q, p)
    <3>1. CASE l[b].term = t
      BY <1>1, <2>1, <3>1, RunHas DEF Sound, Agreement
    <3>2. CASE l[b].term > t
      BY <1>1, <2>1, <3>2 DEF Open, InLaterLogs
    <3> QED
      BY <1>2, <2>2, <3>1, <3>2
  <2>4. \A i \in 1 .. n : l[i] = p[i]
    BY <1>1, <2>3 DEF Has, AgreeTo
  <2>5. \A i \in 1 .. j : r[i] = p[i]
    BY <1>2, <1>3, <1>10, <1>13, <2>4
  <2> QED
    BY <1>1, <1>2, <1>8, <2>5 DEF AgreeTo
<1> QED
  BY <1>2, <1>3, <1>9, <1>12, <1>13

-----------------------------------------------------------------------------
(* Elections, and what they leave of an open log. *)

LEMMA LeadsOrElected ==
    ASSUME Core, Next, NEW q \in Server, srv'[q].role = "Leader"
    PROVE  \/ Leads(q, srv'[q].term)
           \/ srv[q].role = "Follower" /\ \E Q \in SUBSET Server : Elect(q, Q)
<1> SUFFICES ASSUME ~\E Q \in SUBSET Server : Elect(q, Q)
             PROVE  Leads(q, srv'[q].term)
  BY DEF Elect
<1>1. PICK s \in Server :
          \/ \E Q \in SUBSET Server : Elect(s, Q)
          \/ Publish(s)
          \/ \E p \in Server : Heartbeat(s, p) \/ LoseConnection(s, p)
          \/ StepDown(s)
          \/ \E m \in msgs : HandleRequest(s, m) \/ HandleResponse(s, m)
          \/ ApplyTransfer(s)
          \/ CompleteTransfer(s)
  BY DEF Next
<1>2. CASE \E Q \in SUBSET Server : Elect(s, Q)
  <2>1. PICK Q \in SUBSET Server : WinsElection(s, Q)
    BY <1>2, ElectDoes
  <2>2. q # s
    BY <1>2
  <2>3. srv'[q] = srv[q]
    BY <2>1, <2>2 DEF WinsElection
  <2> QED
    BY <2>3 DEF Leads
<1>3. CASE ~\E Q \in SUBSET Server : Elect(s, Q)
  <2>1. SameLogs(s) \/ AppendsEntry(s) \/ CopiesLog(s)
        \/ \E m \in msgs : RefusesRequest(s, m) \/ TakesEntries(s, m)
    BY <1>1, <1>3, PublishDoes, HeartbeatDoes, LoseConnectionDoes, StepDownDoes,
       HandleRequestDoes, HandleResponseDoes, ApplyTransferDoes, CompleteTransferDoes
  <2>2. Alone(s)
    BY <2>1 DEF SameLogs, AppendsEntry, CopiesLog, RefusesRequest, TakesEntries
  <2> QED
    BY <2>2, AloneGives
<1> QED
  BY <1>2, <1>3

LEMMA LastTermIs ==
    ASSUME NEW l \in FullLog
    PROVE  /\ LastIndex(l) = Len(l.entries)
           /\ LastTerm(l) = IF Len(l.entries) = 0 THEN 0 ELSE l.entries[Len(l.entries)].term
<1>1. l.entries \in Seq(LogEntry) /\ l.start = 1 /\ l.aged = 0 /\ Len(l.entries) \in Nat
  BY DEF FullLog
<1>2. l.entries = <<>> <=> Len(l.entries) = 0
  BY <1>1, EmptySeq
<1> QED
  BY <1>1, <1>2 DEF LastIndex, LastTerm, EndIndex, Last

\* One that a voter with p has elected has p.
LEMMA ElectedHas ==
    ASSUME Core, LinksAgree, Ordered, NEW p \in Prefix, InLaterLogs(p),
           NEW s \in Server, NEW Q \in SUBSET Server, Elect(s, Q), NEW v \in Q, Has(v, p)
    PROVE  Has(s, p)
<1>1. PICK l, y, n, t : l = Entries(s) /\ y = Entries(v) /\ n = Len(p) /\ t = TermOf(p)
  OBVIOUS
<1>2. /\ l \in Seq(LogEntry) /\ Len(l) \in Nat /\ y \in Seq(LogEntry) /\ Len(y) \in Nat
      /\ n \in Nat /\ n # 0 /\ t \in Nat /\ t # 0
      /\ srv[s].log \in FullLog /\ srv[v].log \in FullLog
      /\ srv[s].log.entries = l /\ srv[v].log.entries = y
  BY <1>1, StateTyped, StateFields, PrefixFields DEF Entries
<1>3. \/ LastTerm(srv[s].log) > LastTerm(srv[v].log)
      \/ /\ LastTerm(srv[s].log) = LastTerm(srv[v].log)
         /\ LastIndex(srv[s].log) >= LastIndex(srv[v].log)
  BY DEF Elect
<1>4. n <= Len(y) /\ y[n].term = t /\ n \in 1 .. Len(y) /\ Len(y) \in n .. Len(y)
  BY <1>1, <1>2, PrefixFields DEF Has, AgreeTo, TermOf
<1>5. y[n].term <= y[Len(y)].term /\ y[Len(y)].term \in Nat
  BY <1>1, <1>2, <1>4, RisesNow, EntryTerm DEF Ordered
<1>6. LastTerm(srv[v].log) = y[Len(y)].term /\ LastIndex(srv[v].log) = Len(y)
  BY <1>2, <1>4, LastTermIs
<1>7. /\ LastTerm(srv[s].log) = IF Len(l) = 0 THEN 0 ELSE l[Len(l)].term
      /\ LastIndex(srv[s].log) = Len(l)
  BY <1>2, LastTermIs
<1>8. PICK a, b, u : a = Len(l) /\ b = y[Len(y)].term /\ u = LastTerm(srv[s].log)
  OBVIOUS
<1>9. a # 0 /\ l[a].term = u /\ a \in 1 .. Len(l) /\ u \in Nat
  <2>1. CASE a = 0
    <3>1. u = 0 /\ b \in Nat /\ b >= t
      BY <1>4, <1>5, <1>7, <1>8, <2>1
    <3> QED
      BY <1>2, <1>3, <1>6, <1>8, <3>1
  <2>2. CASE a # 0
    <3>1. a \in 1 .. Len(l)
      BY <1>2, <1>8, <2>2
    <3> QED
      BY <1>2, <1>7, <1>8, <2>2, <3>1, EntryTerm
  <2> QED
    BY <2>1, <2>2
<1>10. CASE u > t
  BY <1>1, <1>9, <1>10 DEF InLaterLogs
<1>11. CASE ~(u > t)
  <2>1. u = t /\ a >= Len(y)
    <3>1. b \in Nat /\ b >= t /\ (u > b \/ (u = b /\ a >= Len(y)))
      BY <1>2, <1>3, <1>4, <1>5, <1>6, <1>7, <1>8
    <3> QED
      BY <1>2, <1>9, <1>11, <3>1
  <2>2. a \in n .. Len(l)
    BY <1>2, <1>4, <1>8, <2>1
  <2> QED
    BY <1>1, <1>9, <2>1, <2>2, RunHas
<1> QED
  BY <1>10, <1>11

\* A server is elected by voters none of whom has p.
Escapes(p) == \E s \in Server : \E Q \in SUBSET Server : Elect(s, Q) /\ \A v \in Q : ~Has(v, p)

LEMMA LeadersHaveKept ==
    ASSUME Sound, Sound', Next, Ordered, NEW p \in Prefix, Open(p), ~Escapes(p)
    PROVE  LeadersHave(p)'
<1> SUFFICES ASSUME NEW q \in Server, srv'[q].role = "Leader", srv'[q].term >= TermOf(p)
             PROVE  Has(q, p)'
  BY DEF LeadersHave, TermOf
<1>1. CASE Leads(q, srv'[q].term)
  <2>1. srv[q].term >= TermOf(p) /\ Has(q, p)
    BY <1>1 DEF Leads, Open, LeadersHave
  <2> QED
    BY <2>1, HasStays DEF Sound
<1>2. CASE \E Q \in SUBSET Server : Elect(q, Q)
  <2>1. PICK Q \in SUBSET Server : Elect(q, Q)
    BY <1>2
  <2>2. PICK v \in Q : Has(v, p)
    BY <2>1 DEF Escapes
  <2>3. Has(q, p)
    BY <2>1, <2>2, ElectedHas DEF Sound, Agreement, Open
  <2>4. PICK l, r, n : l = Entries(q) /\ r = Entries(q)' /\ n = Len(p)
    OBVIOUS
  <2>5. r = l \/ \E x : r = Append(l, x)
    BY <2>1, <2>4, ElectDoes DEF Sound, WinsElection
  <2>6. /\ l \in Seq(LogEntry) /\ Len(l) \in Nat /\ n \in Nat /\ n <= Len(l)
        /\ \A i \in 1 .. n : l[i] = p[i]
    BY <2>3, <2>4, StateTyped, PrefixFields DEF Has, AgreeTo, Sound
  <2>7. n <= Len(r) /\ \A i \in 1 .. n : r[i] = p[i]
    BY <2>5, <2>6
  <2> QED
    BY <2>4, <2>6, <2>7 DEF Has, AgreeTo
<1> QED
  BY <1>1, <1>2, LeadsOrElected DEF Sound

LEMMA InLaterLogsKept ==
    ASSUME Sound, Sound', Next, Ordered, Ordered', NEW p \in Prefix, Open(p), LeadersHave(p)',
           NEW w \in Server, Has(w, p), Has(w, p)'
    PROVE  InLaterLogs(p)'
<1> SUFFICES ASSUME NEW q \in Server, NEW i \in 1 .. Len(Entries(q)'),
                    Entries(q)'[i].term > TermOf(p)
             PROVE  Has(q, p)'
  BY DEF InLaterLogs, TermOf
<1>1. PICK l, r, n, t : l = Entries(q) /\ r = Entries(q)' /\ n = Len(p) /\ t = TermOf(p)
  OBVIOUS
<1>2. /\ l \in Seq(LogEntry) /\ Len(l) \in Nat /\ r \in Seq(LogEntry) /\ Len(r) \in Nat
      /\ n \in Nat /\ n # 0 /\ t \in Nat
  BY <1>1, StateTyped, LogNext, PrefixFields DEF Sound
<1>3. /\ r[i].term > t /\ r[i].term \in Nat /\ r[i].term <= srv'[q].term
      /\ srv'[q].term \in Nat /\ srv[q].term \in Nat
  <2>1. r[i].term \in Nat /\ r[i].term <= srv'[q].term
    BY <1>1, <1>2, EntryTerm DEF Ordered, Below
  <2> QED
    BY <1>1, <2>1, StateTyped, LogNext DEF Sound
<1>4. srv'[q].term > t
  BY <1>2, <1>3
<1>5. CASE r = l
  <2>1. Has(q, p)
    BY <1>1, <1>3, <1>5 DEF Open, InLaterLogs
  <2> QED
    BY <1>1, <1>5, <2>1 DEF Has
<1>6. CASE srv'[q].role = "Leader"
  <2>1. srv'[q].term >= t
    BY <1>2, <1>3, <1>4
  <2> QED
    BY <1>1, <1>6, <2>1 DEF LeadersHave, TermOf
<1>7. CASE CopiesLog(q)
  <2>1. PICK f \in Server : /\ Leads(f, srv[q].term) /\ Len(r) = Len(Entries(f))
                            /\ \A k \in 1 .. Len(Entries(f)) : r[k] = Entries(f)[k]
    BY <1>1, <1>7, CopiesWhole
  <2>2. srv[f].term >= t
    <3>1. srv'[q].term = srv[q].term /\ srv[f].term = srv[q].term
      BY <1>7, <2>1 DEF CopiesLog, Leads
    <3> QED
      BY <1>2, <1>3, <1>4, <3>1
  <2>3. Has(f, p)
    BY <1>1, <2>1, <2>2 DEF Open, LeadersHave, Leads
  <2>4. n <= Len(r) /\ \A k \in 1 .. n : r[k] = p[k]
    BY <1>1, <1>2, <2>1, <2>3 DEF Has, AgreeTo
  <2> QED
    BY <1>1, <1>2, <2>4 DEF Has, AgreeTo
<1>8. CASE \E m \in msgs : TakesEntries(q, m)
  <2>1. PICK m \in msgs : TakesEntries(q, m)
    BY <1>8
  <2>2. PICK es, b : es = m.entries /\ b = m.lastIndex
    OBVIOUS
  <2>3. /\ m \in Requests /\ srv'[q].term = m.term
        /\ m \in FullRequest /\ es \in Seq(LogEntry) /\ Len(es) \in Nat /\ b \in Nat
        /\ b + 1 \in 1 .. Len(l) + 1
        /\ \E c \in 1 .. Len(es) + 1 : Appended(l, es, b + 1, c, r)
    BY <1>1, <2>1, <2>2, TakesAppended, RequestFields DEF TakesEntries, Sound
  <2>4. m.term >= t
    BY <1>2, <1>3, <1>4, <2>3
  <2>5. Compat(m, p)
    BY <1>1, <2>3, <2>4 DEF Open, RequestsKeep
  <2>6. \/ i \in 1 .. Len(l) /\ r[i] = l[i]
        \/ \E k \in 1 .. Len(es) : i = b + k /\ r[i] = es[k]
    <3>1. PICK j : j = b + 1
      OBVIOUS
    <3>2. PICK c \in 1 .. Len(es) + 1 : Appended(l, es, j, c, r)
      BY <2>3, <3>1
    <3>3. es \in Seq(LogEntry) /\ j \in 1 .. Len(l) + 1 /\ l \in Seq(LogEntry) /\ r \in Seq(LogEntry)
      BY <1>2, <2>3, <3>1
    <3>4. \A k \in 1 .. Len(r) : \/ k \in 1 .. Len(l) /\ r[k] = l[k]
                                 \/ \E h \in 1 .. Len(es) : k = j - 1 + h /\ r[k] = es[h]
      BY <3>2, <3>3, AppendedFrom, ZenonT(30)
    <3>5. j - 1 = b
      BY <2>3, <3>1
    <3> QED
      BY <1>1, <3>4, <3>5
  <2>7. CASE i \in 1 .. Len(l) /\ r[i] = l[i]
    <3>1. Has(q, p)
      BY <1>1, <1>3, <2>7 DEF Open, InLaterLogs
    <3>2. srv[q].term >= t
      <4>1. l[i].term <= srv[q].term
        BY <1>1, <2>7 DEF Ordered, Below
      <4> QED
        BY <1>2, <1>3, <2>7, <4>1
    <3> QED
      BY <1>1, <3>1, <3>2, HasStays DEF Sound
  <2>8. CASE \E k \in 1 .. Len(es) : i = b + k /\ r[i] = es[k]
    <3>1. PICK k \in 1 .. Len(es) : i = b + k /\ r[i] = es[k]
      BY <2>8
    <3>2. i > n
      <4>1. ASSUME i <= n PROVE FALSE
        <5>1. es[k] = p[i]
          BY <1>1, <2>2, <2>5, <3>1, <4>1 DEF Compat
        <5>2. i \in 1 .. Len(Entries(w)) /\ n \in i .. Len(Entries(w))
              /\ Entries(w)[i] = p[i] /\ Entries(w)[n] = p[n]
          BY <1>1, <1>2, <4>1, StateTyped DEF Has, AgreeTo, Sound
        <5>3. p[i].term <= p[n].term
          BY <5>2, RisesNow DEF Ordered, Sound
        <5>4. p[n].term = t
          BY <1>1 DEF TermOf
        <5> QED
          BY <1>2, <1>3, <3>1, <5>1, <5>3, <5>4
      <4> QED
        BY <1>2, <4>1
    <3>3. n <= b + Len(es)
      <4>1. PICK len : len = Len(es)
        OBVIOUS
      <4>2. n <= b + len
        BY <1>2, <2>3, <3>1, <3>2, <4>1
      <4> QED
        BY <4>1, <4>2
    <3>4. n \in 1 .. Len(p)
      BY <1>1, PrefixFields
    <3>5. AgreeTo(r, p, n)
      BY <1>1, <2>1, <2>2, <2>4, <3>3, <3>4, TakenAgrees
    <3> QED
      BY <1>1, <3>5 DEF Has
  <2> QED
    BY <2>6, <2>7, <2>8
<1>9. AppendsEntry(q) => srv'[q].role = "Leader"
  BY DEF AppendsEntry
<1>10. (\E Q \in SUBSET Server : WinsElection(q, Q)) => srv'[q].role = "Leader"
  BY DEF WinsElection
<1> QED
  BY <1>1, <1>5, <1>6, <1>7, <1>8, <1>9, <1>10, LogChanges DEF Sound

LEMMA RequestsKeepKept ==
    ASSUME Sound, Sound', Next, Ordered', NEW p \in Prefix, Open(p), LeadersHave(p)'
    PROVE  RequestsKeep(p)'
<1> SUFFICES ASSUME NEW m \in Requests', m.term >= TermOf(p)
             PROVE  Compat(m, p)
  BY DEF RequestsKeep, TermOf, Compat
<1>1. CASE m \in Requests
  BY <1>1 DEF Open, RequestsKeep
<1>2. CASE \E s \in Server : srv'[s].role = "Leader" /\ RequestOf(s, srv'[s], m)
  <2>1. PICK s \in Server : srv'[s].role = "Leader" /\ RequestOf(s, srv'[s], m)
    BY <1>2
  <2>2. PICK r, es, b, n, t : /\ r = Entries(s)' /\ es = m.entries /\ b = m.lastIndex
                              /\ n = Len(p) /\ t = TermOf(p)
    OBVIOUS
  <2>3. /\ m \in FullRequest /\ m.term = srv'[s].term
        /\ b + Len(es) <= Len(r) /\ m.lastTerm = TermAt(srv'[s].log, b)
        /\ \A k \in 1 .. Len(es) : es[k] = r[b + k]
    BY <2>1, <2>2 DEF RequestOf, InLog, Entries
  <2>4. /\ r \in Seq(LogEntry) /\ Len(r) \in Nat /\ b \in Nat /\ Len(es) \in Nat
        /\ n \in Nat /\ n # 0 /\ t \in Nat
    BY <2>2, <2>3, LogNext, RequestFields, PrefixFields DEF Sound
  <2>5. n <= Len(r) /\ \A i \in 1 .. n : r[i] = p[i]
    <3>1. Has(s, p)'
      BY <2>1, <2>3 DEF LeadersHave, TermOf
    <3> QED
      BY <2>2, <3>1 DEF Has, AgreeTo
  <2>6. b \in 0 .. Len(r) /\ (b # 0 => m.lastTerm = r[b].term)
    <3>1. b \in 0 .. Len(r)
      BY <2>3, <2>4
    <3>2. srv'[s].log \in FullLog /\ srv'[s].log.entries = r
      BY <2>2, LogNext, StateFields DEF Sound, Entries
    <3> QED
      BY <2>3, <3>1, <3>2, TermAtFacts
  <2>7. b \in 1 .. n => m.lastTerm = p[b].term
    BY <2>4, <2>5, <2>6
  <2>8. b >= n => m.lastTerm >= t
    <3> SUFFICES ASSUME b >= n PROVE m.lastTerm >= t
      OBVIOUS
    <3>1. n \in 1 .. Len(r) /\ b \in n .. Len(r) /\ b # 0 /\ n \in 1 .. n
      BY <2>4, <2>6
    <3>2. r[n].term <= r[b].term
      BY <2>2, <3>1, RisesNext DEF Sound, Ordered
    <3>3. r[n].term = t
      BY <2>2, <2>5, <3>1 DEF TermOf
    <3>4. r[b].term \in Nat
      BY <2>4, <2>6, <3>1, EntryTerm
    <3> QED
      BY <2>4, <2>6, <3>1, <3>2, <3>3, <3>4
  <2>9. \A k \in 1 .. Len(es) : b + k <= n => es[k] = p[b + k]
    <3> SUFFICES ASSUME NEW k \in 1 .. Len(es), b + k <= n
                 PROVE  es[k] = p[b + k]
      OBVIOUS
    <3>1. b + k \in 1 .. n
      BY <2>4
    <3> QED
      BY <2>3, <2>5, <3>1
  <2> QED
    BY <2>2, <2>7, <2>8, <2>9 DEF Compat
<1> QED
  BY <1>1, <1>2, NewRequests DEF Sound

\* An open log stays open, unless a majority that does not have it elects a leader.
LEMMA OpenStays ==
    ASSUME Sound, Sound', Next, Ordered, Ordered', NEW p \in Prefix, Open(p), ~Escapes(p),
           NEW w \in Server, srv[w].term >= TermOf(p), Has(w, p)
    PROVE  Open(p)'
<1>1. Has(w, p)'
  BY HasStays DEF Sound
<1>2. LeadersHave(p)'
  BY LeadersHaveKept
<1>3. InLaterLogs(p)'
  BY <1>1, <1>2, InLaterLogsKept
<1>4. RequestsKeep(p)'
  BY <1>2, RequestsKeepKept
<1> QED
  BY <1>2, <1>3, <1>4 DEF Open

-----------------------------------------------------------------------------
(* What commits. *)

\* It has committed up to where it knows it may and has the entries, if it has.
CommitsOn(e, f) ==
    /\ \/ f.commit = e.commit
       \/ e.commit < f.commit /\ f.commit <= f.quick /\ f.commit <= Len(f.log.entries)
    /\ \A p \in Server : f.peers[p].matched = e.peers[p].matched

LEMMA PeersSame ==
    ASSUME NEW e \in FullState, NEW ps \in [Server -> Peer],
           \A p \in Server : ps[p].matched = e.peers[p].matched
    PROVE  SameCommit(e, [e EXCEPT !.peers = ps])
<1>1. [e EXCEPT !.peers = ps].peers = ps /\ [e EXCEPT !.peers = ps].quick = e.quick
      /\ [e EXCEPT !.peers = ps].commit = e.commit
  BY DEF FullState
<1> QED
  BY <1>1 DEF SameCommit

LEMMA SendToSame ==
    ASSUME NEW e \in FullState, NEW P
    PROVE  SameCommit(e, SendTo(e, P))
<1> DEFINE ps == [p \in Server |->
              IF p \in P /\ e.peers[p].link = "idle" THEN [e.peers[p] EXCEPT !.link = "busy"]
                                                     ELSE e.peers[p]]
<1>1. \A p \in Server : ps[p] \in Peer /\ ps[p].matched = e.peers[p].matched
  BY StateFields DEF Peer
<1>2. ps \in [Server -> Peer]
  BY <1>1
<1>3. SendTo(e, P) = [e EXCEPT !.peers = ps]
  BY DEF SendTo
<1> HIDE DEF ps
<1> QED
  BY <1>1, <1>2, <1>3, PeersSame

LEMMA LinkSame ==
    ASSUME NEW e \in FullState, NEW p \in Server, NEW to \in {"down", "idle"}
    PROVE  SameCommit(e, [e EXCEPT !.peers[p].link = to])
<1> DEFINE ps == [e.peers EXCEPT ![p].link = to]
<1>1. \A q \in Server : ps[q] \in Peer /\ ps[q].matched = e.peers[q].matched
  BY StateFields DEF Peer
<1>2. ps \in [Server -> Peer]
  BY <1>1, StateFields
<1>3. [e EXCEPT !.peers[p].link = to] = [e EXCEPT !.peers = ps]
  BY DEF FullState
<1> HIDE DEF ps
<1> QED
  BY <1>1, <1>2, <1>3, PeersSame

LEMMA SameIsSame == ASSUME NEW e PROVE SameCommit(e, e)
BY DEF SameCommit

LEMMA SameJoins ==
    ASSUME NEW e, NEW f, NEW g, SameCommit(e, f), SameCommit(f, g)
    PROVE  SameCommit(e, g)
BY DEF SameCommit

LEMMA AnsweredSame ==
    ASSUME NEW e \in FullState, NEW p \in Server
    PROVE  SameCommit(e, Answered(e, p))
BY LinkSame, SameIsSame DEF Answered

LEMMA SeeTermSame ==
    ASSUME NEW e \in FullState, NEW t \in Term
    PROVE  SameCommit(e, SeeTerm(e, t))
<1>1. CASE t > e.term
  <2> DEFINE g == [e EXCEPT !.term = t]
             ps == [p \in Server |-> [g.peers[p] EXCEPT !.link = "down"]]
             h == [g EXCEPT !.role = "Follower"]
  <2>1. /\ g \in FullState /\ g.peers = e.peers /\ g.quick = e.quick /\ g.commit = e.commit
        /\ h \in FullState /\ h.peers = e.peers /\ h.quick = e.quick /\ h.commit = e.commit
    BY DEF FullState
  <2>2. \A q \in Server : ps[q] \in Peer /\ ps[q].matched = e.peers[q].matched
    <3> HIDE DEF g
    <3> QED
      BY <2>1, StateFields DEF Peer
  <2>3. ps \in [Server -> Peer]
    BY <2>2
  <2>4. SeeTerm(e, t) = [h EXCEPT !.peers = ps]
    BY <1>1 DEF SeeTerm, BecomeFollower, FullState
  <2> HIDE DEF g, ps, h
  <2>5. SameCommit(h, SeeTerm(e, t))
    BY <2>1, <2>2, <2>3, <2>4, PeersSame
  <2> QED
    BY <2>1, <2>5 DEF SameCommit
<1>2. CASE ~(t > e.term)
  BY <1>2, SameIsSame DEF SeeTerm
<1> QED
  BY <1>1, <1>2

LEMMA BecomeFollowerSame ==
    ASSUME NEW e \in FullState
    PROVE  SameCommit(e, BecomeFollower(e))
<1> DEFINE ps == [p \in Server |-> [e.peers[p] EXCEPT !.link = "down"]]
           h == [e EXCEPT !.role = "Follower"]
<1>1. h \in FullState /\ h.peers = e.peers /\ h.quick = e.quick /\ h.commit = e.commit
  BY DEF FullState
<1>2. \A q \in Server : ps[q] \in Peer /\ ps[q].matched = e.peers[q].matched
  BY StateFields DEF Peer
<1>3. ps \in [Server -> Peer]
  BY <1>2
<1>4. BecomeFollower(e) = [h EXCEPT !.peers = ps]
  BY DEF BecomeFollower, FullState
<1> HIDE DEF ps, h
<1>5. SameCommit(h, BecomeFollower(e))
  BY <1>1, <1>2, <1>3, <1>4, PeersSame
<1> QED
  BY <1>1, <1>5 DEF SameCommit

LEMMA LocalCommitOn ==
    ASSUME NEW e \in FullState
    PROVE  CommitsOn(e, LocalCommit(e)) /\ LocalCommit(e).quick = e.quick
<1> DEFINE n == Min({e.quick, LastIndex(e.log)})
<1>1. /\ e.quick \in Nat /\ e.commit \in Nat /\ n \in Nat
      /\ n <= e.quick /\ n <= Len(e.log.entries) /\ Len(e.log.entries) \in Nat
  <2>1. /\ e.quick \in Nat /\ LastIndex(e.log) \in Nat /\ e.commit \in Nat
        /\ LastIndex(e.log) = Len(e.log.entries)
    BY StateFields, Bounds
  <2> QED
    BY <2>1, MinOfTwo
<1> DEFINE c == Commit(e.log, n)
<1>2. LocalCommit(e) = IF n <= e.commit THEN e ELSE [e EXCEPT !.commit = n, !.log = c]
  BY DEF LocalCommit
<1> HIDE DEF n, c
<1>3. /\ [e EXCEPT !.commit = n, !.log = c].commit = n
      /\ [e EXCEPT !.commit = n, !.log = c].quick = e.quick
      /\ [e EXCEPT !.commit = n, !.log = c].peers = e.peers
  BY DEF FullState
<1>4. LocalCommit(e).log.entries = e.log.entries
  BY LocalCommitQuiet DEF Quiet, KeepsLog
<1> QED
  BY <1>1, <1>2, <1>3, <1>4 DEF CommitsOn

LEMMA CommitToOn ==
    ASSUME NEW s \in Server, NEW e \in FullState, NEW i \in Index
    PROVE  /\ CommitsOn(e, CommitTo(s, e, i))
           /\ CommitTo(s, e, i).quick \in {e.quick, i}
<1> DEFINE n == Max({e.quick, i})
           raised == [e EXCEPT !.quick = n]
           f == IF i > e.quick /\ e.role = "Leader" THEN SendTo(raised, Peers(s)) ELSE raised
<1>1. n \in Index /\ n \in {e.quick, i}
  <2>1. e.quick \in Index /\ e.quick \in Nat /\ i \in Nat
    BY StateFields, Bounds
  <2>2. n = e.quick \/ n = i
    BY <2>1, MaxOfTwo
  <2> QED
    BY <2>1, <2>2
<1> HIDE DEF n
<1>2. raised \in FullState /\ raised.quick = n /\ raised.commit = e.commit
      /\ raised.peers = e.peers
  BY <1>1 DEF FullState
<1> HIDE DEF raised
<1>4. f \in FullState /\ SameCommit(raised, f)
  BY <1>2, SendToQuiet, SendToSame, SameIsSame
<1>5. CommitTo(s, e, i) = LocalCommit(f)
  BY DEF CommitTo, n, raised
<1> HIDE DEF f
<1>6. CommitsOn(f, LocalCommit(f)) /\ LocalCommit(f).quick = f.quick
  BY <1>4, LocalCommitOn
<1> QED
  BY <1>1, <1>2, <1>4, <1>5, <1>6 DEF CommitsOn, SameCommit

LEMMA RequestAppendEntriesOn ==
    ASSUME NEW s \in Server, NEW e \in FullState, Len(e.log.entries) \in Index
    PROVE  /\ CommitsOn(e, RequestAppendEntries(s, e))
           /\ \/ RequestAppendEntries(s, e).quick = e.quick
              \/ Server = {s} /\ RequestAppendEntries(s, e).quick = Len(e.log.entries)
<1>1. CASE Peers(s) = {}
  <2>1. LastIndex(e.log) = Len(e.log.entries)
    BY StateFields
  <2>2. RequestAppendEntries(s, e) = CommitTo(s, e, Len(e.log.entries))
    BY <1>1, <2>1 DEF RequestAppendEntries
  <2>3. Server = {s}
    BY <1>1 DEF Peers
  <2> QED
    BY <2>2, <2>3, CommitToOn
<1>2. CASE Peers(s) # {}
  <2>1. RequestAppendEntries(s, e) = SendTo(e, Peers(s))
    BY <1>2 DEF RequestAppendEntries
  <2> QED
    BY <2>1, SendToSame DEF SameCommit, CommitsOn
<1> QED
  BY <1>1, <1>2

-----------------------------------------------------------------------------
(* What a step does to what its server knows to be committed. *)

\* A majority has matched index i of the log that s has after the step.
MajorityCounts(s, i) ==
    \E V \in SUBSET Server :
        /\ 2 * Cardinality(V) > Cardinality(Server)
        /\ \A v \in V : i <= IF v = s THEN Len(Entries(s)') ELSE srv'[s].peers[v].matched

TakesRequest(s, m) == HandleRequest(s, m) /\ TakesEntries(s, m)

QuickComes(s) ==
    \/ srv'[s].quick = srv[s].quick
    \/ srv'[s].role = "Leader" /\ MajorityCounts(s, srv'[s].quick)
    \/ \E m \in msgs : TakesRequest(s, m) /\ srv'[s].quick = m.commit

CommitComes(s) ==
    \/ srv'[s].commit = srv[s].commit
    \/ /\ srv[s].commit < srv'[s].commit /\ srv'[s].commit <= srv'[s].quick
       /\ srv'[s].commit <= Len(Entries(s)')
       /\ srv'[s].role = "Leader" \/ \E m \in msgs : TakesRequest(s, m)

MatchedComes(s, p) ==
    \/ srv'[s].peers[p].matched = srv[s].peers[p].matched
    \/ \E m \in Responses : /\ m.to = s /\ m.from = p /\ m.accepted /\ Leads(s, m.term)
                            /\ srv'[s].peers[p].matched = m.next - 1

Commits(s) == QuickComes(s) /\ CommitComes(s) /\ \A p \in Server : MatchedComes(s, p)

LEMMA SameDoes ==
    ASSUME NEW s \in Server, SameCommit(srv[s], srv'[s])
    PROVE  Commits(s)
BY DEF SameCommit, Commits, QuickComes, CommitComes, MatchedComes

LEMMA AllCount ==
    ASSUME NEW s \in Server, Server = {s}
    PROVE  MajorityCounts(s, Len(Entries(s)'))
<1>1. PICK n : n = Len(Entries(s)')
  OBVIOUS
<1>2. Cardinality(Server) = 1
  BY FS_Singleton
<1>3. 2 * Cardinality({s}) > Cardinality(Server)
  BY <1>2
<1> QED
  BY <1>3 DEF MajorityCounts

LEMMA PublishCommits ==
    ASSUME Core, NEW s \in Server, Publish(s)
    PROVE  Commits(s)
<1> DEFINE e == srv[s]
           x == [term |-> e.term, type |-> "Application"]
           f == [e EXCEPT !.log = AppendTo(e.log, x)]
           g == RequestAppendEntries(s, f)
<1>1. e.role = "Leader" /\ EndIndex(e.log) <= MaxIndex /\ Step(s, f, g, {}, {})
  BY DEF Publish
<1>2. /\ e \in FullState /\ ServerOK(e) /\ e.term \in Nat /\ e.term <= MaxTerm
      /\ EndIndex(e.log) = Len(e.log.entries) + 1
      /\ e.log \in FullLog /\ e.log.entries \in Seq(LogEntry) /\ Len(e.log.entries) \in Nat
  BY StateTyped, StateFields, Bounds
<1>3. x \in LogEntry
  <2>1. e.term \in 1 .. MaxTerm
    BY <1>1, <1>2 DEF ServerOK
  <2> QED
    BY <2>1 DEF LogEntry
<1>4. /\ Append(e.log.entries, x) \in Seq(LogEntry)
      /\ Len(Append(e.log.entries, x)) = Len(e.log.entries) + 1
  BY <1>2, <1>3, AppendProperties
<1> HIDE DEF e, x
<1>5. /\ f \in FullState /\ f.log.entries = Append(e.log.entries, x)
      /\ f.role = e.role /\ f.peers = e.peers /\ f.quick = e.quick /\ f.commit = e.commit
  BY <1>2, <1>4 DEF AppendTo, FullState, FullLog
<1>6. Len(f.log.entries) \in Index
  <2>1. Len(f.log.entries) \in Nat /\ Len(f.log.entries) <= MaxIndex
    BY <1>1, <1>2, <1>4, <1>5
  <2> HIDE DEF f
  <2> QED
    BY <2>1, Bounds
<1> HIDE DEF f
<1>7. g \in FullState /\ Quiet(f, g)
  BY <1>5, <1>6, RequestAppendEntriesQuiet
<1>8. /\ CommitsOn(f, g)
      /\ g.quick = f.quick \/ (Server = {s} /\ g.quick = Len(f.log.entries))
  BY <1>5, <1>6, RequestAppendEntriesOn
<1> HIDE DEF g
<1>9. srv'[s] = g
  BY <1>1 DEF Step, Core, Typed
<1>10. g.role = "Leader" /\ Len(Entries(s)') = Len(f.log.entries)
  BY <1>1, <1>5, <1>7, <1>9 DEF Quiet, KeepsLog, Entries
<1>11. QuickComes(s)
  <2>1. CASE g.quick = f.quick
    BY <1>5, <1>9, <2>1 DEF QuickComes, e
  <2>2. CASE Server = {s} /\ g.quick = Len(f.log.entries)
    BY <1>9, <1>10, <2>2, AllCount DEF QuickComes
  <2> QED
    BY <1>8, <2>1, <2>2
<1>12. CommitComes(s) /\ \A p \in Server : MatchedComes(s, p)
  <2>1. Len(g.log.entries) = Len(Entries(s)')
    BY <1>7, <1>10 DEF Quiet, KeepsLog
  <2> QED
    BY <1>5, <1>8, <1>9, <1>10, <2>1 DEF CommitsOn, CommitComes, MatchedComes, e
<1> QED
  BY <1>11, <1>12 DEF Commits

LEMMA TimersCommit ==
    ASSUME Core, NEW s \in Server, NEW p \in Server,
           \/ Heartbeat(s, p) \/ LoseConnection(s, p) \/ StepDown(s) \/ CompleteTransfer(s)
           \/ ApplyTransfer(s)
    PROVE  Commits(s)
<1>1. srv[s] \in FullState
  BY StateTyped
<1>2. CASE Heartbeat(s, p)
  <2> DEFINE f == IF srv[s].peers[p].link = "down" THEN [srv[s] EXCEPT !.peers[p].link = "idle"]
                                                   ELSE srv[s]
  <2>1. f \in FullState /\ SameCommit(srv[s], f)
    BY <1>1, DisconnectedQuiet, LinkSame, SameIsSame
  <2>2. Step(s, f, SendTo(f, {p}), {}, {})
    BY <1>2 DEF Heartbeat
  <2> HIDE DEF f
  <2>3. srv'[s] = SendTo(f, {p})
    BY <2>2 DEF Step, Core, Typed
  <2>4. SameCommit(f, SendTo(f, {p}))
    BY <2>1, SendToSame
  <2> QED
    BY <2>1, <2>3, <2>4, SameJoins, SameDoes
<1>3. CASE LoseConnection(s, p)
  <2>1. srv'[s] = Disconnected(srv[s], p)
    BY <1>3 DEF LoseConnection, Core, Typed
  <2> QED
    BY <1>1, <2>1, LinkSame, SameDoes DEF Disconnected
<1>4. CASE StepDown(s)
  <2>1. srv'[s] = BecomeFollower(srv[s])
    BY <1>4 DEF StepDown, Core, Typed
  <2> QED
    BY <1>1, <2>1, BecomeFollowerSame, SameDoes
<1>5. CASE CompleteTransfer(s)
  <2>1. srv'[s] = [srv[s] EXCEPT !.transfer = NoTransfer]
    BY <1>5 DEF CompleteTransfer, Core, Typed
  <2>2. SameCommit(srv[s], [srv[s] EXCEPT !.transfer = NoTransfer])
    BY <1>1 DEF FullState, SameCommit
  <2> QED
    BY <2>1, <2>2, SameDoes
<1>6. CASE ApplyTransfer(s)
  <2> DEFINE e == srv[s]
             from == srv[e.transfer.from].log
             c == [from |-> e.transfer.start,
                   entries |-> SubSeq(from.entries, e.transfer.start - from.start + 1,
                                      Len(from.entries))]
  <2>1. srv' = [srv EXCEPT ![s].log = Write(e.log, c), ![s].transfer.applied = TRUE]
    BY <1>6 DEF ApplyTransfer
  <2> HIDE DEF c
  <2>2. PICK l, x : /\ l = Write(e.log, c) /\ x = [e.transfer EXCEPT !.applied = TRUE]
                    /\ srv' = [srv EXCEPT ![s] = [e EXCEPT !.log = l, !.transfer = x]]
    BY <1>1, <2>1 DEF Core, Typed, FullState
  <2>3. srv'[s] = [srv[s] EXCEPT !.log = l, !.transfer = x]
    BY <2>2 DEF Core, Typed
  <2>4. SameCommit(srv[s], [srv[s] EXCEPT !.log = l, !.transfer = x])
    BY <1>1 DEF FullState, SameCommit
  <2> QED
    BY <2>3, <2>4, SameDoes
<1> QED
  BY <1>2, <1>3, <1>4, <1>5, <1>6

LEMMA HandleRequestCommits ==
    ASSUME Core, NEW s \in Server, NEW m \in msgs, HandleRequest(s, m)
    PROVE  Commits(s)
<1>1. m.type = "Request" /\ m \in Requests /\ Typed
  BY DEF HandleRequest, Requests, Core
<1>2. m \in FullRequest
  BY <1>1, MessageKinds
<1> DEFINE e == SeeTerm(srv[s], m.term)
           asks == AsksTransfer(e.log, m)
           asked == [from |-> m.from, start |-> m.lastIndex + 1, applied |-> FALSE]
           refused == IF asks /\ e.transfer = NoTransfer THEN [e EXCEPT !.transfer = asked] ELSE e
           l == AppendEntries(e.log, m.entries, m.lastIndex + 1)
           f == [e EXCEPT !.log = l]
           g == CommitTo(s, f, m.commit)
<1>3. \/ asks \/ Refuses(e, m)
      \/ ~(asks \/ Refuses(e, m))
  OBVIOUS
<1>4. /\ e \in FullState /\ SameCommit(srv[s], e)
  BY <1>2, StateTyped, RequestFields, SeeTermKeeps, SeeTermSame
<1>5. CASE asks \/ Refuses(e, m)
  <2>1. \E a : Step(s, e, refused, {m}, {a})
    BY <1>5 DEF HandleRequest
  <2> HIDE DEF e, asks, asked
  <2>2. SameCommit(e, refused)
    <3>1. SameCommit(e, [e EXCEPT !.transfer = asked])
      BY <1>4 DEF FullState, SameCommit
    <3> QED
      BY <3>1, SameIsSame
  <2> HIDE DEF refused
  <2>3. srv'[s] = refused
    BY <2>1 DEF Step, Core, Typed
  <2> QED
    BY <1>4, <2>2, <2>3, SameJoins, SameDoes
<1>6. CASE ~(asks \/ Refuses(e, m))
  <2>1. \E a : Step(s, e, g, {m}, {a})
    BY <1>6 DEF HandleRequest
  <2>2. TakesEntries(s, m)
    BY <1>6, HandleRequestDoes DEF Accepts
  <2>3. l \in FullLog
    <3>1. e.log \in FullLog /\ m.entries \in Seq(LogEntry) /\ e.log = srv[s].log
          /\ e.log.entries = Entries(s)
      BY <1>2, <1>4, StateTyped, RequestFields, StateFields, SeeTermKeeps DEF Entries
    <3>2. m.lastIndex + 1 \in 1 .. Len(e.log.entries) + 1
      BY <2>2, <3>1, TakesAppended
    <3>3. PICK i : i = m.lastIndex + 1
      OBVIOUS
    <3>4. i \in 1 .. Len(e.log.entries) + 1
      BY <3>2, <3>3
    <3>5. AppendEntries(e.log, m.entries, i) \in FullLog
      BY <3>1, <3>4, AppendEntriesOK
    <3> QED
      BY <3>3, <3>5
  <2> HIDE DEF e, l, asks
  <2>4. f \in FullState /\ SameCommit(e, f)
    BY <1>4, <2>3 DEF FullState, SameCommit
  <2> HIDE DEF f
  <2>5. CommitsOn(f, g) /\ g.quick \in {f.quick, m.commit}
    BY <1>2, <2>4, RequestFields, CommitToOn
  <2> HIDE DEF g
  <2>6. srv'[s] = g
    BY <2>1 DEF Step, Core, Typed
  <2>7. TakesRequest(s, m)
    BY <2>2 DEF TakesRequest
  <2>8. SameCommit(srv[s], f)
    BY <1>4, <2>4, SameJoins
  <2>9. Len(Entries(s)') = Len(g.log.entries)
    BY <2>6 DEF Entries
  <2> QED
    BY <2>5, <2>6, <2>7, <2>8, <2>9
    DEF CommitsOn, SameCommit, Commits, QuickComes, CommitComes, MatchedComes
<1> QED
  BY <1>5, <1>6

LEMMA HandleResponseCommits ==
    ASSUME Core, NEW s \in Server, NEW m \in msgs, HandleResponse(s, m)
    PROVE  Commits(s)
<1>1. m \in FullResponse
  BY MessageKinds, RequestFields DEF HandleResponse, Core
<1>2. /\ m.from \in Server /\ m.term \in Term /\ m.term \in Nat
      /\ m.next \in Index \ {0} /\ m.next \in Nat
  BY <1>1, ResponseFields
<1>3. srv[s] \in FullState /\ srv[s].term \in Nat /\ Len(srv[s].log.entries) \in Index
  BY StateTyped DEF Entries
<1> DEFINE e == Answered(srv[s], m.from)
<1>4. e \in FullState /\ KeepsLog(srv[s], e) /\ SameCommit(srv[s], e)
  BY <1>2, <1>3, AnsweredQuiet, AnsweredSame DEF Quiet
<1>5. m \in Responses /\ m.to = s /\ (m.term = srv[s].term /\ srv[s].role = "Leader" => Leads(s, m.term))
  BY <1>1 DEF HandleResponse, Responses, FullResponse, Leads
<1>6. CASE ResponseOfOtherTerm(s, m)
  <2>1. srv'[s] = SeeTerm(e, m.term)
    BY <1>6 DEF ResponseOfOtherTerm, Step, Core, Typed
  <2> HIDE DEF e
  <2>2. SameCommit(e, SeeTerm(e, m.term))
    BY <1>2, <1>4, SeeTermSame
  <2> QED
    BY <1>4, <2>1, <2>2, SameJoins, SameDoes
<1>7. CASE ResponseToFollower(s, m)
  <2>1. srv'[s] = e
    BY <1>7 DEF ResponseToFollower, Step, Core, Typed
  <2> QED
    BY <1>4, <2>1, SameDoes
<1>8. CASE m.term = srv[s].term /\ srv[s].role = "Leader" /\ Accepted(s, m)
  <2> DEFINE peer == [e.peers[m.from] EXCEPT !.next = m.next, !.matched = m.next - 1,
                                             !.rewind = 1]
             f == WithPeer(e, m.from, peer)
             i == MajorityMatched(s, f)
             g == CommitTo(s, f, i)
             h == IF m.next < EndIndex(f.log) THEN SendTo(g, {m.from}) ELSE g
  <2>1. Step(s, f, h, {m}, {})
    BY <1>8 DEF Accepted
  <2> HIDE DEF e
  <2>2. peer \in Peer
    <3>1. m.next - 1 \in Index
      <4>1. m.next - 1 \in Nat /\ m.next - 1 <= m.next
        BY <1>2
      <4> QED
        BY <1>2, <4>1, Bounds
    <3>2. e.peers[m.from] \in Peer
      BY <1>2, <1>4, StateFields
    <3> QED
      BY <1>2, <3>1, <3>2 DEF Peer
  <2>3. peer.matched = m.next - 1
    BY <1>2, <1>4, StateFields DEF Peer
  <2> HIDE DEF peer
  <2>4. /\ f \in FullState /\ KeepsLog(e, f)
        /\ \A p \in Server : f.peers[p] = IF p = m.from THEN peer ELSE e.peers[p]
        /\ f.quick = e.quick /\ f.commit = e.commit
    BY <1>2, <1>4, <2>2, WithPeerKeeps DEF WithPeer, FullState
  <2> HIDE DEF f
  <2>5. LET matched == [q \in Server |-> IF q = s THEN LastIndex(f.log) ELSE f.peers[q].matched]
        IN  i \in Index
            /\ 2 * Cardinality({q \in Server : matched[q] >= i}) > Cardinality(Server)
    <3>1. Len(f.log.entries) \in Index
      BY <1>3, <1>4, <2>4 DEF KeepsLog
    <3> QED
      BY <2>4, <3>1, MajorityMatchedOK
  <2> HIDE DEF i
  <2>6. g \in FullState /\ KeepsLog(f, g) /\ CommitsOn(f, g) /\ g.quick \in {f.quick, i}
    BY <2>4, <2>5, CommitToQuiet, CommitToOn DEF Quiet
  <2> HIDE DEF g
  <2>7. h \in FullState /\ KeepsLog(g, h) /\ SameCommit(g, h)
    BY <2>6, SendToQuiet, SendToSame, SameIsSame DEF Quiet, KeepsLog
  <2> HIDE DEF h
  <2>8. srv'[s] = h
    BY <2>1 DEF Step, Core, Typed
  <2>9. h.role = "Leader" /\ h.log.entries = f.log.entries /\ Entries(s)' = f.log.entries
    BY <1>4, <1>8, <2>4, <2>6, <2>7, <2>8 DEF KeepsLog, Entries
  <2>10. MajorityCounts(s, i)
    <3> DEFINE matched == [q \in Server |-> IF q = s THEN LastIndex(f.log) ELSE f.peers[q].matched]
               V == {q \in Server : matched[q] >= i}
    <3>1. 2 * Cardinality(V) > Cardinality(Server) /\ V \in SUBSET Server
      BY <2>5
    <3>2. LastIndex(f.log) = Len(f.log.entries) /\ i \in Nat /\ Len(f.log.entries) \in Nat
          /\ \A q \in Server : f.peers[q].matched \in Nat
      BY <2>4, <2>5, StateFields, Bounds
    <3>3. \A q \in Server : srv'[s].peers[q].matched = f.peers[q].matched
      BY <2>6, <2>7, <2>8 DEF CommitsOn, SameCommit
    <3>4. \A v \in V : i <= IF v = s THEN Len(Entries(s)') ELSE srv'[s].peers[v].matched
      BY <2>9, <3>2, <3>3
    <3> HIDE DEF V
    <3> QED
      BY <3>1, <3>4 DEF MajorityCounts
  <2>11. QuickComes(s)
    BY <1>4, <2>4, <2>6, <2>7, <2>8, <2>9, <2>10 DEF QuickComes, SameCommit
  <2>12. CommitComes(s)
    <3>1. Len(g.log.entries) = Len(Entries(s)')
      BY <2>6, <2>9 DEF KeepsLog
    <3> QED
      BY <1>4, <2>4, <2>6, <2>7, <2>8, <2>9, <3>1 DEF CommitComes, SameCommit, CommitsOn
  <2>13. \A p \in Server : MatchedComes(s, p)
    <3> TAKE p \in Server
    <3>1. srv'[s].peers[p].matched = f.peers[p].matched
      BY <2>6, <2>7, <2>8 DEF CommitsOn, SameCommit
    <3>2. CASE p = m.from
      <4>1. srv'[s].peers[p].matched = m.next - 1
        BY <2>3, <2>4, <3>1, <3>2
      <4>2. m.accepted /\ Leads(s, m.term)
        BY <1>5, <1>8 DEF Accepted
      <4> QED
        BY <1>5, <3>2, <4>1, <4>2 DEF MatchedComes
    <3>3. CASE p # m.from
      BY <1>4, <2>4, <3>1, <3>3 DEF MatchedComes, SameCommit
    <3> QED
      BY <3>2, <3>3
  <2> QED
    BY <2>11, <2>12, <2>13 DEF Commits
<1>9. CASE m.term = srv[s].term /\ srv[s].role = "Leader" /\ Rejected(s, m)
  <2> DEFINE peer == e.peers[m.from]
             waiting == [peer EXCEPT !.next = m.next, !.rewind = 1]
             waits == WithPeer(e, m.from, waiting)
             f == WithPeer(e, m.from, Rewind(peer, m.next))
             g == SendTo(f, {m.from})
  <2>1. IF m.transfer THEN Step(s, waits, waits, {m}, {}) ELSE Step(s, f, g, {m}, {})
    BY <1>9 DEF Rejected
  <2> HIDE DEF e
  <2>2. peer \in Peer
    BY <1>2, <1>4, StateFields
  <2>3. waiting \in Peer /\ waiting.matched = peer.matched
    BY <1>2, <2>2 DEF Peer
  <2>4. Rewind(peer, m.next) \in Peer /\ Rewind(peer, m.next).matched = peer.matched
    <3>1. Rewind(peer, m.next).matched = peer.matched
      <4>1. \A n, r : [peer EXCEPT !.next = n, !.rewind = r].matched = peer.matched
        BY <2>2 DEF Peer
      <4>2. peer.next \in Nat /\ peer.rewind \in Nat
        BY <2>2, Bounds DEF Peer
      <4> HIDE DEF peer
      <4>3. \E n, r : Rewind(peer, m.next) = [peer EXCEPT !.next = n, !.rewind = r]
        <5>1. CASE m.next < peer.next
          <6>1. Rewind(peer, m.next) = [peer EXCEPT !.next = m.next, !.rewind = 1]
            BY <1>2, <4>2, <5>1 DEF Rewind
          <6> QED
            BY <6>1
        <5>2. CASE ~(m.next < peer.next) /\ peer.next > peer.rewind
          BY <1>2, <4>2, <5>2 DEF Rewind
        <5>3. CASE ~(m.next < peer.next) /\ ~(peer.next > peer.rewind)
          BY <1>2, <4>2, <5>3 DEF Rewind
        <5> QED
          BY <5>1, <5>2, <5>3
      <4> QED
        BY <4>1, <4>3
    <3> QED
      BY <1>2, <2>2, <3>1, RewindOK
  <2>5. PICK old : old = peer
    OBVIOUS
  <2> HIDE DEF waiting, peer
  <2>6. /\ waits \in FullState
        /\ \A p \in Server : waits.peers[p] = IF p = m.from THEN waiting ELSE e.peers[p]
        /\ waits.quick = e.quick /\ waits.commit = e.commit
        /\ f \in FullState
        /\ \A p \in Server : f.peers[p] = IF p = m.from THEN Rewind(peer, m.next) ELSE e.peers[p]
        /\ f.quick = e.quick /\ f.commit = e.commit
    BY <1>2, <1>4, <2>3, <2>4, WithPeerKeeps DEF WithPeer, FullState
  <2> HIDE DEF waits, f
  <2>7. SameCommit(e, waits) /\ SameCommit(e, f)
    <3>1. peer.matched = e.peers[m.from].matched
      BY DEF peer
    <3> QED
      BY <2>3, <2>4, <2>6, <3>1 DEF SameCommit
  <2>8. SameCommit(f, g)
    BY <2>6, SendToSame
  <2> HIDE DEF g
  <2>9. srv'[s] = IF m.transfer THEN waits ELSE g
    BY <2>1 DEF Step, Core, Typed
  <2> QED
    BY <1>4, <2>7, <2>8, <2>9, SameJoins, SameDoes
<1> QED
  BY <1>6, <1>7, <1>8, <1>9 DEF HandleResponse

LEMMA ElectCommits ==
    ASSUME Core, NEW s \in Server, NEW Q \in SUBSET Server, Elect(s, Q), NEW q \in Server
    PROVE  Commits(q)
<1>1. WinsElection(s, Q) /\ \A v \in Q \ {s} : srv'[v] = SeeTerm(srv[v], srv'[s].term)
  BY ElectDoes
<1>2. CASE q = s
  <2>1. PICK e \in FullState : /\ srv'[s] = RequestAppendEntries(s, e)
                               /\ Len(e.log.entries) \in Index /\ SameCommit(srv[s], e)
    BY ElectDoes
  <2>2. PICK f : f = srv'[s]
    OBVIOUS
  <2>3. /\ f \in FullState /\ Quiet(e, f) /\ CommitsOn(e, f)
        /\ f.quick = e.quick \/ (Server = {s} /\ f.quick = Len(e.log.entries))
    BY <2>1, <2>2, RequestAppendEntriesQuiet, RequestAppendEntriesOn
  <2>4. Len(Entries(s)') = Len(e.log.entries) /\ srv'[s].role = "Leader"
    BY <1>1, <2>2, <2>3 DEF Quiet, KeepsLog, Entries, WinsElection
  <2>5. QuickComes(s)
    <3>1. CASE f.quick = e.quick
      BY <2>1, <2>2, <3>1 DEF QuickComes, SameCommit
    <3>2. CASE Server = {s} /\ f.quick = Len(e.log.entries)
      BY <2>2, <2>4, <3>2, AllCount DEF QuickComes
    <3> QED
      BY <2>3, <3>1, <3>2
  <2>6. CommitComes(s) /\ \A p \in Server : MatchedComes(s, p)
    <3>1. Len(f.log.entries) = Len(Entries(s)')
      BY <2>2 DEF Entries
    <3> QED
      BY <2>1, <2>2, <2>3, <2>4, <3>1 DEF CommitComes, MatchedComes, SameCommit, CommitsOn
  <2> QED
    BY <1>2, <2>5, <2>6 DEF Commits
<1>3. CASE q # s
  <2>1. srv[q] \in FullState /\ srv'[s].term \in Term
    BY <1>1, StateTyped, StateFields DEF WinsElection
  <2>2. srv'[q] = srv[q] \/ srv'[q] = SeeTerm(srv[q], srv'[s].term)
    BY <1>1, <1>3 DEF WinsElection
  <2>3. SameCommit(srv[q], srv'[q])
    BY <2>1, <2>2, SeeTermSame, SameIsSame
  <2> QED
    BY <2>3, SameDoes
<1> QED
  BY <1>2, <1>3

LEMMA StepCommits ==
    ASSUME Core, Next, NEW q \in Server
    PROVE  Commits(q)
<1>1. PICK s \in Server :
          \/ \E Q \in SUBSET Server : Elect(s, Q)
          \/ Publish(s)
          \/ \E p \in Server : Heartbeat(s, p) \/ LoseConnection(s, p)
          \/ StepDown(s)
          \/ \E m \in msgs : HandleRequest(s, m) \/ HandleResponse(s, m)
          \/ ApplyTransfer(s)
          \/ CompleteTransfer(s)
  BY DEF Next
<1>2. CASE \E Q \in SUBSET Server : Elect(s, Q)
  BY <1>2, ElectCommits
<1>3. CASE q = s /\ ~\E Q \in SUBSET Server : Elect(s, Q)
  BY <1>1, <1>3, PublishCommits, TimersCommit, HandleRequestCommits, HandleResponseCommits
<1>4. CASE q # s /\ ~\E Q \in SUBSET Server : Elect(s, Q)
  <2>1. SameLogs(s) \/ AppendsEntry(s) \/ CopiesLog(s)
        \/ \E m \in msgs : RefusesRequest(s, m) \/ TakesEntries(s, m)
    BY <1>1, <1>4, PublishDoes, HeartbeatDoes, LoseConnectionDoes, StepDownDoes,
       HandleRequestDoes, HandleResponseDoes, ApplyTransferDoes, CompleteTransferDoes
  <2>2. Alone(s)
    BY <2>1 DEF SameLogs, AppendsEntry, CopiesLog, RefusesRequest, TakesEntries
  <2>3. srv'[q] = srv[q]
    BY <1>4, <2>2, AloneGives
  <2> QED
    BY <2>3, SameIsSame, SameDoes
<1> QED
  BY <1>2, <1>3, <1>4

-----------------------------------------------------------------------------
(***************************************************************************)
(* What a leader counts.  An entry of its own term at the end of a log p   *)
(* is either in what later leaders have, with all of p, and those counted  *)
(* for it have it, or it cannot be counted on a majority any more: one     *)
(* that has elected a later leader is not counted.                         *)
(***************************************************************************)
MatchedInLog ==
    \A s \in Server : srv[s].role = "Leader" =>
        \A p \in Peers(s) : srv[s].peers[p].matched <= Len(Entries(s))

CountsAnswer(s, q, n, a) ==
    /\ a.from = q /\ a.to = s /\ a.accepted /\ a.term = srv[s].term /\ a.next - 1 >= n

\* s counts q for index n, or will when an answer arrives.
Counts(s, q, n) ==
    q # s /\ (srv[s].peers[q].matched >= n \/ \E a \in Responses : CountsAnswer(s, q, n, a))

Blocked(s, n) ==
    \E R \in SUBSET Server :
        /\ 2 * Cardinality(R) > Cardinality(Server)
        /\ \A q \in R : srv[q].term > srv[s].term /\ ~Counts(s, q, n)

CountedHave(s, p) ==
    \A q \in Server : Counts(s, q, Len(p)) => srv[q].term >= TermOf(p) /\ Has(q, p)

Committable ==
    \A s \in Server, p \in Prefix :
        Leads(s, TermOf(p)) /\ Has(s, p) => Blocked(s, Len(p)) \/ (Open(p) /\ CountedHave(s, p))

LEMMA MatchedInLogKept ==
    ASSUME Sound, Sound', Next, MatchesWithin, MatchedInLog
    PROVE  MatchedInLog'
<1> SUFFICES ASSUME NEW s \in Server, srv'[s].role = "Leader", NEW p \in Peers(s)
             PROVE  srv'[s].peers[p].matched <= Len(Entries(s)')
  BY DEF MatchedInLog, Peers
<1>1. p \in Server /\ MatchedComes(s, p)
  BY StepCommits DEF Sound, Commits, Peers
<1>2. /\ Len(Entries(s)) \in Nat /\ Len(Entries(s)') \in Nat
      /\ srv[s].peers[p].matched \in Nat
  <2>1. srv[s] \in FullState
    BY StateTyped DEF Sound
  <2> QED
    BY <1>1, <2>1, StateTyped, StateFields, LogNext, Bounds DEF Sound
<1>3. CASE Leads(s, srv'[s].term)
  <2>1. Len(Entries(s)) <= Len(Entries(s)')
    BY <1>3, LeaderGrows DEF Leads, Sound
  <2>2. srv[s].peers[p].matched <= Len(Entries(s))
    BY <1>3 DEF Leads, MatchedInLog
  <2>3. CASE srv'[s].peers[p].matched = srv[s].peers[p].matched
    BY <1>2, <2>1, <2>2, <2>3
  <2>4. CASE \E m \in Responses : /\ m.to = s /\ m.from = p /\ m.accepted /\ Leads(s, m.term)
                                  /\ srv'[s].peers[p].matched = m.next - 1
    <3>1. PICK m \in Responses : /\ m.to = s /\ m.accepted /\ Leads(s, m.term)
                                 /\ srv'[s].peers[p].matched = m.next - 1
      BY <2>4
    <3>2. m.next - 1 <= Len(Entries(s)) /\ m.next \in Nat
      <4>1. m \in FullResponse
        BY MessageKinds DEF Sound, Core
      <4> QED
        BY <3>1, <4>1, ResponseFields DEF Sound, Current, AnswersInLog
    <3> QED
      BY <1>2, <2>1, <3>1, <3>2
  <2> QED
    BY <1>1, <2>3, <2>4 DEF MatchedComes
<1>4. CASE srv[s].role = "Follower" /\ \E Q \in SUBSET Server : Elect(s, Q)
  <2>1. srv'[s].peers[p].matched = srv[s].peers[p].matched
    BY <1>1, <1>4 DEF MatchedComes, Leads
  <2>2. srv[s].peers[p].matched <= Len(Entries(s))
    <3>1. srv[s].peers[p].matched <= LastIndex(srv[s].log)
      BY <1>4 DEF MatchesWithin
    <3>2. LastIndex(srv[s].log) = Len(Entries(s))
      BY StateTyped, StateFields DEF Entries, Sound
    <3> QED
      BY <3>1, <3>2
  <2>3. Entries(s)' = Entries(s) \/ Len(Entries(s)') = Len(Entries(s)) + 1
    <3>1. PICK Q \in SUBSET Server : WinsElection(s, Q)
      BY <1>4, ElectDoes DEF Sound
    <3>2. PICK l, x : l = Entries(s) /\ x = [term |-> srv'[s].term, type |-> "Configuration"]
      OBVIOUS
    <3>3. l \in Seq(LogEntry)
      BY <3>2, StateTyped DEF Sound
    <3>4. Len(Append(l, x)) = Len(l) + 1
      BY <3>3
    <3> QED
      BY <3>1, <3>2, <3>4 DEF WinsElection
  <2> QED
    BY <1>2, <2>1, <2>2, <2>3
<1> QED
  BY <1>3, <1>4, LeadsOrElected DEF Sound

\* What a leader counts after a step it has counted, or an answer is new.
LEMMA CountsBefore ==
    ASSUME Sound, Sound', Next, NEW s \in Server, NEW q \in Server, NEW n \in Nat,
           srv'[s].role = "Leader", Leads(s, srv'[s].term), Counts(s, q, n)'
    PROVE  \/ Counts(s, q, n)
           \/ /\ srv'[q].term = srv'[s].term /\ n <= Len(Entries(s))
              /\ \E a \in Responses' : CountsAnswer(s, q, n, a)'
<1>1. srv[s].term = srv'[s].term
  BY DEF Leads
<1>2. CASE \E a \in Responses' : CountsAnswer(s, q, n, a)'
  <2>1. PICK a \in Responses' : CountsAnswer(s, q, n, a)'
    BY <1>2
  <2>2. /\ a.from = q /\ a.to = s /\ a.accepted /\ a.term = srv'[s].term /\ a.next - 1 >= n
    BY <2>1 DEF CountsAnswer
  <2>3. CASE a \in Responses
    <3>1. CountsAnswer(s, q, n, a)
      BY <1>1, <2>2 DEF CountsAnswer
    <3> QED
      BY <2>3, <3>1 DEF Counts
  <2>4. CASE /\ a \in FullResponse /\ srv'[a.from].term = a.term
             /\ a.accepted => \E m \in msgs : Answers(a.from, m, a)
    <3>1. PICK m \in msgs : Answers(a.from, m, a)
      BY <2>2, <2>4
    <3>2. Leads(a.to, a.term)'
      BY <2>2 DEF Leads
    <3>3. a.next - 1 <= Len(Entries(s))
      BY <2>2, <2>4, <3>1, <3>2, AnsweredRequest DEF Sound
    <3>4. n <= Len(Entries(s))
      BY <2>2, <2>4, <3>3, ResponseFields, StateTyped DEF Sound
    <3> QED
      BY <2>1, <2>2, <2>4, <3>4
  <2> QED
    BY <2>3, <2>4, NewResponses DEF Sound
<1>3. CASE srv'[s].peers[q].matched >= n
  <2>1. MatchedComes(s, q)
    BY StepCommits DEF Commits, Sound
  <2>2. CASE srv'[s].peers[q].matched = srv[s].peers[q].matched
    BY <1>3, <2>2 DEF Counts
  <2>3. CASE \E m \in Responses : /\ m.to = s /\ m.from = q /\ m.accepted /\ Leads(s, m.term)
                                  /\ srv'[s].peers[q].matched = m.next - 1
    <3>1. PICK m \in Responses : CountsAnswer(s, q, n, m)
      BY <1>1, <1>3, <2>3 DEF CountsAnswer, Leads
    <3> QED
      BY <3>1 DEF Counts
  <2> QED
    BY <2>1, <2>2, <2>3 DEF MatchedComes
<1> QED
  BY <1>2, <1>3 DEF Counts

LEMMA BlockedStays ==
    ASSUME Sound, Sound', Next, NEW s \in Server, NEW n \in Nat,
           srv'[s].role = "Leader", Leads(s, srv'[s].term), Blocked(s, n)
    PROVE  Blocked(s, n)'
<1>1. PICK R \in SUBSET Server : /\ 2 * Cardinality(R) > Cardinality(Server)
                                 /\ \A q \in R : srv[q].term > srv[s].term /\ ~Counts(s, q, n)
  BY DEF Blocked
<1>2. srv[s].term = srv'[s].term /\ srv[s].term \in Nat
  BY StateTyped DEF Leads, Sound
<1>3. ASSUME NEW q \in R PROVE srv'[q].term > srv'[s].term /\ ~Counts(s, q, n)'
  <2>1. srv[q].term > srv[s].term /\ ~Counts(s, q, n)
    BY <1>1
  <2>2. srv'[q].term >= srv[q].term /\ srv[q].term \in Nat /\ srv'[q].term \in Nat
    BY TermsGrow DEF Sound
  <2>3. srv'[q].term > srv'[s].term /\ srv'[q].term # srv'[s].term
    BY <1>2, <2>1, <2>2
  <2> QED
    BY <2>1, <2>3, CountsBefore
<1> QED
  BY <1>1, <1>3 DEF Blocked

LEMMA EscapeBlocks ==
    ASSUME Sound, Sound', Next, NEW s \in Server, NEW p \in Prefix,
           Leads(s, TermOf(p)), Leads(s, TermOf(p))', CountedHave(s, p), Escapes(p)
    PROVE  Blocked(s, Len(p))'
<1>1. PICK u \in Server, Q \in SUBSET Server : Elect(u, Q) /\ \A v \in Q : ~Has(v, p)
  BY DEF Escapes
<1>2. WinsElection(u, Q)
  BY <1>1, ElectDoes DEF Sound
<1>3. PICK t, n : t = TermOf(p) /\ n = Len(p)
  OBVIOUS
<1>4. t \in Nat /\ n \in Nat /\ srv[s].term = t /\ srv'[s].term = t /\ srv'[s].role = "Leader"
  BY <1>3, PrefixFields DEF Leads
<1>5. t < srv'[u].term
  <2>1. Reached(t)
    BY <1>4, StateTyped DEF ServerOK, Sound
  <2> QED
    BY <1>2, <1>4, <2>1, AboveReached DEF Sound
<1>6. ASSUME NEW q \in Q PROVE srv'[q].term > srv'[s].term /\ ~Counts(s, q, n)'
  <2>1. srv'[q].term = srv'[u].term /\ srv'[q].term \in Nat
    BY <1>2, TermsGrow DEF WinsElection, Sound
  <2>2. srv'[q].term > srv'[s].term /\ srv'[q].term # srv'[s].term
    BY <1>4, <1>5, <2>1
  <2>3. ~Counts(s, q, n)
    BY <1>1, <1>3 DEF CountedHave
  <2>4. Leads(s, srv'[s].term)
    BY <1>3, <1>4
  <2> QED
    BY <1>4, <2>2, <2>3, <2>4, CountsBefore
<1>7. 2 * Cardinality(Q) > Cardinality(Server)
  BY <1>2 DEF WinsElection
<1> QED
  BY <1>3, <1>6, <1>7 DEF Blocked

LEMMA CountedHaveStays ==
    ASSUME Sound, Sound', Next, NEW s \in Server, NEW p \in Prefix,
           Leads(s, TermOf(p)), Leads(s, TermOf(p))', Open(p), Has(s, p)', CountedHave(s, p)
    PROVE  CountedHave(s, p)'
<1> SUFFICES ASSUME NEW q \in Server, Counts(s, q, Len(p))'
             PROVE  srv'[q].term >= TermOf(p) /\ Has(q, p)'
  BY DEF CountedHave, TermOf
<1>1. PICK t, n : t = TermOf(p) /\ n = Len(p)
  OBVIOUS
<1>2. t \in Nat /\ n \in Nat /\ srv'[s].term = t /\ srv'[s].role = "Leader"
      /\ Leads(s, srv'[s].term)
  BY <1>1, PrefixFields DEF Leads
<1>3. CASE Counts(s, q, n)
  <2>1. srv[q].term >= t /\ Has(q, p)
    BY <1>1, <1>3 DEF CountedHave
  <2>2. srv'[q].term >= srv[q].term /\ srv[q].term \in Nat /\ srv'[q].term \in Nat
    BY TermsGrow DEF Sound
  <2>3. Has(q, p)'
    BY <1>1, <2>1, HasStays DEF Sound
  <2>4. srv'[q].term >= t
    BY <1>2, <2>1, <2>2
  <2> QED
    BY <1>1, <2>3, <2>4
<1>4. CASE /\ srv'[q].term = srv'[s].term
           /\ \E a \in Responses' : CountsAnswer(s, q, n, a)'
  <2>1. PICK a \in Responses' : CountsAnswer(s, q, n, a)'
    BY <1>4
  <2>2. a.from = q /\ a.to = s /\ a.accepted /\ a.term = t /\ a.next - 1 >= n
    BY <1>2, <2>1 DEF CountsAnswer
  <2>3. Leads(s, t)' /\ srv'[q].term = t
    BY <1>2, <1>4 DEF Leads
  <2>4. PICK r, l, j : r = Entries(q)' /\ l = Entries(s)' /\ j = a.next - 1
    OBVIOUS
  <2>5. j <= Len(r) /\ \A i \in 1 .. j : l[i] = r[i]
    BY <2>2, <2>3, <2>4 DEF Sound, Agreement, AnswersAgree
  <2>6. n <= Len(l) /\ \A i \in 1 .. n : l[i] = p[i]
    BY <1>1, <2>4 DEF Has, AgreeTo
  <2>7. j \in Nat /\ j >= n /\ Len(r) \in Nat
    <3>1. a \in FullResponse
      BY DEF Sound, Core, Typed, Responses, FullRequest, FullResponse
    <3>2. a.next \in Nat /\ a.next >= 1
      BY <3>1, ResponseFields
    <3> QED
      BY <2>2, <2>4, <3>2, LogNext DEF Sound
  <2>8. n <= Len(r) /\ \A i \in 1 .. n : r[i] = p[i]
    BY <1>2, <2>5, <2>6, <2>7
  <2>9. Has(q, p)'
    BY <1>1, <1>2, <2>4, <2>8 DEF Has, AgreeTo
  <2> QED
    BY <1>1, <1>2, <1>4, <2>9
<1> QED
  BY <1>1, <1>2, <1>3, <1>4, CountsBefore

\* The entry that a leader has just appended is in its log alone, or in vain.
LEMMA NewestCommittable ==
    ASSUME Sound', NEW s \in Server, NEW p \in Prefix, Leads(s, TermOf(p))', Has(s, p)',
           Len(Entries(s)') = Len(p), \A q \in Server : ~Counts(s, q, Len(p))'
    PROVE  Blocked(s, Len(p))' \/ (Open(p)' /\ CountedHave(s, p)')
<1>1. PICK t, n, l : t = TermOf(p) /\ n = Len(p) /\ l = Entries(s)'
  OBVIOUS
<1>2. /\ t \in Nat /\ n \in Nat /\ n # 0 /\ srv'[s].term = t /\ srv'[s].role = "Leader"
      /\ l \in Seq(LogEntry) /\ Len(l) = n /\ \A i \in 1 .. n : l[i] = p[i]
  BY <1>1, PrefixFields, LogNext DEF Leads, Has, AgreeTo, Sound
<1>3. l[n].term = t /\ n \in 1 .. n
  BY <1>1, <1>2 DEF TermOf
<1>4. CASE \E u \in Nat : u > t /\ Reached(u)'
  <2>1. PICK u \in Nat : u > t /\ Reached(u)'
    BY <1>4
  <2> DEFINE R == {q \in Server : srv'[q].term >= u}
  <2>2. 2 * Cardinality(R) > Cardinality(Server)
    BY <2>1 DEF Reached
  <2>3. ASSUME NEW q \in R PROVE srv'[q].term > srv'[s].term /\ ~Counts(s, q, n)'
    <3>1. srv'[q].term \in Nat /\ srv'[q].term >= u
      BY LogNext DEF Sound
    <3> QED
      BY <1>1, <1>2, <2>1, <3>1
  <2>4. R \in SUBSET Server
    OBVIOUS
  <2> HIDE DEF R
  <2> QED
    BY <1>1, <2>2, <2>3, <2>4 DEF Blocked
<1>5. CASE ~\E u \in Nat : u > t /\ Reached(u)'
  <2>1. InLaterLogs(p)'
    <3> SUFFICES ASSUME NEW q \in Server, NEW i \in 1 .. Len(Entries(q)'),
                        Entries(q)'[i].term > TermOf(p)
                 PROVE  FALSE
      BY DEF InLaterLogs, TermOf
    <3>1. Reached(Entries(q)[i].term)'
      BY DEF Sound, Core, ServerOK, Entries
    <3>2. Entries(q)'[i].term \in Nat
      BY LogNext, EntryTerm DEF Sound
    <3> QED
      BY <1>1, <1>5, <3>1, <3>2
  <2>2. LeadersHave(p)'
    <3> SUFFICES ASSUME NEW q \in Server, srv'[q].role = "Leader", srv'[q].term >= TermOf(p)
                 PROVE  Has(q, p)'
      BY DEF LeadersHave, TermOf
    <3>1. Reached(srv[q].term)' /\ srv'[q].term \in Nat
      BY LogNext DEF Sound, Core, ServerOK
    <3>2. srv'[q].term = t
      BY <1>1, <1>2, <1>5, <3>1
    <3>3. q = s
      BY <1>2, <3>2 DEF Sound, Core, OneLeaderPerTerm, Leads
    <3> QED
      BY <3>3
  <2>3. RequestsKeep(p)'
    <3> SUFFICES ASSUME NEW m \in Requests', m.term >= TermOf(p)
                 PROVE  Compat(m, p)
      BY DEF RequestsKeep, TermOf, Compat
    <3>1. m \in msgs' /\ m \in FullRequest
      BY DEF Sound, Core, Typed, Requests, FullRequest, FullResponse
    <3>2. Reached(m.term)' /\ m.term \in Nat
      BY <3>1, RequestFields DEF Sound, Core, MessageOK
    <3>3. m.term = t
      BY <1>1, <1>2, <1>5, <3>2
    <3>4. InLog(m, srv'[s].log)
      BY <1>2, <3>3 DEF Sound, Current, RequestsCurrent, Leads
    <3>5. PICK es, b : es = m.entries /\ b = m.lastIndex
      OBVIOUS
    <3>6. /\ b + Len(es) <= n /\ m.lastTerm = TermAt(srv'[s].log, b)
          /\ \A k \in 1 .. Len(es) : es[k] = l[b + k]
      BY <1>1, <1>2, <3>4, <3>5 DEF InLog, Entries
    <3>7. b \in Nat /\ Len(es) \in Nat
      BY <3>1, <3>5, RequestFields
    <3>8. b \in 0 .. n /\ (b # 0 => m.lastTerm = l[b].term)
      <4>1. b \in 0 .. n
        BY <1>2, <3>6, <3>7
      <4>2. srv'[s].log \in FullLog /\ srv'[s].log.entries = l
        BY <1>1, LogNext, StateFields DEF Sound, Entries
      <4> QED
        BY <1>2, <3>6, <4>1, <4>2, TermAtFacts
    <3>9. b \in 1 .. n => m.lastTerm = p[b].term
      BY <1>2, <3>8
    <3>10. b >= n => m.lastTerm >= t
      BY <1>2, <1>3, <3>8
    <3>11. \A k \in 1 .. Len(es) : b + k <= n => es[k] = p[b + k]
      <4> SUFFICES ASSUME NEW k \in 1 .. Len(es), b + k <= n PROVE es[k] = p[b + k]
        OBVIOUS
      <4>1. b + k \in 1 .. n
        BY <1>2, <3>7
      <4> QED
        BY <1>2, <3>6, <4>1
    <3> QED
      BY <1>1, <3>5, <3>9, <3>10, <3>11 DEF Compat
  <2>4. CountedHave(s, p)'
    BY DEF CountedHave
  <2> QED
    BY <2>1, <2>2, <2>3, <2>4 DEF Open
<1> QED
  BY <1>4, <1>5

\* What a leader knew to hold of its entries holds on.
LEMMA OldCommittable ==
    ASSUME Sound, Sound', Next, Ordered, Ordered', Committable, NEW s \in Server, NEW p \in Prefix,
           Leads(s, TermOf(p)), Leads(s, TermOf(p))', Has(s, p)
    PROVE  Blocked(s, Len(p))' \/ (Open(p)' /\ CountedHave(s, p)')
<1>1. Blocked(s, Len(p)) \/ (Open(p) /\ CountedHave(s, p))
  BY DEF Committable
<1>2. /\ Len(p) \in Nat /\ srv'[s].role = "Leader" /\ Leads(s, srv'[s].term)
      /\ srv[s].term = TermOf(p) /\ TermOf(p) \in Nat
  BY PrefixFields DEF Leads
<1>3. CASE Blocked(s, Len(p))
  BY <1>2, <1>3, BlockedStays
<1>4. CASE Open(p) /\ CountedHave(s, p) /\ Escapes(p)
  BY <1>4, EscapeBlocks
<1>5. CASE Open(p) /\ CountedHave(s, p) /\ ~Escapes(p)
  <2>1. srv[s].term >= TermOf(p)
    BY <1>2
  <2>2. Open(p)'
    BY <1>5, <2>1, OpenStays
  <2>3. Has(s, p)'
    BY <1>5, <2>1, HasStays DEF Sound
  <2> QED
    BY <1>5, <2>2, <2>3, CountedHaveStays
<1> QED
  BY <1>1, <1>3, <1>4, <1>5

LEMMA CommittableKept ==
    ASSUME Sound, Sound', Next, Ordered, Ordered', MatchedInLog, MatchesWithin, Committable
    PROVE  Committable'
<1> SUFFICES ASSUME NEW s \in Server, NEW p \in Prefix, Leads(s, TermOf(p))', Has(s, p)'
             PROVE  Blocked(s, Len(p))' \/ (Open(p)' /\ CountedHave(s, p)')
  BY DEF Committable, TermOf
<1>1. PICK t, n, l, r : t = TermOf(p) /\ n = Len(p) /\ l = Entries(s) /\ r = Entries(s)'
  OBVIOUS
<1>2. /\ t \in Nat /\ n \in Nat /\ n # 0 /\ srv'[s].term = t /\ srv'[s].role = "Leader"
      /\ l \in Seq(LogEntry) /\ Len(l) \in Nat /\ r \in Seq(LogEntry) /\ Len(r) \in Nat
      /\ n <= Len(r) /\ \A i \in 1 .. n : r[i] = p[i]
      /\ p[n].term = t
  BY <1>1, StateTyped, PrefixFields, LogNext DEF Leads, Has, AgreeTo, Sound, TermOf
<1>3. CASE Leads(s, t)
  <2>1. r = l \/ \E x : r = Append(l, x)
    BY <1>1, <1>2, <1>3, LeaderAppends DEF Leads, Sound
  <2>2. CASE n <= Len(l)
    <3>1. \A i \in 1 .. n : l[i] = p[i]
      BY <1>2, <2>1, <2>2
    <3>2. Has(s, p)
      BY <1>1, <1>2, <2>2, <3>1 DEF Has, AgreeTo
    <3> QED
      BY <1>1, <1>3, <3>2, OldCommittable
  <2>3. CASE n > Len(l)
    <3>1. Len(r) = n
      BY <1>2, <2>1, <2>3
    <3>2. ASSUME NEW q \in Server, Counts(s, q, n)' PROVE FALSE
      <4>1. Leads(s, srv'[s].term) /\ srv[s].term = t /\ srv[s].role = "Leader"
        BY <1>2, <1>3 DEF Leads
      <4>2. Counts(s, q, n)
        BY <1>1, <1>2, <2>3, <3>2, <4>1, CountsBefore
      <4>3. CASE q # s /\ srv[s].peers[q].matched >= n
        <5>1. srv[s].peers[q].matched <= Len(l)
          BY <1>1, <4>1, <4>3 DEF MatchedInLog, Peers
        <5>2. srv[s].peers[q].matched \in Nat
          BY StateTyped, StateFields, Bounds DEF Sound
        <5> QED
          BY <1>2, <2>3, <4>3, <5>1, <5>2
      <4>4. CASE \E a \in Responses : CountsAnswer(s, q, n, a)
        <5>1. PICK a \in Responses : CountsAnswer(s, q, n, a)
          BY <4>4
        <5>2. a.next - 1 <= Len(l) /\ a.next - 1 >= n
          BY <1>1, <1>3, <4>1, <5>1 DEF CountsAnswer, Sound, Current, AnswersInLog
        <5>3. a.next \in Nat
          <6>1. a \in FullResponse
            BY MessageKinds DEF Sound, Core
          <6> QED
            BY <6>1, ResponseFields
        <5> QED
          BY <1>2, <2>3, <5>2, <5>3
      <4> QED
        BY <4>2, <4>3, <4>4 DEF Counts
    <3> QED
      BY <1>1, <3>1, <3>2, NewestCommittable
  <2> QED
    BY <1>2, <2>2, <2>3
<1>4. CASE srv[s].role = "Follower" /\ \E Q \in SUBSET Server : Elect(s, Q)
  <2>1. PICK Q \in SUBSET Server : WinsElection(s, Q)
    BY <1>4, ElectDoes DEF Sound
  <2>2. \A u \in Nat : Reached(u) => u < t
    BY <1>2, <2>1, AboveReached DEF Sound
  <2>3. r = l \/ \E x : r = Append(l, x)
    BY <1>1, <2>1 DEF WinsElection
  <2>4. n > Len(l)
    <3>1. ASSUME n <= Len(l) PROVE FALSE
      <4>1. l[n].term = t /\ n \in 1 .. Len(l)
        BY <1>2, <2>3, <3>1
      <4>2. Reached(l[n].term)
        BY <1>1, <4>1, StateTyped DEF Sound, ServerOK, Entries
      <4> QED
        BY <1>2, <2>2, <4>1, <4>2
    <3> QED
      BY <1>2, <3>1
  <2>5. Len(r) = n
    BY <1>2, <2>3, <2>4
  <2>6. ASSUME NEW q \in Server, Counts(s, q, n)' PROVE FALSE
    <3>1. CASE q # s /\ srv'[s].peers[q].matched >= n
      <4>1. srv'[s].peers[q].matched = srv[s].peers[q].matched
        BY <1>4, StepCommits DEF Commits, MatchedComes, Leads, Sound
      <4>2. srv[s].peers[q].matched <= Len(l)
        <5>1. srv[s].peers[q].matched <= LastIndex(srv[s].log)
          BY <1>2, <1>4, <3>1 DEF MatchesWithin, Peers
        <5>2. LastIndex(srv[s].log) = Len(l)
          BY <1>1, StateTyped, StateFields DEF Entries, Sound
        <5> QED
          BY <5>1, <5>2
      <4>3. srv[s].peers[q].matched \in Nat
        BY StateTyped, StateFields, Bounds DEF Sound
      <4> QED
        BY <1>2, <2>4, <3>1, <4>1, <4>2, <4>3
    <3>2. CASE \E a \in Responses' : CountsAnswer(s, q, n, a)'
      <4>1. PICK a \in Responses' : CountsAnswer(s, q, n, a)'
        BY <3>2
      <4>2. a.to = s /\ a.accepted /\ a.term = t
        BY <1>2, <4>1 DEF CountsAnswer
      <4>3. CASE a \in Responses
        <5>1. a \in FullResponse /\ MessageOK(a)
          BY <4>3, MessageKinds DEF Sound, Core
        <5>2. Reached(t)
          BY <4>2, <5>1 DEF MessageOK
        <5> QED
          BY <1>2, <2>2, <5>2
      <4>4. CASE /\ a \in FullResponse /\ srv'[a.from].term = a.term
                 /\ a.accepted => \E m \in msgs : Answers(a.from, m, a)
        <5>1. PICK m \in msgs : Answers(a.from, m, a)
          BY <4>2, <4>4
        <5>2. Leads(a.to, a.term)'
          BY <1>2, <4>2 DEF Leads
        <5>3. Leads(a.to, a.term)
          BY <4>4, <5>1, <5>2, AnsweredRequest DEF Sound
        <5> QED
          BY <1>4, <4>2, <5>3 DEF Leads
      <4> QED
        BY <4>3, <4>4, NewResponses DEF Sound
    <3> QED
      BY <2>6, <3>1, <3>2 DEF Counts
  <2> QED
    BY <1>1, <2>5, <2>6, NewestCommittable
<1> QED
  BY <1>2, <1>3, <1>4, LeadsOrElected DEF Sound

-----------------------------------------------------------------------------
(***************************************************************************)
(* What is committed.  A kept log is open, and a majority of its term or a *)
(* later one has it: no leader can be elected without it.  What a server   *)
(* knows to be committed is in one, and so is what it has committed.       *)
(***************************************************************************)
Keeps(V, p) ==
    /\ 2 * Cardinality(V) > Cardinality(Server)
    /\ \A v \in V : srv[v].term >= TermOf(p) /\ Has(v, p)

Kept(p) == Open(p) /\ \E V \in SUBSET Server : Keeps(V, p)

KnownTo(n, t) == n = 0 \/ \E p \in Prefix : Kept(p) /\ n <= Len(p) /\ TermOf(p) <= t

QuickKnown ==
    /\ \A s \in Server : KnownTo(srv[s].quick, srv[s].term)
    /\ \A m \in Requests : KnownTo(m.commit, m.term)

CommittedTo(s, n) ==
    n = 0 \/ \E p \in Prefix : Kept(p) /\ TermOf(p) <= srv[s].term /\ AgreeTo(Entries(s), p, n)

CommitKept == \A s \in Server : CommittedTo(s, srv[s].commit)

Secure == Ordered /\ MatchedInLog /\ Committable /\ QuickKnown /\ CommitKept

\* Majorities that have two logs have a server in common.
LEMMA KeepersMeet ==
    ASSUME NEW p, NEW r, NEW V \in SUBSET Server, NEW W \in SUBSET Server, Keeps(V, p), Keeps(W, r)
    PROVE  \E w \in Server : Has(w, p) /\ Has(w, r)
<1>1. PICK v \in V : v \in W
  BY QuorumsMeet DEF Keeps
<1> QED
  BY <1>1 DEF Keeps

\* A kept log stays so: it has voters in every election.
LEMMA KeptStays ==
    ASSUME Sound, Sound', Next, Ordered, Ordered', NEW p \in Prefix, Kept(p)
    PROVE  Kept(p)'
<1>1. PICK V \in SUBSET Server : Keeps(V, p)
  BY DEF Kept
<1>2. Open(p)
  BY DEF Kept
<1>3. ~Escapes(p)
  <2> SUFFICES ASSUME NEW s \in Server, NEW Q \in SUBSET Server, Elect(s, Q),
                      \A v \in Q : ~Has(v, p)
               PROVE  FALSE
    BY DEF Escapes
  <2>1. 2 * Cardinality(Q) > Cardinality(Server)
    BY ElectDoes DEF Sound, WinsElection
  <2>2. PICK v \in Q : v \in V
    BY <1>1, <2>1, QuorumsMeet DEF Keeps
  <2> QED
    BY <1>1, <2>2 DEF Keeps
<1>4. PICK w \in V : TRUE
  BY <1>1, QuorumsMeet DEF Keeps
<1>5. Open(p)'
  BY <1>1, <1>2, <1>3, <1>4, OpenStays DEF Keeps
<1>6. ASSUME NEW v \in V PROVE srv'[v].term >= TermOf(p) /\ Has(v, p)'
  <2>1. srv[v].term >= TermOf(p) /\ Has(v, p)
    BY <1>1 DEF Keeps
  <2>2. srv'[v].term >= srv[v].term /\ srv[v].term \in Nat /\ srv'[v].term \in Nat
    BY TermsGrow DEF Sound
  <2>3. TermOf(p) \in Nat
    BY PrefixFields
  <2>4. Has(v, p)'
    BY <1>2, <2>1, HasStays DEF Sound
  <2> QED
    BY <2>1, <2>2, <2>3, <2>4
<1>7. Keeps(V, p)'
  BY <1>1, <1>6 DEF Keeps, TermOf
<1> QED
  BY <1>5, <1>7 DEF Kept

LEMMA KnownStays ==
    ASSUME Sound, Sound', Next, Ordered, Ordered',
           NEW n, NEW t \in Nat, NEW u \in Nat, t <= u, KnownTo(n, t)
    PROVE  KnownTo(n, u)'
<1>1. CASE n = 0
  BY <1>1 DEF KnownTo
<1>2. CASE \E p \in Prefix : Kept(p) /\ n <= Len(p) /\ TermOf(p) <= t
  <2>1. PICK p \in Prefix : Kept(p) /\ n <= Len(p) /\ TermOf(p) <= t
    BY <1>2
  <2>2. Kept(p)' /\ TermOf(p) <= u
    BY <2>1, KeptStays, PrefixFields
  <2> QED
    BY <2>1, <2>2 DEF KnownTo, TermOf
<1> QED
  BY <1>1, <1>2 DEF KnownTo

\* What a leader counts on a majority, up to an entry of its term, is kept.
LEMMA LeaderCommits ==
    ASSUME Sound', MatchedInLog', Committable', NEW s \in Server, srv'[s].role = "Leader",
           NEW n \in Nat, n # 0, NEW t, t = srv'[s].term, MajorityCounts(s, n),
           TermAt(srv'[s].log, n) = t
    PROVE  KnownTo(n, t)'
<1>1. PICK V \in SUBSET Server :
          /\ 2 * Cardinality(V) > Cardinality(Server)
          /\ \A v \in V : n <= IF v = s THEN Len(Entries(s)') ELSE srv'[s].peers[v].matched
  BY DEF MajorityCounts
<1>2. PICK l : l = Entries(s)'
  OBVIOUS
<1>3. /\ l \in Seq(LogEntry) /\ Len(l) \in Nat /\ t \in Nat
      /\ srv'[s].log \in FullLog /\ srv'[s].log.entries = l
      /\ \A v \in Server : srv'[s].peers[v].matched \in Nat
  BY <1>2, LogNext, StateFields, Bounds DEF Sound, Entries
<1>4. n <= Len(l)
  <2>1. PICK v \in V : TRUE
    BY <1>1, QuorumsMeet
  <2>2. CASE v = s
    BY <1>1, <1>2, <2>1, <2>2
  <2>3. CASE v # s
    <3>1. srv'[s].peers[v].matched <= Len(l)
      BY <1>2, <2>3 DEF MatchedInLog, Peers
    <3> QED
      BY <1>1, <1>3, <2>3, <3>1
  <2> QED
    BY <2>2, <2>3
<1>5. n \in 1 .. Len(l) /\ l[n].term = t
  <2>1. n \in 0 .. Len(l)
    BY <1>3, <1>4
  <2> QED
    BY <1>3, <2>1, TermAtFacts
<1>6. PICK p : p = SubSeq(l, 1, n)
  OBVIOUS
<1>7. p \in Prefix /\ Len(p) = n /\ (\A i \in 1 .. n : l[i] = p[i]) /\ TermOf(p) = t
  <2>1. \A i \in 1 .. n : l[i] \in LogEntry
    BY <1>3, <1>5, ElementOfSeq
  <2>2. p \in Seq(LogEntry) /\ Len(p) = n /\ \A i \in 1 .. n : p[i] = l[1 + i - 1]
    BY <1>5, <1>6, <2>1, SubSeqProperties
  <2>3. \A i \in 1 .. n : l[i] = p[i]
    BY <2>2
  <2> QED
    BY <1>5, <2>2, <2>3 DEF Prefix, TermOf
<1>8. Leads(s, t)' /\ Has(s, p)'
  BY <1>2, <1>4, <1>7 DEF Leads, Has, AgreeTo
<1>9. ~Blocked(s, n)'
  <2> SUFFICES ASSUME NEW R \in SUBSET Server, 2 * Cardinality(R) > Cardinality(Server),
                      \A q \in R : srv'[q].term > srv'[s].term /\ ~Counts(s, q, n)'
               PROVE  FALSE
    BY DEF Blocked
  <2>1. PICK r \in R : r \in V
    BY <1>1, QuorumsMeet
  <2>2. r # s
    BY <1>3, <2>1
  <2>3. srv'[s].peers[r].matched >= n
    BY <1>1, <1>3, <2>1, <2>2
  <2> QED
    BY <2>1, <2>2, <2>3 DEF Counts
<1>10. Open(p)' /\ CountedHave(s, p)'
  BY <1>7, <1>8, <1>9 DEF Committable, TermOf
<1>11. ASSUME NEW v \in V PROVE srv'[v].term >= t /\ Has(v, p)'
  <2>1. CASE v = s
    BY <1>3, <1>8, <2>1
  <2>2. CASE v # s
    <3>1. srv'[s].peers[v].matched >= n
      BY <1>1, <1>3, <2>2
    <3>2. Counts(s, v, n)'
      BY <2>2, <3>1 DEF Counts
    <3> QED
      BY <1>7, <1>10, <3>2 DEF CountedHave, TermOf
  <2> QED
    BY <2>1, <2>2
<1>12. Kept(p)'
  BY <1>1, <1>7, <1>10, <1>11 DEF Kept, Keeps, TermOf
<1> QED
  BY <1>3, <1>7, <1>12 DEF KnownTo, TermOf

LEMMA QuickKnownKept ==
    ASSUME Sound, Sound', Next, OwnTermCommits, Ordered, Ordered', MatchedInLog', Committable',
           QuickKnown
    PROVE  QuickKnown'
<1>1. ASSUME NEW s \in Server, NEW n, n = srv'[s].quick, NEW t, t = srv'[s].term
      PROVE  KnownTo(n, t)'
  <2>1. PICK a, u : a = srv[s].quick /\ u = srv[s].term
    OBVIOUS
  <2>2. n \in Nat /\ t \in Nat /\ a \in Nat /\ u \in Nat /\ u <= t
    <3>1. srv[s] \in FullState /\ srv'[s] \in FullState
      BY StateTyped, LogNext DEF Sound
    <3> QED
      BY <1>1, <2>1, <3>1, StateFields, Bounds, TermsGrow DEF Sound
  <2>3. KnownTo(a, t)'
    <3>1. KnownTo(a, u)
      BY <2>1 DEF QuickKnown
    <3> QED
      BY <2>2, <3>1, KnownStays
  <2>4. CASE n <= a
    BY <2>2, <2>3, <2>4, PrefixFields DEF KnownTo
  <2>5. CASE n > a /\ srv'[s].role = "Leader" /\ MajorityCounts(s, n)
    <3>1. TermAt(srv'[s].log, n) = t
      BY <1>1, <2>1, <2>5 DEF OwnTermCommits
    <3> QED
      BY <1>1, <2>2, <2>5, <3>1, LeaderCommits
  <2>6. CASE \E m \in msgs : TakesRequest(s, m) /\ n = m.commit
    <3>1. PICK m \in msgs : TakesRequest(s, m) /\ n = m.commit
      BY <2>6
    <3>2. m \in Requests /\ t = m.term
      BY <1>1, <3>1 DEF TakesRequest, TakesEntries
    <3>3. KnownTo(n, t)
      BY <3>1, <3>2 DEF QuickKnown
    <3> QED
      BY <2>2, <3>3, KnownStays
  <2>7. QuickComes(s)
    BY StepCommits DEF Sound, Commits
  <2>8. \/ n = a
        \/ srv'[s].role = "Leader" /\ MajorityCounts(s, n)
        \/ \E m \in msgs : TakesRequest(s, m) /\ n = m.commit
    BY <1>1, <2>1, <2>7 DEF QuickComes
  <2> QED
    BY <2>2, <2>4, <2>5, <2>6, <2>8
<1>2. ASSUME NEW m \in Requests' PROVE KnownTo(m.commit, m.term)'
  <2>1. CASE m \in Requests
    <3>1. m.term \in Nat
      BY <2>1, MessageKinds, RequestFields DEF Sound, Core
    <3>2. KnownTo(m.commit, m.term)
      BY <2>1 DEF QuickKnown
    <3>3. PICK n, t : n = m.commit /\ t = m.term
      OBVIOUS
    <3>4. KnownTo(n, t)'
      BY <3>1, <3>2, <3>3, KnownStays
    <3> QED
      BY <3>3, <3>4
  <2>2. CASE \E s \in Server : srv'[s].role = "Leader" /\ RequestOf(s, srv'[s], m)
    <3>1. PICK s \in Server : m.commit = srv'[s].quick /\ m.term = srv'[s].term
      BY <2>2 DEF RequestOf
    <3> QED
      BY <1>1, <3>1
  <2> QED
    BY <2>1, <2>2, NewRequests DEF Sound
<1>3. ASSUME NEW s \in Server PROVE KnownTo(srv[s].quick, srv[s].term)'
  <2>1. PICK n, t : n = srv'[s].quick /\ t = srv'[s].term
    OBVIOUS
  <2>2. KnownTo(n, t)'
    BY <1>1, <2>1
  <2> QED
    BY <2>1, <2>2 DEF KnownTo, TermOf
<1> QED
  BY <1>2, <1>3 DEF QuickKnown

\* What a server has known, now or from the request it takes, is kept.
LEMMA TakenKnown ==
    ASSUME Sound, Sound', Next, QuickKnown, NEW q \in Server, NEW m \in msgs, TakesRequest(q, m)
    PROVE  \E t \in Nat : t <= m.term /\ KnownTo(srv'[q].quick, t)
<1>1. /\ m \in Requests /\ srv'[q].term = m.term /\ srv'[q].role = "Follower"
      /\ srv[q].term \in Nat /\ srv'[q].term \in Nat /\ srv[q].term <= srv'[q].term
  BY TermsGrow DEF TakesRequest, TakesEntries, Sound
<1>2. QuickComes(q)
  BY StepCommits DEF Sound, Commits
<1>3. CASE srv'[q].quick = srv[q].quick
  BY <1>1, <1>3 DEF QuickKnown
<1>4. CASE \E k \in msgs : TakesRequest(q, k) /\ srv'[q].quick = k.commit
  <2>1. PICK k \in msgs : TakesRequest(q, k) /\ srv'[q].quick = k.commit
    BY <1>4
  <2>2. k \in Requests /\ srv'[q].term = k.term
    BY <2>1 DEF TakesRequest, TakesEntries
  <2> QED
    BY <1>1, <2>1, <2>2 DEF QuickKnown
<1> QED
  BY <1>1, <1>2, <1>3, <1>4 DEF QuickComes

\* A log that ends with an entry of the term of p, or of a later one, agrees with p as far as both
\* go.
LEMMA EndAgrees ==
    ASSUME Core', LinksAgree', Ordered', NEW p \in Prefix, InLaterLogs(p)',
           NEW w \in Server, Has(w, p)', NEW q \in Server, NEW b, b = Len(Entries(q)'), b # 0,
           Entries(q)'[b].term >= TermOf(p), NEW j \in 1 .. Len(p), j <= b
    PROVE  AgreeTo(Entries(q)', p, j)
<1>1. PICK l, r, n, t : l = Entries(q)' /\ r = Entries(w)' /\ n = Len(p) /\ t = TermOf(p)
  OBVIOUS
<1>2. /\ l \in Seq(LogEntry) /\ r \in Seq(LogEntry) /\ Len(r) \in Nat /\ b \in Nat /\ b = Len(l)
      /\ b \in 1 .. Len(l) /\ n \in Nat /\ n # 0 /\ p \in Seq(LogEntry) /\ t \in Nat
      /\ j \in Nat /\ j # 0 /\ j <= n /\ j <= b
  <2>1. /\ l \in Seq(LogEntry) /\ r \in Seq(LogEntry) /\ Len(r) \in Nat /\ Len(l) \in Nat
    BY <1>1, LogNext
  <2> QED
    BY <1>1, <2>1, PrefixFields
<1>3. n <= Len(r) /\ p[n].term = t /\ \A i \in 1 .. n : r[i] = p[i]
  BY <1>1 DEF Has, AgreeTo, TermOf
<1>4. l[b].term \in Nat /\ l[b].term >= t
  BY <1>1, <1>2, EntryTerm
<1>5. CASE l[b].term > t
  <2>1. Has(q, p)'
    BY <1>1, <1>2, <1>5 DEF InLaterLogs, TermOf
  <2>2. n <= Len(l) /\ \A i \in 1 .. n : l[i] = p[i]
    BY <1>1, <2>1 DEF Has, AgreeTo
  <2> QED
    BY <1>1, <1>2, <2>2 DEF AgreeTo
<1>6. CASE l[b].term = t /\ b >= n
  <2>1. PICK x \in LogLinks(r) : x.index = n /\ x.entry.term = t
    <3>1. n \in 1 .. Len(r) /\ r[n].term = t
      BY <1>2, <1>3
    <3> QED
      BY <1>2, <3>1, LinkOf
  <2>2. \A y \in LogLinks(l) : y.entry.term = t /\ n < y.index => y.prev = t
    BY <1>1, <2>1 DEF Ordered, Contiguous, IsLink
  <2>3. l[n].term = t
    <3>1. /\ l \in Seq(LogEntry) /\ n \in Nat /\ n # 0 /\ b \in n .. Len(l)
          /\ l[b].term = t
      BY <1>2, <1>6
    <3> QED
      BY <2>2, <3>1, TermRun
  <2>4. n \in 1 .. Len(p) /\ n <= Len(l) /\ AgreeTo(r, p, n)
    BY <1>1, <1>2, <1>3, <1>6 DEF AgreeTo
  <2>5. AgreeTo(Entries(q)', p, n)
    <3>1. AgreeTo(Entries(w)', p, n) /\ n <= Len(Entries(q)') /\ Entries(q)'[n].term = p[n].term
      BY <1>1, <1>3, <2>3, <2>4
    <3>2. p \in Seq(LogEntry) /\ n \in 1 .. Len(p)
      BY <1>2, <2>4
    <3> QED
      BY <3>1, <3>2, AgreeNext
  <2> QED
    BY <1>1, <1>2, <2>5 DEF AgreeTo
<1>7. CASE l[b].term = t /\ b < n
  <2>1. PICK x \in LogLinks(l) : x.index = b /\ x.entry.term = t
    BY <1>2, <1>7, LinkOf
  <2>2. \A y \in LogLinks(r) : y.entry.term = t /\ b < y.index => y.prev = t
    BY <1>1, <2>1 DEF Ordered, Contiguous, IsLink
  <2>3. n \in b .. Len(r) /\ b # 0 /\ r[n].term = t
    BY <1>2, <1>3, <1>7
  <2>4. r[b].term = t
    <3>1. r \in Seq(LogEntry) /\ b \in Nat
      BY <1>2
    <3> QED
      BY <2>2, <2>3, <3>1, TermRun
  <2>5. b \in 1 .. Len(p) /\ p[b].term = t /\ AgreeTo(r, p, b)
    BY <1>1, <1>2, <1>3, <1>7, <2>4 DEF AgreeTo
  <2>6. AgreeTo(Entries(q)', p, b)
    <3>1. AgreeTo(Entries(w)', p, b) /\ b <= Len(Entries(q)') /\ Entries(q)'[b].term = p[b].term
      BY <1>1, <1>2, <1>7, <2>5
    <3>2. p \in Seq(LogEntry) /\ b \in 1 .. Len(p)
      BY <1>2, <2>5
    <3> QED
      BY <3>1, <3>2, AgreeNext
  <2> QED
    BY <1>1, <1>2, <2>6 DEF AgreeTo
<1> QED
  BY <1>2, <1>4, <1>5, <1>6, <1>7

LEMMA CommitKeptKept ==
    ASSUME Sound, Sound', Next, ComparedCommits, Ordered, Ordered', QuickKnown, QuickKnown',
           CommitKept
    PROVE  CommitKept'
<1> SUFFICES ASSUME NEW q \in Server, NEW c, c = srv'[q].commit
             PROVE  CommittedTo(q, c)'
  BY DEF CommitKept, CommittedTo
<1>1. PICK a : a = srv[q].commit
  OBVIOUS
<1>2. PICK n, u : n = srv'[q].quick /\ u = srv'[q].term
  OBVIOUS
<1>3. /\ a \in Nat /\ c \in Nat /\ n \in Nat /\ u \in Nat
      /\ srv[q].term \in Nat /\ srv[q].term <= u
  <2>1. srv[q] \in FullState /\ srv'[q] \in FullState
    BY StateTyped, LogNext DEF Sound
  <2> QED
    BY <1>1, <1>2, <2>1, StateFields, Bounds, TermsGrow DEF Sound
<1>4. CASE c = a
  <2>1. CASE c = 0
    BY <2>1 DEF CommittedTo
  <2>2. CASE c # 0
    <3>1. PICK p \in Prefix : Kept(p) /\ TermOf(p) <= srv[q].term /\ AgreeTo(Entries(q), p, c)
      BY <1>1, <1>4, <2>2 DEF CommitKept, CommittedTo
    <3>2. Kept(p)'
      BY <3>1, KeptStays
    <3>3. c \in 1 .. Len(p) /\ TermOf(p) <= u /\ srv[q].term >= TermOf(p)
      BY <1>3, <2>2, <3>1, PrefixFields DEF AgreeTo
    <3>4. AgreeTo(Entries(q)', p, c)
      BY <3>1, <3>3, AgreeStays DEF Sound, Kept
    <3> QED
      BY <1>2, <3>2, <3>3, <3>4 DEF CommittedTo, TermOf
  <2> QED
    BY <2>1, <2>2
<1>5. CASE a < c /\ c <= n /\ srv'[q].role = "Leader"
  <2>1. KnownTo(n, u)'
    BY <1>2 DEF QuickKnown, KnownTo, TermOf
  <2>2. PICK p \in Prefix : Kept(p)' /\ n <= Len(p) /\ TermOf(p) <= u
    BY <1>3, <1>5, <2>1 DEF KnownTo, TermOf
  <2>3. Has(q, p)'
    BY <1>2, <1>3, <1>5, <2>2, PrefixFields DEF Kept, Open, LeadersHave, TermOf
  <2>4. PICK r : r = Entries(q)'
    OBVIOUS
  <2>5. r \in Seq(LogEntry) /\ Len(r) \in Nat /\ Len(p) \in Nat /\ Len(p) <= Len(r)
        /\ \A i \in 1 .. Len(p) : r[i] = p[i]
    BY <2>3, <2>4, LogNext, PrefixFields DEF Has, AgreeTo, Sound
  <2>6. c <= Len(r) /\ c <= Len(p) /\ \A i \in 1 .. c : r[i] = p[i]
    BY <1>3, <1>5, <2>2, <2>5
  <2>7. AgreeTo(Entries(q)', p, c)
    BY <2>4, <2>6 DEF AgreeTo
  <2> QED
    BY <1>2, <2>2, <2>7 DEF CommittedTo, TermOf
<1>6. CASE a < c /\ c <= n /\ c <= Len(Entries(q)') /\ \E m \in msgs : TakesRequest(q, m)
  <2>1. PICK m \in msgs : TakesRequest(q, m)
    BY <1>6
  <2>2. PICK t \in Nat : t <= m.term /\ KnownTo(n, t)
    BY <1>2, <2>1, TakenKnown
  <2>3. PICK p \in Prefix : Kept(p) /\ n <= Len(p) /\ TermOf(p) <= t
    BY <1>3, <1>6, <2>2 DEF KnownTo
  <2>4. m \in FullRequest /\ u = m.term /\ m.lastIndex \in Nat /\ Len(m.entries) \in Nat
    BY <1>2, <2>1, MessageKinds, RequestFields DEF Sound, Core, TakesRequest, TakesEntries
  <2>5. TermOf(p) <= u /\ m.term >= TermOf(p) /\ c \in 1 .. Len(p)
    BY <1>3, <1>6, <2>2, <2>3, <2>4, PrefixFields
  <2>6. Kept(p)'
    BY <2>3, KeptStays
  <2>7. PICK w \in Server : Has(w, p) /\ Has(w, p)'
    <3>1. PICK V \in SUBSET Server : Keeps(V, p)
      BY <2>3 DEF Kept
    <3>2. PICK w \in V : TRUE
      BY <3>1, QuorumsMeet DEF Keeps
    <3>3. srv[w].term >= TermOf(p) /\ Has(w, p)
      BY <3>1, <3>2 DEF Keeps
    <3>4. Has(w, p)'
      BY <2>3, <3>3, HasStays DEF Kept, Sound
    <3> QED
      BY <3>3, <3>4
  <2>8. c <= Max({a, m.lastIndex + Len(m.entries)}) \/ LastTerm(srv'[q].log) = m.term
    BY <1>1, <2>1 DEF ComparedCommits, TakesRequest
  <2>9. ASSUME c <= Max({a, m.lastIndex + Len(m.entries)})
        PROVE  AgreeTo(Entries(q)', p, c)
    <3>1. PICK k : k = m.lastIndex + Len(m.entries)
      OBVIOUS
    <3>2. k \in Nat /\ c <= Max({a, k})
      BY <2>4, <2>9, <3>1
    <3>3. Max({a, k}) = a \/ Max({a, k}) = k
      BY <1>3, <3>2, MaxOfTwo
    <3>4. c <= m.lastIndex + Len(m.entries)
      BY <1>3, <1>6, <3>1, <3>2, <3>3
    <3> QED
      BY <2>1, <2>3, <2>5, <2>7, <3>4, TakenAgrees DEF Kept, TakesRequest
  <2>10. ASSUME LastTerm(srv'[q].log) = m.term
         PROVE  AgreeTo(Entries(q)', p, c)
    <3>1. PICK l, b : l = srv'[q].log /\ b = Len(Entries(q)')
      OBVIOUS
    <3>2. l \in FullLog /\ b \in Nat /\ b = Len(l.entries) /\ Entries(q)' = l.entries
      BY <3>1, LogNext, StateFields DEF Entries, Sound
    <3>3. b # 0 /\ c <= b
      BY <1>3, <1>6, <3>1, <3>2
    <3>4. Entries(q)'[b].term = m.term
      BY <2>10, <3>1, <3>2, <3>3, LastTermIs
    <3>5. InLaterLogs(p)'
      BY <2>6 DEF Kept, Open
    <3>6. Core' /\ LinksAgree'
      BY DEF Sound, Agreement
    <3> QED
      BY <2>3, <2>5, <2>7, <3>1, <3>3, <3>4, <3>5, <3>6, EndAgrees
  <2>11. AgreeTo(Entries(q)', p, c)
    BY <2>8, <2>9, <2>10
  <2> QED
    BY <1>2, <2>5, <2>6, <2>11 DEF CommittedTo, TermOf
<1>7. CommitComes(q)
  BY StepCommits DEF Sound, Commits
<1> QED
  BY <1>1, <1>2, <1>4, <1>5, <1>6, <1>7 DEF CommitComes

-----------------------------------------------------------------------------
(* The theorems. *)

LEMMA SecureInit ==
    Init => Secure
<1> SUFFICES ASSUME Init PROVE Secure
  OBVIOUS
<1>1. /\ msgs = {}
      /\ \A s \in Server : /\ Entries(s) = <<>> /\ srv[s].role = "Follower"
                           /\ srv[s].quick = 0 /\ srv[s].commit = 0
  BY DEF Init, Entries, EmptyLog
<1>2. ~\E x : IsLink(x)
  BY <1>1 DEF IsLink, LogLinks, Requests
<1>3. Ordered
  <2>1. Below
    <3>1. Requests = {}
      BY <1>1 DEF Requests
    <3>2. \A s \in Server : 1 .. Len(Entries(s)) = {}
      BY <1>1
    <3> QED
      BY <3>1, <3>2 DEF Below
  <2>2. Rising /\ Contiguous
    BY <1>2 DEF Rising, Contiguous
  <2>3. LeaderHas
    BY <1>1 DEF LeaderHas, Leads
  <2> QED
    BY <2>1, <2>2, <2>3 DEF Ordered
<1>4. MatchedInLog /\ Committable
  BY <1>1 DEF MatchedInLog, Committable, Leads
<1>5. QuickKnown /\ CommitKept
  BY <1>1 DEF QuickKnown, CommitKept, KnownTo, CommittedTo, Requests
<1> QED
  BY <1>3, <1>4, <1>5 DEF Secure

LEMMA SecureStutters ==
    ASSUME UNCHANGED vars, Secure
    PROVE  Secure'
<1>1. srv' = srv /\ msgs' = msgs
  BY DEF vars
<1>2. \A q \in Server : \A p : Has(q, p)' = Has(q, p)
  BY <1>1 DEF Has, Entries
<1>3. \A p : Open(p)' = Open(p)
  BY <1>1, <1>2 DEF Open, InLaterLogs, LeadersHave, RequestsKeep, Compat, Entries, Requests, TermOf
<1>4. \A p : Kept(p)' = Kept(p)
  BY <1>1, <1>2, <1>3 DEF Kept, Keeps, TermOf
<1>5. \A s \in Server : \A p : /\ Blocked(s, Len(p))' = Blocked(s, Len(p))
                               /\ CountedHave(s, p)' = CountedHave(s, p)
  BY <1>1, <1>2 DEF Blocked, CountedHave, Counts, CountsAnswer, Responses, TermOf
<1>6. Ordered'
  BY <1>1 DEF Secure, Ordered, Below, Rising, Contiguous, LeaderHas, IsLink, Leads, Entries,
              Requests
<1>7. MatchedInLog' /\ Committable'
  BY <1>1, <1>2, <1>3, <1>5 DEF Secure, MatchedInLog, Committable, Leads, Entries, TermOf
<1>8. QuickKnown' /\ CommitKept'
  BY <1>1, <1>4 DEF Secure, QuickKnown, CommitKept, KnownTo, CommittedTo, Requests, Entries, TermOf
<1> QED
  BY <1>6, <1>7, <1>8 DEF Secure

LEMMA SecureKept ==
    Sound /\ Sound' /\ Secure /\ [Next]_vars
          /\ [OwnTermCommits /\ ComparedCommits /\ MatchesWithin]_vars => Secure'
<1> SUFFICES ASSUME Sound, Sound', Secure, [Next]_vars,
                    [OwnTermCommits /\ ComparedCommits /\ MatchesWithin]_vars
             PROVE  Secure'
  OBVIOUS
<1>1. CASE UNCHANGED vars
  BY <1>1, SecureStutters
<1>2. CASE Next /\ OwnTermCommits /\ ComparedCommits /\ MatchesWithin
  <2>1. Ordered'
    BY <1>2, OrderedKept DEF Secure, Sound
  <2>2. MatchedInLog'
    BY <1>2, MatchedInLogKept DEF Secure
  <2>3. Committable'
    BY <1>2, <2>1, CommittableKept DEF Secure
  <2>4. QuickKnown'
    BY <1>2, <2>1, <2>2, <2>3, QuickKnownKept DEF Secure
  <2>5. CommitKept'
    BY <1>2, <2>1, <2>4, CommitKeptKept DEF Secure
  <2> QED
    BY <2>1, <2>2, <2>3, <2>4, <2>5 DEF Secure
<1> QED
  BY <1>1, <1>2

LEMMA SecureHolds ==
    Spec /\ []TransfersInTerm
         /\ [][OwnTermCommits /\ ComparedCommits /\ MatchesWithin]_vars => []Secure
<1>1. Spec /\ []TransfersInTerm => []Sound
  BY CoreHolds, CurrentHolds, AgreementHolds, PTL DEF Sound
<1> QED
  BY <1>1, SecureInit, SecureKept, PTL DEF Spec

LEMMA KeptAgree ==
    ASSUME Core, CommitKept
    PROVE  CommittedAgree
<1> SUFFICES ASSUME NEW s \in Server, NEW q \in Server,
                    NEW i \in 1 .. Min({srv[s].commit, srv[q].commit})
             PROVE  GetAt(srv[s].log, i) = GetAt(srv[q].log, i)
  BY DEF CommittedAgree
<1>1. PICK a, b : a = srv[s].commit /\ b = srv[q].commit
  OBVIOUS
<1>2. a \in Nat /\ b \in Nat /\ i \in 1 .. a /\ i \in 1 .. b /\ a # 0 /\ b # 0
  <2>1. a \in Nat /\ b \in Nat
    BY <1>1, StateTyped, StateFields, Bounds
  <2> QED
    BY <1>1, <2>1, MinOfTwo
<1>3. PICK p \in Prefix : Kept(p) /\ AgreeTo(Entries(s), p, a)
  BY <1>1, <1>2 DEF CommitKept, CommittedTo
<1>4. PICK r \in Prefix : Kept(r) /\ AgreeTo(Entries(q), r, b)
  BY <1>1, <1>2 DEF CommitKept, CommittedTo
<1>5. PICK w \in Server : Has(w, p) /\ Has(w, r)
  BY <1>3, <1>4, KeepersMeet DEF Kept
<1>6. PICK l, f, x : l = Entries(s) /\ f = Entries(q) /\ x = Entries(w)
  OBVIOUS
<1>7. /\ a <= Len(l) /\ a <= Len(p) /\ \A k \in 1 .. a : l[k] = p[k]
      /\ b <= Len(f) /\ b <= Len(r) /\ \A k \in 1 .. b : f[k] = r[k]
      /\ \A k \in 1 .. Len(p) : x[k] = p[k]
      /\ \A k \in 1 .. Len(r) : x[k] = r[k]
      /\ Len(p) \in Nat /\ Len(r) \in Nat
  BY <1>3, <1>4, <1>5, <1>6, PrefixFields DEF Has, AgreeTo
<1>8. /\ Len(l) \in Nat /\ \A k \in 1 .. Len(l) : GetAt(srv[s].log, k) = l[k]
      /\ Len(f) \in Nat /\ \A k \in 1 .. Len(f) : GetAt(srv[q].log, k) = f[k]
  BY <1>6, LogsOf
<1>9. i \in 1 .. Len(p) /\ i \in 1 .. Len(r) /\ i \in 1 .. Len(l) /\ i \in 1 .. Len(f)
  BY <1>2, <1>7, <1>8
<1> QED
  BY <1>2, <1>7, <1>8, <1>9

LEMMA KeptOnMajority ==
    ASSUME Core, CommitKept
    PROVE  CommittedOnMajority
<1> DEFINE has(s, q) == \A i \in 1 .. srv[s].commit : /\ i <= LastIndex(srv[q].log)
                                                      /\ GetAt(srv[q].log, i) = GetAt(srv[s].log, i)
           Having(s) == {q \in Server : has(s, q)}
<1> SUFFICES ASSUME NEW s \in Server
             PROVE  Cardinality(Having(s)) > Cardinality(Server) \div 2
  BY DEF CommittedOnMajority
<1>1. PICK a : a = srv[s].commit
  OBVIOUS
<1>2. a \in Nat
  BY <1>1, StateTyped, StateFields, Bounds
<1>3. PICK V \in SUBSET Server : 2 * Cardinality(V) > Cardinality(Server) /\ V \subseteq Having(s)
  <2>1. CASE a = 0
    <3>1. \A q \in Server : has(s, q)
      BY <1>1, <2>1
    <3>2. Server \subseteq Having(s)
      BY <3>1
    <3>3. Cardinality(Server) \in Nat /\ Cardinality(Server) # 0
      BY FS_CardinalityType, FS_EmptySet, ReplicationAssumption
    <3>4. 2 * Cardinality(Server) > Cardinality(Server)
      BY <3>3
    <3> QED
      BY <3>2, <3>4
  <2>2. CASE a # 0
    <3>1. PICK p \in Prefix : Kept(p) /\ AgreeTo(Entries(s), p, a)
      BY <1>1, <2>2 DEF CommitKept, CommittedTo
    <3>2. PICK V \in SUBSET Server : Keeps(V, p)
      BY <3>1 DEF Kept
    <3>3. ASSUME NEW q \in V, NEW i \in 1 .. a
          PROVE  i <= LastIndex(srv[q].log) /\ GetAt(srv[q].log, i) = GetAt(srv[s].log, i)
      <4>1. PICK l, f : l = Entries(s) /\ f = Entries(q)
        OBVIOUS
      <4>2. /\ a <= Len(l) /\ a <= Len(p) /\ \A k \in 1 .. a : l[k] = p[k]
            /\ Len(p) <= Len(f) /\ \A k \in 1 .. Len(p) : f[k] = p[k]
            /\ Len(p) \in Nat
        BY <3>1, <3>2, <4>1, PrefixFields DEF Has, AgreeTo, Keeps
      <4>3. /\ Len(l) \in Nat /\ \A k \in 1 .. Len(l) : GetAt(srv[s].log, k) = l[k]
            /\ Len(f) \in Nat /\ LastIndex(srv[q].log) = Len(f)
            /\ \A k \in 1 .. Len(f) : GetAt(srv[q].log, k) = f[k]
        BY <4>1, LogsOf
      <4>4. i \in 1 .. Len(l) /\ i \in 1 .. Len(p) /\ i \in 1 .. Len(f) /\ i <= Len(f)
        BY <1>2, <4>2, <4>3
      <4> QED
        BY <4>2, <4>3, <4>4
    <3>4. V \subseteq Having(s)
      BY <1>1, <3>3
    <3> QED
      BY <3>2, <3>4 DEF Keeps
  <2> QED
    BY <2>1, <2>2
<1>4. Having(s) \subseteq Server
  OBVIOUS
<1> HIDE DEF Having
<1>5. /\ Cardinality(Having(s)) \in Nat /\ Cardinality(V) \in Nat /\ Cardinality(Server) \in Nat
      /\ Cardinality(V) <= Cardinality(Having(s))
  <2>1. IsFiniteSet(Having(s)) /\ IsFiniteSet(V) /\ IsFiniteSet(Server)
    BY <1>4, FS_Subset, ReplicationAssumption
  <2> QED
    BY <1>3, <2>1, FS_Subset, FS_CardinalityType
<1> QED
  BY <1>3, <1>5

(***************************************************************************)
(* What one server has committed no other has committed otherwise, in      *)
(* every group that commits as Raft asks: see OwnTermCommits,              *)
(* ComparedCommits and MatchesWithin for what the code leaves out.         *)
(***************************************************************************)
THEOREM CommitsAgree ==
    Spec /\ []TransfersInTerm
         /\ [][OwnTermCommits /\ ComparedCommits /\ MatchesWithin]_vars => []CommittedAgree
<1>1. Core /\ Secure => CommittedAgree
  BY KeptAgree DEF Secure
<1> QED
  BY <1>1, CoreHolds, SecureHolds, PTL

(***************************************************************************)
(* And what is committed is in the logs of a majority, from then on.       *)
(***************************************************************************)
THEOREM CommitsOnMajority ==
    Spec /\ []TransfersInTerm
         /\ [][OwnTermCommits /\ ComparedCommits /\ MatchesWithin]_vars => []CommittedOnMajority
<1>1. Core /\ Secure => CommittedOnMajority
  BY KeptOnMajority DEF Secure
<1> QED
  BY <1>1, CoreHolds, SecureHolds, PTL

(***************************************************************************)
(* Both without state transfers.                                           *)
(***************************************************************************)
THEOREM CommitsWithoutTransfers ==
    ASSUME MinGap > MaxIndex + MaxTerm
    PROVE  Spec /\ [][OwnTermCommits /\ ComparedCommits /\ MatchesWithin]_vars
               => [](CommittedAgree /\ CommittedOnMajority)
<1> QED
  BY NeverTransfers, CommitsAgree, CommitsOnMajority, PTL
=============================================================================
