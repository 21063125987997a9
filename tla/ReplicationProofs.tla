-------------------------- MODULE ReplicationProofs --------------------------
(***************************************************************************)
(* Theorems about Replication, for all servers, gaps and bounds.           *)
(***************************************************************************)
EXTENDS Replication, FiniteSetTheorems, SequenceTheorems, WellFoundedInduction, TLAPS

\* What the servers of this model write to their logs, and the logs of a group in which
\* nothing expires: they keep all entries from index 1 on.
LogEntry == [term : 1 .. MaxTerm, type : {"Application", "Configuration"}]
FullLog  == [start : {1}, commit : Nat, locked : {FALSE}, aged : {0}, entries : Seq(LogEntry)]

\* ServerState with such a log.
FullState == [role : {"Follower", "Leader"}, term : Term, quick : Index, commit : Index,
              log : FullLog, transfer : Transfer, peers : [Server -> Peer]]

\* Request and Response with such entries.
FullRequest == [type : {"Request"}, from : Server, to : Server, term : Term, lastTerm : Term,
                lastIndex : Index, commit : Index, entries : Seq(LogEntry), transfer : BOOLEAN]
FullResponse == [type : {"Response"}, from : Server, to : Server, accepted : BOOLEAN,
                 term : Term, next : Index \ {0}, transfer : BOOLEAN]

Entries(s) == srv[s].log.entries
Requests   == {m \in msgs : m.type = "Request"}
Responses  == {m \in msgs : m.type = "Response"}

-----------------------------------------------------------------------------
(* Numbers. *)

LEMMA MinOfTwo ==
    ASSUME NEW a \in Int, NEW b \in Int
    PROVE  Min({a, b}) = IF a <= b THEN a ELSE b
<1> DEFINE m == IF a <= b THEN a ELSE b
<1>1. m \in {a, b} /\ \A y \in {a, b} : m <= y
  OBVIOUS
<1>2. \A x \in {a, b} : (\A y \in {a, b} : x <= y) => x = m
  OBVIOUS
<1> QED
  BY <1>1, <1>2 DEF Min

LEMMA MaxOfTwo ==
    ASSUME NEW a \in Int, NEW b \in Int
    PROVE  Max({a, b}) = IF a >= b THEN a ELSE b
<1> DEFINE m == IF a >= b THEN a ELSE b
<1>1. m \in {a, b} /\ \A y \in {a, b} : m >= y
  OBVIOUS
<1>2. \A x \in {a, b} : (\A y \in {a, b} : x >= y) => x = m
  OBVIOUS
<1> QED
  BY <1>1, <1>2 DEF Max

\* A set of naturals has a least element.
LEMMA MinIsReached ==
    ASSUME NEW S \in SUBSET Nat, S # {}
    PROVE  Min(S) \in S /\ \A y \in S : Min(S) <= y
<1>1. PICK x \in S : \A y \in S : ~(<<y, x>> \in OpToRel(<, Nat))
  BY NatLessThanWellFounded, WFMin, Zenon
<1>2. \A y \in S : x <= y
  <2> TAKE y \in S
  <2>1. ~(y < x)
    <3>1. y < x => <<y, x>> \in {ss \in Nat \X Nat : ss[1] < ss[2]}
      OBVIOUS
    <3>2. OpToRel(<, Nat) = {ss \in Nat \X Nat : ss[1] < ss[2]}
      BY Zenon DEF OpToRel
    <3> QED
      BY <1>1, <3>1, <3>2
  <2> QED
    BY <2>1
<1> QED
  BY <1>1, <1>2 DEF Min

\* A bounded one has a greatest.
LEMMA MaxIsReached ==
    ASSUME NEW b \in Nat, NEW S \in SUBSET (0 .. b), S # {}
    PROVE  Max(S) \in S /\ \A y \in S : Max(S) >= y
<1> DEFINE T == {n \in 0 .. b : b - n \in S}
<1>1. PICK s \in S : TRUE
  OBVIOUS
<1>2. T \in SUBSET Nat /\ b - s \in T
  OBVIOUS
<1>3. Min(T) \in T /\ \A y \in T : Min(T) <= y
  <2> HIDE DEF T
  <2> QED
    BY <1>2, MinIsReached
<1> DEFINE t == Min(T)
<1>4. t \in 0 .. b /\ b - t \in S /\ \A y \in T : t <= y
  BY <1>3
<1> HIDE DEF t
<1>5. \A y \in S : b - t >= y
  <2> TAKE y \in S
  <2>1. b - y \in T
    OBVIOUS
  <2>2. t <= b - y
    BY <1>4, <2>1
  <2> QED
    BY <1>4, <2>2
<1> QED
  BY <1>4, <1>5 DEF Max

\* Two majorities of the servers have a server in common.
LEMMA QuorumsMeet ==
    ASSUME NEW Q \in SUBSET Server, 2 * Cardinality(Q) > Cardinality(Server),
           NEW R \in SUBSET Server, 2 * Cardinality(R) > Cardinality(Server)
    PROVE  \E q \in Q : q \in R
<1>1. IsFiniteSet(Server) /\ IsFiniteSet(Q) /\ IsFiniteSet(R)
  BY FS_Subset, ReplicationAssumption
<1>2. /\ Cardinality(Server) \in Nat /\ Cardinality(Q) \in Nat /\ Cardinality(R) \in Nat
  BY <1>1, FS_CardinalityType
<1>3. Cardinality(Q) + Cardinality(R) > Cardinality(Server)
  BY <1>2
<1> QED
  BY <1>1, <1>3, FS_MajoritiesIntersect

-----------------------------------------------------------------------------
(* The helpers, on one server's state. *)

\* From e to f a server has kept its term and its log.
KeepsLog(e, f) ==
    /\ f.log.entries = e.log.entries
    /\ f.term = e.term /\ f.role = e.role /\ f.transfer = e.transfer

\* From e to f a server has not changed what it knows to be committed, or matched.
SameCommit(e, f) ==
    /\ f.quick = e.quick /\ f.commit = e.commit
    /\ \A p \in Server : f.peers[p].matched = e.peers[p].matched

\* From e to f a server has only committed and dealt with its connections.
Quiet(e, f) == KeepsLog(e, f) /\ \A p \in Server : f.peers[p].next = e.peers[p].next

LEMMA Bounds ==
    /\ MaxTerm \in Nat /\ MaxIndex \in Nat /\ MaxFaults \in Nat
    /\ MinGap \in Nat /\ MinGap > 0 /\ MaxEntries \in Nat /\ MaxEntries > 0
    /\ NoRetention = FALSE
    /\ 0 \in Term /\ \A t \in Term : t \in Nat /\ t <= MaxTerm
    /\ 0 \in Index /\ 1 \in Index /\ \A i \in Index : i \in Nat
    /\ \A i \in Nat, j \in Index : i <= j => i \in Index
    /\ \A i \in Nat : i <= MaxIndex + MaxTerm => i \in Index /\ i + 1 \in Index
BY ReplicationAssumption DEF Term, Index

LEMMA StateFields ==
    ASSUME NEW e \in FullState
    PROVE  /\ e.role \in {"Follower", "Leader"} /\ e.term \in Term
           /\ e.quick \in Index /\ e.commit \in Index /\ e.transfer \in Transfer
           /\ e.log \in FullLog /\ e.log.start = 1 /\ e.log.aged = 0
           /\ e.log.entries \in Seq(LogEntry) /\ Len(e.log.entries) \in Nat
           /\ e.peers \in [Server -> Peer]
           /\ \A p \in Server : /\ e.peers[p] \in Peer
                                /\ e.peers[p].next \in Index \ {0}
                                /\ e.peers[p].matched \in Index
                                /\ e.peers[p].rewind \in Nat
                                /\ e.peers[p].link \in {"down", "idle", "busy"}
           /\ EndIndex(e.log) = Len(e.log.entries) + 1
           /\ LastIndex(e.log) = Len(e.log.entries)
           /\ \A i \in 1 .. Len(e.log.entries) : /\ e.log.entries[i] \in LogEntry
                                                 /\ GetAt(e.log, i) = e.log.entries[i]
<1>1. /\ e.role \in {"Follower", "Leader"} /\ e.term \in Term
      /\ e.quick \in Index /\ e.commit \in Index /\ e.transfer \in Transfer
      /\ e.log \in FullLog /\ e.peers \in [Server -> Peer]
  BY DEF FullState
<1>2. /\ e.log.start = 1 /\ e.log.aged = 0 /\ e.log.entries \in Seq(LogEntry)
  BY <1>1 DEF FullLog
<1>3. Len(e.log.entries) \in Nat
  BY <1>2, LenProperties
<1>4. \A p \in Server : e.peers[p] \in Peer
  BY <1>1
<1>5. \A p \in Server : /\ e.peers[p].next \in Index \ {0}
                        /\ e.peers[p].matched \in Index
                        /\ e.peers[p].rewind \in Nat
                        /\ e.peers[p].link \in {"down", "idle", "busy"}
  BY <1>4 DEF Peer
<1>6. EndIndex(e.log) = Len(e.log.entries) + 1 /\ LastIndex(e.log) = Len(e.log.entries)
  BY <1>2, <1>3 DEF EndIndex, LastIndex
<1>7. \A i \in 1 .. Len(e.log.entries) : /\ e.log.entries[i] \in LogEntry
                                         /\ GetAt(e.log, i) = e.log.entries[i]
  BY <1>2, <1>3, ElementOfSeq DEF GetAt
<1> QED
  BY <1>1, <1>2, <1>3, <1>4, <1>5, <1>6, <1>7

LEMMA QuietJoins ==
    ASSUME NEW e, NEW f, NEW g, Quiet(e, f), Quiet(f, g)
    PROVE  Quiet(e, g)
BY DEF Quiet, KeepsLog

\* Nothing expires, so nothing is compacted.
LEMMA CompactKeepsAll ==
    ASSUME NEW l \in FullLog, l.commit >= 1
    PROVE  Compact(l) = l
<1>1. /\ l.start = 1 /\ l.aged = 0 /\ l.entries \in Seq(LogEntry) /\ l.commit \in Nat
      /\ l.locked = FALSE
  BY DEF FullLog
<1>2. Expired(l) = 0
  BY <1>1, Bounds DEF Expired
<1>3. Min({l.commit - l.start, Expired(l)}) = 0
  BY <1>1, <1>2, MinOfTwo
<1>4. Max({l.aged - 0, 0}) = 0
  BY <1>1, MaxOfTwo
<1>5. SubSeq(l.entries, 0 + 1, Len(l.entries)) = l.entries
  BY <1>1, SubSeqFull
<1>6. l.start + 0 = l.start /\ l.aged - 0 = 0
  BY <1>1
<1>7. [l EXCEPT !.start = l.start, !.aged = l.aged, !.entries = l.entries] = l
  BY DEF FullLog
<1> QED
  BY <1>1, <1>3, <1>4, <1>5, <1>6, <1>7 DEF Compact

LEMMA CommitKeepsAll ==
    ASSUME NEW l \in FullLog, NEW n \in Nat, n >= 1
    PROVE  Commit(l, n) \in FullLog /\ Commit(l, n).entries = l.entries
<1> DEFINE c == [l EXCEPT !.commit = n]
<1>1. c \in FullLog /\ c.commit = n /\ c.entries = l.entries
  BY DEF FullLog
<1>2. Commit(l, n) = Compact(c)
  BY DEF Commit
<1> HIDE DEF c
<1> QED
  BY <1>1, <1>2, CompactKeepsAll

LEMMA LocalCommitQuiet ==
    ASSUME NEW e \in FullState
    PROVE  LocalCommit(e) \in FullState /\ Quiet(e, LocalCommit(e))
<1> DEFINE n == Min({e.quick, LastIndex(e.log)})
<1>1. n \in Index
  <2>1. e.quick \in Nat /\ LastIndex(e.log) \in Nat
    BY StateFields, Bounds
  <2>2. n \in Nat /\ n <= e.quick
    BY <2>1, MinOfTwo
  <2> QED
    BY <2>2, StateFields, Bounds
<1>2. CASE n <= e.commit
  BY <1>2 DEF LocalCommit, Quiet, KeepsLog
<1>3. CASE ~(n <= e.commit)
  <2> DEFINE c == Commit(e.log, n)
  <2>1. n \in Nat /\ n >= 1
    <3>1. n \in Nat /\ e.commit \in Nat
      BY <1>1, StateFields, Bounds
    <3> HIDE DEF n
    <3> QED
      BY <1>3, <3>1
  <2>2. LocalCommit(e) = [e EXCEPT !.commit = n, !.log = c]
    BY <1>3 DEF LocalCommit
  <2>3. c \in FullLog /\ c.entries = e.log.entries
    BY <2>1, StateFields, CommitKeepsAll
  <2> HIDE DEF n, c
  <2>4. LocalCommit(e) \in FullState
    BY <1>1, <2>2, <2>3 DEF FullState
  <2>5. Quiet(e, LocalCommit(e))
    BY <2>2, <2>3 DEF FullState, Quiet, KeepsLog
  <2> QED
    BY <2>4, <2>5
<1> QED
  BY <1>2, <1>3

\* A change of the peers' links alone.
LEMMA LinksQuiet ==
    ASSUME NEW e \in FullState, NEW ps \in [Server -> Peer],
           \A p \in Server : ps[p].next = e.peers[p].next
    PROVE  /\ [e EXCEPT !.peers = ps] \in FullState
           /\ Quiet(e, [e EXCEPT !.peers = ps])
<1>1. [e EXCEPT !.peers = ps] \in FullState
  BY DEF FullState
<1>2. Quiet(e, [e EXCEPT !.peers = ps])
  BY DEF FullState, Quiet, KeepsLog
<1> QED
  BY <1>1, <1>2

LEMMA SendToQuiet ==
    ASSUME NEW e \in FullState, NEW P
    PROVE  /\ SendTo(e, P) \in FullState
           /\ Quiet(e, SendTo(e, P))
           /\ SendTo(e, P).quick = e.quick
<1> DEFINE ps == [p \in Server |->
              IF p \in P /\ e.peers[p].link = "idle" THEN [e.peers[p] EXCEPT !.link = "busy"]
                                                     ELSE e.peers[p]]
<1>1. \A p \in Server : ps[p] \in Peer /\ ps[p].next = e.peers[p].next
  BY StateFields DEF Peer
<1>2. ps \in [Server -> Peer]
  BY <1>1
<1>3. SendTo(e, P) = [e EXCEPT !.peers = ps]
  BY DEF SendTo
<1> HIDE DEF ps
<1>4. [e EXCEPT !.peers = ps].quick = e.quick
  BY DEF FullState
<1> QED
  BY <1>1, <1>2, <1>3, <1>4, LinksQuiet

LEMMA CommitToQuiet ==
    ASSUME NEW s \in Server, NEW e \in FullState, NEW i \in Index
    PROVE  CommitTo(s, e, i) \in FullState /\ Quiet(e, CommitTo(s, e, i))
<1> DEFINE n == Max({e.quick, i})
           raised == [e EXCEPT !.quick = n]
           f == IF i > e.quick /\ e.role = "Leader" THEN SendTo(raised, Peers(s)) ELSE raised
<1>1. n \in Index
  <2>1. e.quick \in Index /\ e.quick \in Nat /\ i \in Nat
    BY StateFields, Bounds
  <2>2. n = e.quick \/ n = i
    BY <2>1, MaxOfTwo
  <2> QED
    BY <2>1, <2>2
<1> HIDE DEF n
<1>2. raised \in FullState
  BY <1>1 DEF FullState
<1>3. Quiet(e, raised)
  BY <1>1 DEF FullState, Quiet, KeepsLog
<1> HIDE DEF raised
<1>4. f \in FullState /\ Quiet(raised, f)
  BY <1>2, SendToQuiet DEF Quiet, KeepsLog
<1>5. CommitTo(s, e, i) = LocalCommit(f)
  BY DEF CommitTo, n, raised
<1> HIDE DEF f
<1> QED
  BY <1>3, <1>4, <1>5, LocalCommitQuiet, QuietJoins

\* Only a leader sends on a commit.
LEMMA FollowerSendsNothing ==
    ASSUME NEW s \in Server, NEW e \in FullState, NEW i \in Index, e.role # "Leader"
    PROVE  CommitTo(s, e, i).peers = e.peers
<1> DEFINE raised == [e EXCEPT !.quick = Max({e.quick, i})]
<1>1. CommitTo(s, e, i) = LocalCommit(raised)
  BY DEF CommitTo
<1>2. raised.peers = e.peers
  BY DEF FullState
<1>3. LocalCommit(raised).peers = raised.peers
  <2>1. raised.log = e.log /\ "log" \in DOMAIN raised /\ "commit" \in DOMAIN raised
    BY DEF FullState
  <2>2. \A n, c : [raised EXCEPT !.commit = n, !.log = c].peers = raised.peers
    BY DEF FullState
  <2> HIDE DEF raised
  <2> QED
    BY <2>2 DEF LocalCommit
<1> QED
  BY <1>1, <1>2, <1>3

LEMMA RequestAppendEntriesQuiet ==
    ASSUME NEW s \in Server, NEW e \in FullState, Len(e.log.entries) \in Index
    PROVE  /\ RequestAppendEntries(s, e) \in FullState
           /\ Quiet(e, RequestAppendEntries(s, e))
BY StateFields, CommitToQuiet, SendToQuiet DEF RequestAppendEntries

LEMMA AnsweredQuiet ==
    ASSUME NEW e \in FullState, NEW p \in Server
    PROVE  /\ Answered(e, p) \in FullState /\ Quiet(e, Answered(e, p))
           /\ \A q \in Server : Answered(e, p).peers[q].link = "busy"
                                  => e.peers[q].link = "busy"
<1> DEFINE ps == [e.peers EXCEPT ![p].link = "idle"]
<1>1. \A q \in Server : /\ ps[q] \in Peer /\ ps[q].next = e.peers[q].next
                        /\ ps[q].link = "busy" => e.peers[q].link = "busy"
  BY StateFields DEF Peer
<1>2. ps \in [Server -> Peer]
  BY <1>1, StateFields
<1>3. CASE e.peers[p].link = "busy"
  <2>1. Answered(e, p) = [e EXCEPT !.peers = ps]
    BY <1>3 DEF Answered
  <2> HIDE DEF ps
  <2>2. [e EXCEPT !.peers = ps].peers = ps
    BY DEF FullState
  <2> QED
    BY <1>1, <1>2, <2>1, <2>2, LinksQuiet
<1>4. CASE e.peers[p].link # "busy"
  BY <1>4 DEF Answered, Quiet, KeepsLog
<1> QED
  BY <1>3, <1>4

LEMMA DisconnectedQuiet ==
    ASSUME NEW e \in FullState, NEW p \in Server, NEW to \in {"down", "idle"}
    PROVE  /\ [e EXCEPT !.peers[p].link = to] \in FullState
           /\ Quiet(e, [e EXCEPT !.peers[p].link = to])
<1> DEFINE ps == [e.peers EXCEPT ![p].link = to]
<1>1. \A q \in Server : ps[q] \in Peer /\ ps[q].next = e.peers[q].next
  BY StateFields DEF Peer
<1>2. ps \in [Server -> Peer]
  BY <1>1, StateFields
<1>3. [e EXCEPT !.peers[p].link = to] = [e EXCEPT !.peers = ps]
  BY DEF FullState
<1> HIDE DEF ps
<1> QED
  BY <1>1, <1>2, <1>3, LinksQuiet

\* A server that becomes follower, or sees a term: what it keeps.
LEMMA BecomeFollowerKeeps ==
    ASSUME NEW e \in FullState
    PROVE  LET f == BecomeFollower(e) IN
           /\ f \in FullState /\ f.role = "Follower" /\ f.term = e.term
           /\ f.log = e.log /\ f.transfer = e.transfer
           /\ \A p \in Server : /\ f.peers[p].next = e.peers[p].next
                                /\ f.peers[p].link = "down"
<1> DEFINE ps == [p \in Server |-> [e.peers[p] EXCEPT !.link = "down"]]
<1>1. \A q \in Server : /\ ps[q] \in Peer /\ ps[q].next = e.peers[q].next
                        /\ ps[q].link = "down"
  BY StateFields DEF Peer
<1>2. ps \in [Server -> Peer]
  BY <1>1
<1>3. BecomeFollower(e) = [e EXCEPT !.role = "Follower", !.peers = ps]
  BY DEF BecomeFollower
<1> HIDE DEF ps
<1>4. [e EXCEPT !.role = "Follower", !.peers = ps] \in FullState
  BY <1>2 DEF FullState
<1>5. LET f == [e EXCEPT !.role = "Follower", !.peers = ps]
      IN  /\ f.role = "Follower" /\ f.term = e.term /\ f.log = e.log
          /\ f.transfer = e.transfer /\ f.peers = ps
  BY DEF FullState
<1> QED
  BY <1>1, <1>3, <1>4, <1>5

LEMMA SeeTermKeeps ==
    ASSUME NEW e \in FullState, NEW t \in Term
    PROVE  LET f == SeeTerm(e, t) IN
           /\ f \in FullState /\ f.log = e.log /\ f.transfer = e.transfer
           /\ f.term = IF t > e.term THEN t ELSE e.term
           /\ f.role = IF t > e.term THEN "Follower" ELSE e.role
           /\ \A p \in Server : /\ f.peers[p].next = e.peers[p].next
                                /\ f.peers[p].link = "busy" => e.peers[p].link = "busy"
<1>1. CASE t > e.term
  <2> DEFINE g == [e EXCEPT !.term = t]
  <2>1. g \in FullState /\ g.term = t /\ g.log = e.log /\ g.transfer = e.transfer
        /\ g.peers = e.peers
    BY DEF FullState
  <2>2. SeeTerm(e, t) = BecomeFollower(g)
    BY <1>1 DEF SeeTerm
  <2> HIDE DEF g
  <2> QED
    BY <1>1, <2>1, <2>2, BecomeFollowerKeeps
<1>2. CASE ~(t > e.term)
  BY <1>2 DEF SeeTerm
<1> QED
  BY <1>1, <1>2

-----------------------------------------------------------------------------
(* Requests and the logs they are read from. *)

\* Request m is a piece of the log l, with the term before it.
InLog(m, l) ==
    /\ m.lastIndex + Len(m.entries) <= Len(l.entries)
    /\ m.lastTerm = TermAt(l, m.lastIndex)
    /\ \A k \in 1 .. Len(m.entries) : m.entries[k] = l.entries[m.lastIndex + k]

\* m is a request that server s, in state f, sends to a peer.
RequestOf(s, f, m) ==
    /\ m \in FullRequest /\ m.from = s /\ m.to # s /\ m.term = f.term
    /\ m.commit = f.quick /\ InLog(m, f.log)
    /\ m.transfer => Len(f.log.entries) >= MinGap

LEMMA TermAtFacts ==
    ASSUME NEW l \in FullLog, NEW i \in 0 .. Len(l.entries)
    PROVE  /\ TermAt(l, i) = IF i = 0 THEN 0 ELSE l.entries[i].term
           /\ TermAt(l, i) \in Term
<1>1. l.start = 1 /\ l.entries \in Seq(LogEntry) /\ Len(l.entries) \in Nat
  BY LenProperties DEF FullLog
<1>2. CASE i = 0
  <2>1. TermAt(l, i) = 0
    BY <1>1, <1>2 DEF TermAt
  <2> QED
    BY <1>2, <2>1, Bounds
<1>3. CASE i # 0
  <2>1. i \in 1 .. Len(l.entries) /\ l.entries[i] \in LogEntry
    BY <1>1, <1>3, ElementOfSeq
  <2>2. l.entries[i].term \in 1 .. MaxTerm
    BY <2>1 DEF LogEntry
  <2>3. TermAt(l, i) = l.entries[i].term
    BY <1>1, <2>1 DEF TermAt, GetAt
  <2> QED
    BY <1>3, <2>2, <2>3, Bounds DEF Term
<1> QED
  BY <1>2, <1>3

LEMMA CreateRequestOK ==
    ASSUME NEW s \in Server, NEW f \in FullState, NEW p \in Peers(s),
           Len(f.log.entries) <= MaxIndex + MaxTerm,
           f.peers[p].next <= EndIndex(f.log)
    PROVE  RequestOf(s, f, CreateRequest(s, f, p))
<1> DEFINE n    == Len(f.log.entries)
           last == f.peers[p].next - 1
           gap  == LastIndex(f.log) - last >= MinGap
           upTo == Min({LastIndex(f.log), last + MaxEntries})
           es   == IF gap THEN <<>>
                   ELSE SubSeq(f.log.entries, last - f.log.start + 2, upTo - f.log.start + 1)
           m    == CreateRequest(s, f, p)
<1>1. p \in Server /\ p # s
  BY DEF Peers
<1>2. /\ f.peers[p].next \in Index \ {0} /\ f.peers[p].next \in Nat
      /\ n \in Nat /\ n <= MaxIndex + MaxTerm
      /\ LastIndex(f.log) = n /\ EndIndex(f.log) = n + 1 /\ f.log.start = 1
  BY <1>1, StateFields, Bounds
<1>3. last \in 0 .. n /\ last \in Index
  <2> DEFINE next == f.peers[p].next
  <2>1. next \in Index /\ next \in Nat /\ next # 0 /\ next <= n + 1 /\ n \in Nat
    BY <1>2
  <2> HIDE DEF next, n
  <2>2. next - 1 \in 0 .. n /\ next - 1 <= next
    BY <2>1
  <2>3. next - 1 \in Index
    BY <2>1, <2>2, Bounds
  <2> QED
    BY <2>2, <2>3 DEF next
<1>4. m = [type |-> "Request", from |-> s, to |-> p, term |-> f.term,
           lastTerm |-> TermAt(f.log, last), lastIndex |-> last, commit |-> f.quick,
           entries |-> es, transfer |-> gap]
  BY DEF CreateRequest
<1>5. upTo \in last .. n
  <2> HIDE DEF n, last
  <2>1. n \in Int /\ last + MaxEntries \in Int
    BY <1>2, <1>3, Bounds
  <2>2. upTo = IF n <= last + MaxEntries THEN n ELSE last + MaxEntries
    BY <1>2, <2>1, MinOfTwo
  <2> HIDE DEF upTo
  <2> QED
    BY <1>2, <1>3, <2>2, Bounds
<1>6. /\ es \in Seq(LogEntry) /\ Len(es) \in Nat /\ last + Len(es) <= n
      /\ \A k \in 1 .. Len(es) : es[k] = f.log.entries[last + k]
  <2>1. CASE gap
    BY <2>1, <1>3, EmptySeq
  <2>2. CASE ~gap
    <3> DEFINE u == upTo
    <3>1. u \in last .. n
      BY <1>5
    <3>2. es = SubSeq(f.log.entries, last + 1, u)
      <4>1. last - f.log.start + 2 = last + 1 /\ u - f.log.start + 1 = u
        BY <1>2, <1>3, <3>1
      <4> QED
        BY <2>2, <4>1
    <3> HIDE DEF u, last, n, es
    <3>3. \A i \in last + 1 .. u : f.log.entries[i] \in LogEntry
      <4> TAKE i \in last + 1 .. u
      <4>1. i \in 1 .. n
        BY <1>2, <1>3, <3>1
      <4> QED
        BY <4>1, StateFields DEF n
    <3>4. /\ es \in Seq(LogEntry)
          /\ Len(es) = IF last + 1 <= u THEN u - (last + 1) + 1 ELSE 0
          /\ \A i \in 1 .. u - (last + 1) + 1 : es[i] = f.log.entries[last + 1 + i - 1]
      BY <1>2, <1>3, <3>1, <3>2, <3>3, SubSeqProperties
    <3>5. Len(es) = u - last
      BY <1>2, <1>3, <3>1, <3>4
    <3>6. \A k \in 1 .. Len(es) : es[k] = f.log.entries[last + k]
      <4> TAKE k \in 1 .. Len(es)
      <4>1. k \in 1 .. u - (last + 1) + 1 /\ last + 1 + k - 1 = last + k
        BY <1>2, <1>3, <3>1, <3>5
      <4> QED
        BY <3>4, <4>1
    <3> QED
      BY <1>2, <1>3, <3>1, <3>4, <3>5, <3>6
  <2> QED
    BY <2>1, <2>2
<1>7. TermAt(f.log, last) \in Term
  BY <1>3, StateFields, TermAtFacts
<1>8. gap \in BOOLEAN /\ (gap => n >= MinGap)
  <2> HIDE DEF n, last
  <2>1. gap = (n - last >= MinGap)
    BY <1>2
  <2>2. (n - last >= MinGap) \in BOOLEAN /\ (n - last >= MinGap => n >= MinGap)
    BY <1>2, <1>3, Bounds
  <2> QED
    BY <2>1, <2>2
<1>9. f.term \in Term /\ f.quick \in Index
  BY StateFields
<1> HIDE DEF last, gap, es, m, n
<1>10. m \in FullRequest
  BY <1>1, <1>3, <1>4, <1>6, <1>7, <1>8, <1>9 DEF FullRequest
<1>11. m.from = s /\ m.to # s /\ m.term = f.term /\ m.lastIndex = last
       /\ m.commit = f.quick /\ m.lastTerm = TermAt(f.log, last) /\ m.entries = es
       /\ m.transfer = gap
  BY <1>1, <1>4
<1>12. InLog(m, f.log)
  BY <1>6, <1>11 DEF InLog, n
<1> QED
  BY <1>8, <1>10, <1>11, <1>12 DEF RequestOf, m, n

LEMMA SentOK ==
    ASSUME NEW s \in Server, NEW e, NEW f \in FullState,
           Len(f.log.entries) <= MaxIndex + MaxTerm,
           NEW m \in Sent(s, e, f)
    PROVE  RequestOf(s, f, m)
<1>1. PICK p \in Peers(s) : f.peers[p].next <= EndIndex(f.log) /\ m = CreateRequest(s, f, p)
  BY DEF Sent
<1> QED
  BY <1>1, CreateRequestOK

\* Nothing is sent by a step that makes no peer busy.
LEMMA NothingSent ==
    ASSUME NEW s \in Server, NEW e, NEW f,
           \A p \in Server : f.peers[p].link = "busy" => e.peers[p].link = "busy"
    PROVE  Sent(s, e, f) = {}
BY DEF Sent, Peers

-----------------------------------------------------------------------------
(* append_entries. *)

\* r is the log l after the entries es from index i on: l up to the c-th of es exclusive,
\* which is the first that l does not have, and es from there.
Appended(l, es, i, c, r) ==
    /\ \A j \in 1 .. i - 1 : r[j] = l[j]
    /\ \A k \in 1 .. c - 1 : /\ i + k - 1 <= Len(l) /\ l[i + k - 1].term = es[k].term
                             /\ r[i + k - 1] = l[i + k - 1]
    /\ \A k \in c .. Len(es) : r[i + k - 1] = es[k]
    /\ \/ c = Len(es) + 1 /\ r = l
       \/ /\ c <= Len(es) /\ Len(r) = i - 1 + Len(es)
          /\ i + c - 1 > Len(l) \/ l[i + c - 1].term # es[c].term

LEMMA TrimKeeps ==
    ASSUME NEW l \in FullLog, NEW j \in Nat, j >= 1
    PROVE  /\ Trim(l, j) = [l EXCEPT !.entries = SubSeq(l.entries, 1, j - 1), !.aged = 0]
<1>1. l.start = 1 /\ l.aged = 0
  BY DEF FullLog
<1>2. Trim(l, j) = [l EXCEPT !.entries = SubSeq(l.entries, 1, j - l.start),
                             !.aged = Min({l.aged, j - l.start})]
  BY DEF Trim
<1>3. Min({0, j - 1}) = 0
  BY MinOfTwo
<1> QED
  BY <1>1, <1>2, <1>3

LEMMA AppendEntriesOK ==
    ASSUME NEW l \in FullLog, NEW es \in Seq(LogEntry), NEW i \in 1 .. Len(l.entries) + 1
    PROVE  /\ AppendEntries(l, es, i) \in FullLog
           /\ \E c \in 1 .. Len(es) + 1 :
                  Appended(l.entries, es, i, c, AppendEntries(l, es, i).entries)
<1> DEFINE x == l.entries
           n == Len(x)
           new == {k \in 1 .. Len(es) :
                       i + k > EndIndex(l) \/ GetAt(l, i + k - 1).term # es[k].term}
           c == Min(new)
           kept == Trim(l, i + c - 1)
           r == AppendEntries(l, es, i)
<1>1. /\ l.start = 1 /\ l.aged = 0 /\ x \in Seq(LogEntry) /\ n \in Nat
      /\ EndIndex(l) = n + 1 /\ Len(es) \in Nat /\ i \in Nat
  BY LenProperties DEF FullLog, EndIndex
<1>2. \A k \in 1 .. Len(es) : /\ GetAt(l, i + k - 1) = x[i + k - 1]
                              /\ i + k > EndIndex(l) <=> i + k - 1 > n
  BY <1>1 DEF GetAt
<1>3. CASE new = {}
  <2>1. r = l
    BY <1>3 DEF AppendEntries
  <2>2. \A k \in 1 .. Len(es) : i + k - 1 <= n /\ x[i + k - 1].term = es[k].term
    BY <1>1, <1>2, <1>3
  <2>3. Len(es) + 1 \in 1 .. Len(es) + 1
    BY <1>1
  <2>4. Appended(x, es, i, Len(es) + 1, r.entries)
    BY <1>1, <2>1, <2>2 DEF Appended
  <2> QED
    BY <2>1, <2>3, <2>4
<1>4. CASE new # {}
  <2>1. c \in new /\ \A k \in new : c <= k
    <3>1. new \in SUBSET Nat
      BY <1>1
    <3> HIDE DEF new
    <3> QED
      BY <1>4, <3>1, MinIsReached
  <2>2. /\ c \in 1 .. Len(es)
        /\ i + c - 1 > n \/ x[i + c - 1].term # es[c].term
    BY <1>2, <2>1
  <2>3. \A k \in 1 .. c - 1 : i + k - 1 <= n /\ x[i + k - 1].term = es[k].term
    <3> TAKE k \in 1 .. c - 1
    <3>1. k \in 1 .. Len(es) /\ ~(c <= k)
      BY <2>2, <1>1
    <3>2. k \notin new
      BY <2>1, <3>1
    <3> QED
      BY <1>1, <1>2, <3>1, <3>2
  <2>4. r = [kept EXCEPT !.entries = kept.entries \o SubSeq(es, c, Len(es))]
    BY <1>4 DEF AppendEntries
  <2> HIDE DEF new, c
  <2> DEFINE a == SubSeq(x, 1, i + c - 2)
             b == SubSeq(es, c, Len(es))
  <2>5. i + c - 2 \in 0 .. n
    <3>1. CASE c = 1
      BY <3>1, <1>1
    <3>2. CASE c > 1
      <4>1. c - 1 \in 1 .. c - 1
        BY <3>2, <2>2, <1>1
      <4>2. i + (c - 1) - 1 <= n
        BY <4>1, <2>3
      <4> QED
        BY <4>2, <3>2, <2>2, <1>1
    <3> QED
      BY <3>1, <3>2, <2>2
  <2>6. /\ a \in Seq(LogEntry) /\ Len(a) = i + c - 2
        /\ \A j \in 1 .. i + c - 2 : a[j] = x[j]
    <3> DEFINE u == i + c - 2
    <3>1. \A j \in 1 .. u : x[j] \in LogEntry
      BY <1>1, <2>5, ElementOfSeq
    <3>2. u \in Nat
      BY <1>1, <2>5
    <3> HIDE DEF u
    <3>3. /\ SubSeq(x, 1, u) \in Seq(LogEntry)
          /\ Len(SubSeq(x, 1, u)) = IF 1 <= u THEN u - 1 + 1 ELSE 0
          /\ \A j \in 1 .. u - 1 + 1 : SubSeq(x, 1, u)[j] = x[1 + j - 1]
      BY <3>1, <3>2, SubSeqProperties
    <3>4. /\ SubSeq(x, 1, u) \in Seq(LogEntry) /\ Len(SubSeq(x, 1, u)) = u
          /\ \A j \in 1 .. u : SubSeq(x, 1, u)[j] = x[j]
      BY <3>2, <3>3
    <3> QED
      BY <3>4 DEF u
  <2>7. /\ b \in Seq(LogEntry) /\ Len(b) = Len(es) - c + 1
        /\ \A j \in 1 .. Len(es) - c + 1 : b[j] = es[c + j - 1]
    <3>1. \A j \in c .. Len(es) : es[j] \in LogEntry
      BY <1>1, <2>2, ElementOfSeq
    <3> QED
      BY <1>1, <2>2, <3>1, SubSeqProperties
  <2>8. /\ kept = [l EXCEPT !.entries = a, !.aged = 0]
    <3> DEFINE j == i + c - 1
    <3>1. j \in Nat /\ j >= 1 /\ j - 1 = i + c - 2
      BY <1>1, <2>2
    <3> HIDE DEF j
    <3>2. Trim(l, j) = [l EXCEPT !.entries = SubSeq(x, 1, j - 1), !.aged = 0]
      BY <3>1, TrimKeeps
    <3> QED
      BY <3>1, <3>2 DEF j
  <2> HIDE DEF a, b, kept
  <2> DEFINE w == a \o b
  <2>9. /\ w \in Seq(LogEntry) /\ Len(w) = Len(a) + Len(b)
        /\ \A j \in 1 .. Len(a) + Len(b) :
               w[j] = IF j <= Len(a) THEN a[j] ELSE b[j - Len(a)]
    BY <2>6, <2>7, ConcatProperties
  <2>10. kept.entries = a
    BY <2>8 DEF FullLog
  <2>11. r = [kept EXCEPT !.entries = w]
    BY <2>4, <2>10 DEF b
  <2> HIDE DEF w, r
  <2>12. r \in FullLog /\ r.entries = w
    BY <2>6, <2>8, <2>9, <2>11 DEF FullLog
  <2>13. Len(w) = i - 1 + Len(es)
    BY <2>2, <2>6, <2>7, <2>9, <1>1
  <2>14. \A j \in 1 .. i + c - 2 : w[j] = x[j]
    <3> TAKE j \in 1 .. i + c - 2
    <3>1. j \in 1 .. Len(a) + Len(b) /\ j <= Len(a)
      BY <2>2, <2>5, <2>6, <2>7, <1>1
    <3> QED
      BY <3>1, <2>6, <2>9
  <2>15. \A k \in c .. Len(es) : w[i + k - 1] = es[k]
    <3> TAKE k \in c .. Len(es)
    <3> DEFINE j == i + k - 1
               h == k - c + 1
    <3>1. /\ j \in 1 .. Len(a) + Len(b) /\ ~(j <= Len(a)) /\ j - Len(a) = h
          /\ h \in 1 .. Len(es) - c + 1 /\ c + h - 1 = k
      BY <2>2, <2>5, <2>6, <2>7, <1>1
    <3>2. w[j] = b[h] /\ b[h] = es[k]
      BY <3>1, <2>7, <2>9
    <3> QED
      BY <3>2
  <2>16. \A j \in 1 .. i - 1 : w[j] = x[j]
    BY <2>14, <2>2, <1>1
  <2>17. \A k \in 1 .. c - 1 : w[i + k - 1] = x[i + k - 1]
    BY <2>14, <2>2, <1>1
  <2>18. Appended(x, es, i, c, w)
    <3> HIDE DEF x, n
    <3> QED
      BY <2>2, <2>3, <2>13, <2>15, <2>16, <2>17 DEF Appended, n
  <2>19. c \in 1 .. Len(es) + 1
    BY <2>2, <1>1
  <2> QED
    BY <2>12, <2>18, <2>19 DEF r
<1> QED
  BY <1>3, <1>4

\* Where the entries of the result come from.
LEMMA AppendedFrom ==
    ASSUME NEW l \in Seq(LogEntry), NEW es \in Seq(LogEntry), NEW i \in 1 .. Len(l) + 1,
           NEW c \in 1 .. Len(es) + 1, NEW r \in Seq(LogEntry), Appended(l, es, i, c, r)
    PROVE  /\ Len(r) = Len(l) \/ Len(r) = i - 1 + Len(es)
           /\ Len(r) >= i - 1 + Len(es)
           /\ \A j \in 1 .. Len(r) :
                  \/ j \in 1 .. Len(l) /\ r[j] = l[j]
                  \/ \E k \in 1 .. Len(es) : j = i - 1 + k /\ r[j] = es[k]
<1>1. Len(l) \in Nat /\ Len(es) \in Nat /\ Len(r) \in Nat
  BY LenProperties
<1>2. CASE r = l /\ c = Len(es) + 1
  <2>1. Len(r) >= i - 1 + Len(es)
    <3>1. CASE Len(es) = 0
      BY <1>1, <1>2, <3>1
    <3>2. CASE Len(es) # 0
      <4>1. Len(es) \in 1 .. c - 1
        BY <1>1, <1>2, <3>2
      <4>2. i + Len(es) - 1 <= Len(l)
        BY <4>1 DEF Appended
      <4> QED
        BY <1>1, <1>2, <4>2
    <3> QED
      BY <3>1, <3>2
  <2> QED
    BY <1>2, <2>1
<1>3. CASE c <= Len(es) /\ Len(r) = i - 1 + Len(es)
  <2> SUFFICES ASSUME NEW j \in 1 .. Len(r)
               PROVE  \/ j \in 1 .. Len(l) /\ r[j] = l[j]
                      \/ \E k \in 1 .. Len(es) : j = i - 1 + k /\ r[j] = es[k]
    BY <1>1, <1>3
  <2>1. CASE j <= i - 1
    <3>1. j \in 1 .. i - 1 /\ j \in 1 .. Len(l)
      BY <1>1, <2>1
    <3> QED
      BY <3>1 DEF Appended
  <2>2. CASE ~(j <= i - 1)
    <3> DEFINE k == j - i + 1
    <3>1. k \in 1 .. Len(es) /\ i + k - 1 = j /\ j = i - 1 + k
      BY <1>1, <1>3, <2>2
    <3>2. CASE k <= c - 1
      <4>1. k \in 1 .. c - 1
        BY <3>1, <3>2
      <4>2. i + k - 1 <= Len(l) /\ r[i + k - 1] = l[i + k - 1]
        BY <4>1 DEF Appended
      <4> QED
        BY <3>1, <4>2
    <3>3. CASE ~(k <= c - 1)
      <4>1. k \in c .. Len(es)
        BY <3>1, <3>3
      <4>2. r[i + k - 1] = es[k]
        BY <4>1 DEF Appended
      <4> QED
        BY <3>1, <4>2
    <3> QED
      BY <3>2, <3>3
  <2> QED
    BY <2>1, <2>2
<1> QED
  BY <1>2, <1>3 DEF Appended

-----------------------------------------------------------------------------
(***************************************************************************)
(* What holds whatever the transfers do: the types; that a majority has    *)
(* reached every term there is, so that an election, which asks a          *)
(* majority, finds a higher one; that a term has one leader.               *)
(***************************************************************************)
Reached(t) == 2 * Cardinality({q \in Server : srv[q].term >= t}) > Cardinality(Server)

\* A log of n entries: one election in each term adds an entry, clients up to MaxIndex.
Fits(n) == \E t \in Term : Reached(t) /\ n <= MaxIndex + t

OneLeaderPerTerm ==
    \A s, q \in Server : (Leads(s, srv[s].term) /\ Leads(q, srv[s].term)) => s = q

ServerOK(e) ==
    /\ Reached(e.term)
    /\ e.role = "Leader" => e.term # 0
    /\ Fits(Len(e.log.entries))
    /\ \A i \in 1 .. Len(e.log.entries) : Reached(e.log.entries[i].term)
    /\ \/ e.transfer = NoTransfer
       \/ e.transfer.from \in Server /\ e.transfer.start \in 1 .. Len(e.log.entries) + 1

MessageOK(m) ==
    /\ Reached(m.term)
    /\ m.type = "Request" =>
           /\ m.lastIndex = 0 => m.lastTerm = 0
           /\ Fits(m.lastIndex + Len(m.entries))
           /\ \A k \in 1 .. Len(m.entries) : Reached(m.entries[k].term)

Typed == /\ srv \in [Server -> FullState]
         /\ msgs \subseteq (FullRequest \cup FullResponse)
         /\ faults \in 0 .. MaxFaults

Core == /\ Typed
        /\ \A s \in Server : ServerOK(srv[s])
        /\ \A m \in msgs : MessageOK(m)
        /\ OneLeaderPerTerm

LEMMA RequestFields ==
    ASSUME NEW m \in FullRequest
    PROVE  /\ m.type = "Request" /\ m.from \in Server /\ m.to \in Server
           /\ m.term \in Term /\ m.term \in Nat
           /\ m.lastTerm \in Term /\ m.commit \in Index /\ m.lastIndex \in Index
           /\ m.lastIndex \in Nat /\ m.transfer \in BOOLEAN
           /\ m.entries \in Seq(LogEntry) /\ Len(m.entries) \in Nat
           /\ \A k \in 1 .. Len(m.entries) : m.entries[k] \in LogEntry
<1>1. /\ m.type = "Request" /\ m.from \in Server /\ m.to \in Server
      /\ m.term \in Term /\ m.lastTerm \in Term /\ m.commit \in Index
      /\ m.lastIndex \in Index /\ m.entries \in Seq(LogEntry) /\ m.transfer \in BOOLEAN
  BY DEF FullRequest
<1> QED
  BY <1>1, Bounds, LenProperties, ElementOfSeq

LEMMA ResponseFields ==
    ASSUME NEW m \in FullResponse
    PROVE  /\ m.type = "Response" /\ m.from \in Server /\ m.to \in Server
           /\ m.term \in Term /\ m.term \in Nat /\ m.accepted \in BOOLEAN
           /\ m.next \in Index /\ m.next \in Nat /\ m.next >= 1 /\ m.transfer \in BOOLEAN
<1>1. /\ m.type = "Response" /\ m.from \in Server /\ m.to \in Server
      /\ m.term \in Term /\ m.accepted \in BOOLEAN /\ m.next \in Index \ {0}
      /\ m.transfer \in BOOLEAN
  BY DEF FullResponse
<1>2. m.term \in Nat /\ m.next \in Nat
  BY <1>1, Bounds
<1> QED
  BY <1>1, <1>2

LEMMA MessageKinds ==
    ASSUME Typed
    PROVE  /\ \A m \in Requests : m \in msgs /\ m \in FullRequest
           /\ \A m \in Responses : m \in msgs /\ m \in FullResponse
           /\ \A m \in msgs : m \in FullRequest \/ m \in FullResponse
BY DEF Typed, Requests, Responses, FullRequest, FullResponse

\* Terms only grow, so what is reached stays so.
LEMMA ReachedGrows ==
    ASSUME srv \in [Server -> FullState], srv' \in [Server -> FullState],
           \A q \in Server : srv'[q].term >= srv[q].term,
           NEW t \in Nat, Reached(t)
    PROVE  Reached(t)'
<1> DEFINE S == {q \in Server : srv[q].term >= t}
           S2 == {q \in Server : srv'[q].term >= t}
<1>1. \A q \in Server : srv[q].term \in Nat /\ srv'[q].term \in Nat
  BY StateFields, Bounds
<1>2. S \subseteq S2
  BY <1>1
<1>3. S2 \subseteq Server
  OBVIOUS
<1> HIDE DEF S, S2
<1>4. IsFiniteSet(Server) /\ IsFiniteSet(S2) /\ IsFiniteSet(S)
  BY <1>2, <1>3, ReplicationAssumption, FS_Subset
<1>5. /\ Cardinality(S) <= Cardinality(S2)
      /\ Cardinality(S) \in Nat /\ Cardinality(S2) \in Nat /\ Cardinality(Server) \in Nat
  BY <1>2, <1>4, FS_Subset, FS_CardinalityType
<1>6. 2 * Cardinality(S) > Cardinality(Server)
  BY DEF Reached, S
<1>7. 2 * Cardinality(S2) > Cardinality(Server)
  BY <1>5, <1>6
<1> QED
  BY <1>7 DEF Reached, S2

LEMMA FitsGrows ==
    ASSUME srv \in [Server -> FullState], srv' \in [Server -> FullState],
           \A q \in Server : srv'[q].term >= srv[q].term,
           NEW n, Fits(n)
    PROVE  Fits(n)'
<1>1. PICK t \in Term : Reached(t) /\ n <= MaxIndex + t
  BY DEF Fits
<1>2. t \in Nat
  BY Bounds
<1>3. Reached(t)'
  BY <1>1, <1>2, ReachedGrows
<1> QED
  BY <1>1, <1>3 DEF Fits

LEMMA FitsBound ==
    ASSUME NEW n \in Nat, Fits(n)
    PROVE  n <= MaxIndex + MaxTerm /\ n \in Index /\ n + 1 \in Index
<1>1. PICK t \in Term : n <= MaxIndex + t
  BY DEF Fits
<1>2. n <= MaxIndex + MaxTerm
  BY <1>1, Bounds
<1> QED
  BY <1>2, Bounds

LEMMA FitsLess ==
    ASSUME NEW n \in Nat, NEW i \in Nat, i <= n, Fits(n)'
    PROVE  Fits(i)'
<1>1. PICK t \in Term : Reached(t)' /\ n <= MaxIndex + t
  BY DEF Fits
<1>2. i <= MaxIndex + t
  BY <1>1, Bounds
<1> QED
  BY <1>1, <1>2 DEF Fits

LEMMA ServerOKGrows ==
    ASSUME srv \in [Server -> FullState], srv' \in [Server -> FullState],
           \A q \in Server : srv'[q].term >= srv[q].term,
           NEW e \in FullState, ServerOK(e)
    PROVE  ServerOK(e)'
<1>1. e.term \in Nat /\ \A i \in 1 .. Len(e.log.entries) : e.log.entries[i].term \in Nat
  BY StateFields, Bounds DEF LogEntry
<1>2. Reached(e.term)' /\ Fits(Len(e.log.entries))'
  BY <1>1, ReachedGrows, FitsGrows DEF ServerOK
<1>3. \A i \in 1 .. Len(e.log.entries) : Reached(e.log.entries[i].term)'
  BY <1>1, ReachedGrows DEF ServerOK
<1> QED
  BY <1>2, <1>3 DEF ServerOK

LEMMA MessageOKGrows ==
    ASSUME srv \in [Server -> FullState], srv' \in [Server -> FullState],
           \A q \in Server : srv'[q].term >= srv[q].term,
           NEW m \in FullRequest \cup FullResponse, MessageOK(m)
    PROVE  MessageOK(m)'
<1>1. Reached(m.term)'
  BY RequestFields, ResponseFields, ReachedGrows DEF MessageOK
<1>2. CASE m \in FullResponse
  BY <1>1, <1>2, ResponseFields DEF MessageOK
<1>3. CASE m \in FullRequest
  <2>1. \A k \in 1 .. Len(m.entries) : m.entries[k].term \in Nat
    BY <1>3, RequestFields DEF LogEntry
  <2>2. \A k \in 1 .. Len(m.entries) : Reached(m.entries[k].term)'
    BY <1>3, <2>1, RequestFields, ReachedGrows DEF MessageOK
  <2>3. Fits(m.lastIndex + Len(m.entries))'
    BY <1>3, RequestFields, FitsGrows DEF MessageOK
  <2> QED
    BY <1>1, <2>2, <2>3 DEF MessageOK
<1> QED
  BY <1>2, <1>3

\* A request is as good as the state it is made from.
LEMMA RequestOfOK ==
    ASSUME NEW s \in Server, NEW f \in FullState, ServerOK(f)', NEW m, RequestOf(s, f, m)
    PROVE  m \in FullRequest /\ MessageOK(m)'
<1>1. m \in FullRequest /\ m.term = f.term /\ InLog(m, f.log)
  BY DEF RequestOf
<1> DEFINE n == Len(f.log.entries)
<1>2. /\ m.lastIndex \in Nat /\ Len(m.entries) \in Nat /\ n \in Nat
      /\ m.lastIndex + Len(m.entries) <= n /\ m.lastTerm = TermAt(f.log, m.lastIndex)
      /\ \A k \in 1 .. Len(m.entries) : m.entries[k] = f.log.entries[m.lastIndex + k]
  BY <1>1, RequestFields, StateFields DEF InLog
<1>3. Fits(m.lastIndex + Len(m.entries))'
  BY <1>2, FitsLess DEF ServerOK
<1>4. m.lastIndex = 0 => m.lastTerm = 0
  BY <1>2, StateFields, TermAtFacts
<1>5. \A k \in 1 .. Len(m.entries) : Reached(m.entries[k].term)'
  <2> TAKE k \in 1 .. Len(m.entries)
  <2>1. m.lastIndex + k \in 1 .. n
    BY <1>2
  <2> QED
    BY <1>2, <2>1 DEF ServerOK
<1>6. Reached(m.term)'
  BY <1>1 DEF ServerOK
<1> QED
  BY <1>1, <1>3, <1>4, <1>5, <1>6 DEF MessageOK

-----------------------------------------------------------------------------
(***************************************************************************)
(* What a step does to terms, logs, transfers and messages.  The proofs    *)
(* below argue about these six kinds of steps, not about the actions.      *)
(***************************************************************************)

\* Only server s changes, and it does not begin to lead.
Alone(s) ==
    /\ srv'[s] \in FullState /\ srv' = [srv EXCEPT ![s] = srv'[s]]
    /\ srv'[s].term >= srv[s].term
    /\ srv'[s].role = "Leader" => Leads(s, srv'[s].term)

\* What is sent is the answers, and requests of s if it leads.
Sends(s, answers) ==
    \A m \in msgs' : \/ m \in msgs
                     \/ m \in answers
                     \/ srv'[s].role = "Leader" /\ RequestOf(s, srv'[s], m)

SameLogs(s) ==
    /\ Alone(s) /\ Sends(s, {})
    /\ Entries(s)' = Entries(s)
    /\ srv'[s].transfer \in {srv[s].transfer, NoTransfer}
    /\ srv'[s].term = srv[s].term \/ \E m \in msgs : srv'[s].term = m.term

AppendsEntry(s) ==
    /\ Alone(s) /\ Sends(s, {})
    /\ Leads(s, srv[s].term) /\ srv'[s].role = "Leader" /\ srv'[s].term = srv[s].term
    /\ Len(Entries(s)) + 1 <= MaxIndex
    /\ Entries(s)' = Append(Entries(s), [term |-> srv[s].term, type |-> "Application"])
    /\ srv'[s].transfer = srv[s].transfer

\* s does not take what request m brings; it may begin a state transfer.
RefusesRequest(s, m) ==
    /\ Alone(s) /\ m \in Requests /\ m.to = s
    /\ srv'[s].term \in {srv[s].term, m.term} /\ srv'[s].term >= m.term
    /\ Entries(s)' = Entries(s)
    /\ \/ srv'[s].transfer = srv[s].transfer
       \/ /\ srv[s].transfer = NoTransfer /\ m.transfer /\ LogOk(srv[s].log, m)
          /\ srv'[s].transfer = [from |-> m.from, start |-> m.lastIndex + 1, applied |-> FALSE]
    /\ \E a \in FullResponse : /\ a.from = s /\ ~a.accepted /\ a.term = srv'[s].term
                               /\ a.transfer = (m.transfer /\ LogOk(srv[s].log, m))
                               /\ Sends(s, {a})

TakesEntries(s, m) ==
    /\ Alone(s) /\ m \in Requests /\ m.to = s /\ LogOk(srv[s].log, m)
    /\ srv'[s].term = m.term /\ srv'[s].role = "Follower"
    /\ srv[s].transfer = NoTransfer /\ srv'[s].transfer = NoTransfer
    /\ Entries(s)' = AppendEntries(srv[s].log, m.entries, m.lastIndex + 1).entries
    /\ \E a \in FullResponse : /\ a.from = s /\ a.to = m.from /\ a.accepted /\ a.term = m.term
                               /\ a.next = m.lastIndex + Len(m.entries) + 1
                               /\ ~a.transfer
                               /\ Sends(s, {a})

\* s writes the log of the source of its transfer over its own.
CopiesLog(s) ==
    LET x == srv[s].transfer
    IN  /\ Alone(s) /\ msgs' = msgs
        /\ srv[s].role = "Follower" /\ srv'[s].role = "Follower" /\ srv'[s].term = srv[s].term
        /\ x # NoTransfer /\ ~x.applied /\ srv[x.from].role = "Leader"
        /\ x.start \in 1 .. Len(Entries(x.from)) + 1
        /\ Entries(s)' = SubSeq(Entries(s), 1, x.start - 1)
                         \o SubSeq(Entries(x.from), x.start, Len(Entries(x.from)))
        /\ srv'[s].transfer = [x EXCEPT !.applied = TRUE]

WinsElection(s, Q) ==
    /\ srv' \in [Server -> FullState]
    /\ Q \subseteq Server /\ s \in Q /\ 2 * Cardinality(Q) > Cardinality(Server)
    /\ srv[s].role = "Follower" /\ srv'[s].role = "Leader"
    /\ \A q \in Q : srv[q].term < srv'[s].term /\ srv'[q].term = srv'[s].term
    /\ \A q \in Q \ {s} : srv'[q].role = "Follower"
    /\ \A q \in Server \ Q : srv'[q] = srv[q]
    /\ \A q \in Server \ {s} : Entries(q)' = Entries(q)
    /\ \A q \in Server : srv'[q].transfer = srv[q].transfer
    /\ \/ Entries(s)' = Entries(s)
       \/ Entries(s)' = Append(Entries(s), [term |-> srv'[s].term, type |-> "Configuration"])
    /\ Sends(s, {})

\* Where the next index that s has for peer p comes from, if s was not elected in this
\* step: it has stepped back or is as it was, or an answer has named it.
NextComes(s, p) ==
    \/ srv'[s].peers[p].next <= srv[s].peers[p].next
    \/ \E m \in Responses : /\ m.to = s /\ Leads(s, m.term) /\ (m.accepted \/ m.transfer)
                            /\ srv'[s].peers[p].next = m.next

LEMMA NextStays ==
    ASSUME Typed, NEW s \in Server, NEW p \in Server,
           srv'[s].peers[p].next = srv[s].peers[p].next
    PROVE  NextComes(s, p)
<1>1. srv[s].peers[p].next \in Nat
  BY StateFields, Bounds DEF Typed, Peer
<1> QED
  BY <1>1 DEF NextComes

LEMMA AloneWith ==
    ASSUME Typed, NEW s \in Server, NEW f \in FullState, srv' = [srv EXCEPT ![s] = f],
           f.term >= srv[s].term, f.role = "Leader" => Leads(s, f.term)
    PROVE  Alone(s) /\ srv'[s] = f
BY DEF Alone, Typed

LEMMA AloneGives ==
    ASSUME Core, NEW s \in Server, Alone(s)
    PROVE  /\ srv \in [Server -> FullState] /\ srv' \in [Server -> FullState]
           /\ srv'[s] \in FullState
           /\ \A q \in Server : srv'[q].term >= srv[q].term
           /\ \A q \in Server \ {s} : srv'[q] = srv[q]
           /\ \A q \in Server : srv'[q].role = "Leader" => Leads(q, srv'[q].term)
<1>1. srv \in [Server -> FullState]
  BY DEF Core, Typed
<1>2. /\ srv'[s] \in FullState /\ srv' = [srv EXCEPT ![s] = srv'[s]]
      /\ srv'[s].term >= srv[s].term
      /\ srv'[s].role = "Leader" => Leads(s, srv'[s].term)
  BY DEF Alone
<1>3. \A q \in Server \ {s} : srv'[q] = srv[q]
  BY <1>1, <1>2
<1>4. \A q \in Server : srv[q].term >= srv[q].term
  BY <1>1, StateFields, Bounds
<1> QED
  BY <1>1, <1>2, <1>3, <1>4 DEF Leads

\* What Step says of the messages, when its server is known.
LEMMA StepSends ==
    ASSUME Typed, NEW s \in Server, NEW e, NEW f \in FullState, NEW gone, NEW answers,
           Step(s, e, f, gone, answers), Len(f.log.entries) <= MaxIndex + MaxTerm
    PROVE  /\ srv' = [srv EXCEPT ![s] = f] /\ srv'[s] = f
           /\ \A m \in msgs' : m \in msgs \/ m \in answers \/ RequestOf(s, f, m)
           /\ Sent(s, e, f) = {} => \A m \in msgs' : m \in msgs \/ m \in answers
<1>1. /\ srv' = [srv EXCEPT ![s] = f]
      /\ msgs' = (msgs \ gone) \cup answers \cup Sent(s, e, f)
  BY DEF Step
<1>2. \A m \in Sent(s, e, f) : RequestOf(s, f, m)
  BY SentOK
<1> QED
  BY <1>1, <1>2 DEF Typed

LEMMA StepSendsRequests ==
    ASSUME Typed, NEW s \in Server, NEW e, NEW f \in FullState,
           Step(s, e, f, {}, {}), Len(f.log.entries) <= MaxIndex + MaxTerm
    PROVE  /\ srv' = [srv EXCEPT ![s] = f] /\ srv'[s] = f
           /\ \A m \in msgs' : m \in msgs \/ RequestOf(s, f, m)
<1>1. /\ srv' = [srv EXCEPT ![s] = f]
      /\ msgs' = (msgs \ {}) \cup {} \cup Sent(s, e, f)
  BY DEF Step
<1>2. \A m \in Sent(s, e, f) : RequestOf(s, f, m)
  BY SentOK
<1> QED
  BY <1>1, <1>2 DEF Typed

LEMMA StateTyped ==
    ASSUME Core, NEW s \in Server
    PROVE  /\ srv[s] \in FullState /\ ServerOK(srv[s])
           /\ srv[s].term \in Term /\ srv[s].term \in Nat
           /\ Entries(s) \in Seq(LogEntry) /\ Len(Entries(s)) \in Nat
           /\ Len(Entries(s)) <= MaxIndex + MaxTerm
           /\ Len(Entries(s)) \in Index /\ Len(Entries(s)) + 1 \in Index
<1>1. srv[s] \in FullState /\ ServerOK(srv[s])
  BY DEF Core, Typed
<1>2. /\ srv[s].term \in Term /\ srv[s].term \in Nat
      /\ Entries(s) \in Seq(LogEntry) /\ Len(Entries(s)) \in Nat
  BY <1>1, StateFields, Bounds DEF Entries
<1>3. Fits(Len(Entries(s)))
  BY <1>1 DEF ServerOK, Entries
<1> QED
  BY <1>1, <1>2, <1>3, FitsBound

\* A step of s from e, where it keeps its log, is a quiet one from there.
LEMMA QuietStep ==
    ASSUME Core, NEW s \in Server, NEW e, NEW f \in FullState, NEW gone,
           Step(s, e, f, gone, {}), KeepsLog(srv[s], f), f.role = "Leader" \/ Sent(s, e, f) = {}
    PROVE  SameLogs(s) /\ srv'[s] = f
<1>1. /\ f.log.entries = Entries(s) /\ f.term = srv[s].term /\ f.role = srv[s].role
      /\ f.transfer = srv[s].transfer
  BY DEF Quiet, KeepsLog, Entries
<1>2. Len(f.log.entries) <= MaxIndex + MaxTerm
  BY <1>1, StateTyped
<1>3. /\ srv' = [srv EXCEPT ![s] = f] /\ srv'[s] = f
      /\ \A m \in msgs' : m \in msgs \/ RequestOf(s, f, m)
      /\ Sent(s, e, f) = {} => \A m \in msgs' : m \in msgs
  <2>1. Typed
    BY DEF Core
  <2>2. /\ srv' = [srv EXCEPT ![s] = f] /\ srv'[s] = f
        /\ \A m \in msgs' : m \in msgs \/ m \in {} \/ RequestOf(s, f, m)
        /\ Sent(s, e, f) = {} => \A m \in msgs' : m \in msgs \/ m \in {}
    BY <1>2, <2>1, StepSends
  <2> QED
    BY <2>2
<1>4. Sends(s, {})
  BY <1>3 DEF Sends
<1>5. Alone(s)
  <2>1. Typed /\ f.term >= srv[s].term /\ (f.role = "Leader" => Leads(s, f.term))
    BY <1>1, StateTyped DEF Core, Leads
  <2> QED
    BY <1>3, <2>1, AloneWith
<1> QED
  BY <1>1, <1>3, <1>4, <1>5 DEF SameLogs, Entries

LEMMA PublishDoes ==
    ASSUME Core, NEW s \in Server, Publish(s)
    PROVE  AppendsEntry(s) /\ \A p \in Server : NextComes(s, p)
<1> DEFINE e == srv[s]
           x == [term |-> e.term, type |-> "Application"]
           f == [e EXCEPT !.log = AppendTo(e.log, x)]
           g == RequestAppendEntries(s, f)
<1>1. e.role = "Leader" /\ EndIndex(e.log) <= MaxIndex /\ Step(s, f, g, {}, {})
  BY DEF Publish
<1>2. /\ e \in FullState /\ ServerOK(e) /\ e.term \in Nat /\ e.term <= MaxTerm
      /\ EndIndex(e.log) = Len(e.log.entries) + 1
      /\ e.log \in FullLog /\ e.log.entries \in Seq(LogEntry) /\ Len(e.log.entries) \in Nat
  BY StateTyped, StateFields, Bounds
<1>3. x \in LogEntry
  <2>1. e.term \in 1 .. MaxTerm
    BY <1>1, <1>2 DEF ServerOK
  <2> QED
    BY <2>1 DEF LogEntry
<1>4. /\ Append(e.log.entries, x) \in Seq(LogEntry)
      /\ Len(Append(e.log.entries, x)) = Len(e.log.entries) + 1
  BY <1>2, <1>3, AppendProperties
<1> HIDE DEF e, x
<1>5. /\ f \in FullState /\ f.log.entries = Append(e.log.entries, x)
      /\ f.term = e.term /\ f.role = e.role /\ f.transfer = e.transfer
      /\ f.peers = e.peers
  BY <1>2, <1>4 DEF AppendTo, FullState, FullLog
<1>6. Len(f.log.entries) <= MaxIndex + MaxTerm /\ Len(f.log.entries) \in Index
  <2>1. Len(f.log.entries) \in Nat /\ Len(f.log.entries) <= MaxIndex
    BY <1>1, <1>2, <1>4, <1>5
  <2> HIDE DEF f
  <2> QED
    BY <2>1, Bounds
<1> HIDE DEF f
<1>7. g \in FullState /\ Quiet(f, g)
  BY <1>5, <1>6, RequestAppendEntriesQuiet
<1> HIDE DEF g
<1>8. /\ g.log.entries = Append(e.log.entries, x) /\ g.term = e.term
      /\ g.role = "Leader" /\ g.transfer = e.transfer
  BY <1>1, <1>5, <1>7 DEF Quiet, KeepsLog
<1>9. /\ srv' = [srv EXCEPT ![s] = g] /\ srv'[s] = g
      /\ \A m \in msgs' : m \in msgs \/ RequestOf(s, g, m)
  <2>1. Typed
    BY DEF Core
  <2>2. Len(g.log.entries) <= MaxIndex + MaxTerm
    BY <1>5, <1>6, <1>8
  <2>3. Step(s, f, g, {}, {}) /\ g \in FullState
    BY <1>1, <1>7
  <2> QED
    BY <2>1, <2>2, <2>3, StepSendsRequests
<1>10. Alone(s)
  <2>1. Typed
    BY DEF Core
  <2>2. g.term = e.term /\ e.term \in Nat /\ e.role = "Leader"
    BY <1>1, <1>2, <1>8
  <2>3. g.term >= srv[s].term /\ Leads(s, g.term)
    BY <2>2 DEF Leads, e
  <2> QED
    BY <1>7, <1>9, <2>1, <2>3, AloneWith
<1>11. Sends(s, {})
  BY <1>8, <1>9 DEF Sends
<1>12. Len(e.log.entries) + 1 <= MaxIndex
  BY <1>1, <1>2
<1>13. AppendsEntry(s)
  BY <1>1, <1>8, <1>9, <1>10, <1>11, <1>12 DEF AppendsEntry, Entries, Leads, e, x
<1>14. \A p \in Server : srv'[s].peers[p].next = srv[s].peers[p].next
  BY <1>5, <1>7, <1>9 DEF Quiet, e
<1> QED
  BY <1>13, <1>14, NextStays DEF Core

LEMMA HeartbeatDoes ==
    ASSUME Core, NEW s \in Server, NEW p \in Server, Heartbeat(s, p)
    PROVE  SameLogs(s) /\ \A q \in Server : NextComes(s, q)
<1> DEFINE e == srv[s]
           f == IF e.peers[p].link = "down" THEN [e EXCEPT !.peers[p].link = "idle"] ELSE e
           g == SendTo(f, {p})
<1>1. e.role = "Leader" /\ Step(s, f, g, {}, {})
  BY DEF Heartbeat
<1>2. f \in FullState /\ Quiet(e, f)
  <2>1. e \in FullState
    BY StateTyped
  <2>2. /\ [e EXCEPT !.peers[p].link = "idle"] \in FullState
        /\ Quiet(e, [e EXCEPT !.peers[p].link = "idle"])
    BY <2>1, DisconnectedQuiet
  <2>3. Quiet(e, e)
    BY DEF Quiet, KeepsLog
  <2> QED
    BY <2>1, <2>2, <2>3
<1> HIDE DEF f
<1>3. g \in FullState /\ Quiet(e, g) /\ KeepsLog(e, g)
  BY <1>2, SendToQuiet, QuietJoins DEF Quiet
<1>4. g.role = "Leader"
  BY <1>1, <1>3 DEF Quiet, KeepsLog
<1>5. SameLogs(s) /\ srv'[s] = g
  BY <1>1, <1>3, <1>4, QuietStep
<1>6. \A q \in Server : srv'[s].peers[q].next = srv[s].peers[q].next
  BY <1>3, <1>5 DEF Quiet
<1> QED
  BY <1>5, <1>6, NextStays DEF Core

\* A step that sends nothing and keeps the log and the transfer.
LEMMA SilentDoes ==
    ASSUME Core, NEW s \in Server, NEW f \in FullState, srv' = [srv EXCEPT ![s] = f],
           f.log.entries = Entries(s), f.transfer \in {srv[s].transfer, NoTransfer},
           f.term = srv[s].term, f.role \in {srv[s].role, "Follower"}, msgs' \subseteq msgs
    PROVE  SameLogs(s) /\ srv'[s] = f
<1>1. f.term >= srv[s].term /\ (f.role = "Leader" => Leads(s, f.term))
  BY StateTyped DEF Leads
<1>2. Alone(s) /\ srv'[s] = f
  BY <1>1, AloneWith DEF Core
<1> QED
  BY <1>2 DEF SameLogs, Sends, Entries

LEMMA StepDownDoes ==
    ASSUME Core, NEW s \in Server, StepDown(s)
    PROVE  SameLogs(s) /\ srv'[s].role = "Follower"
<1> DEFINE f == BecomeFollower(srv[s])
<1>1. /\ f \in FullState /\ f.role = "Follower" /\ f.term = srv[s].term
      /\ f.log = srv[s].log /\ f.transfer = srv[s].transfer
  BY StateTyped, BecomeFollowerKeeps
<1>2. srv' = [srv EXCEPT ![s] = f] /\ msgs' \subseteq msgs
  BY DEF StepDown
<1> HIDE DEF f
<1> QED
  BY <1>1, <1>2, SilentDoes DEF Entries

LEMMA LoseConnectionDoes ==
    ASSUME Core, NEW s \in Server, NEW p \in Server, LoseConnection(s, p)
    PROVE  SameLogs(s) /\ \A q \in Server : NextComes(s, q)
<1> DEFINE f == Disconnected(srv[s], p)
<1>1. f \in FullState /\ Quiet(srv[s], f)
  BY StateTyped, DisconnectedQuiet DEF Disconnected
<1>2. srv' = [srv EXCEPT ![s] = f] /\ msgs' \subseteq msgs
  BY DEF LoseConnection
<1> HIDE DEF f
<1>3. SameLogs(s) /\ srv'[s] = f
  BY <1>1, <1>2, SilentDoes DEF Entries, Quiet, KeepsLog
<1>4. \A q \in Server : srv'[s].peers[q].next = srv[s].peers[q].next
  BY <1>1, <1>3 DEF Quiet
<1> QED
  BY <1>3, <1>4, NextStays DEF Core

LEMMA CompleteTransferDoes ==
    ASSUME Core, NEW s \in Server, CompleteTransfer(s)
    PROVE  SameLogs(s) /\ \A p \in Server : NextComes(s, p)
<1> DEFINE f == [srv[s] EXCEPT !.transfer = NoTransfer]
<1>1. NoTransfer \in Transfer
  BY Bounds DEF NoTransfer, Transfer
<1>2. srv[s] \in FullState
  BY StateTyped
<1>3. /\ f \in FullState /\ f.log = srv[s].log /\ f.transfer = NoTransfer
      /\ f.term = srv[s].term /\ f.role = srv[s].role /\ f.peers = srv[s].peers
  BY <1>1, <1>2 DEF FullState
<1>4. srv' = [srv EXCEPT ![s] = f] /\ msgs' \subseteq msgs
  BY DEF CompleteTransfer
<1> HIDE DEF f
<1>5. SameLogs(s) /\ srv'[s] = f
  BY <1>3, <1>4, SilentDoes DEF Entries
<1> QED
  BY <1>3, <1>5, NextStays DEF Core

\* Server s takes what request m brings, when it handles it.
Accepts(s, m) ==
    LET e == SeeTerm(srv[s], m.term) IN ~(AsksTransfer(e.log, m) \/ Refuses(e, m))

LEMMA HandleRequestDoes ==
    ASSUME Core, NEW s \in Server, NEW m \in msgs, HandleRequest(s, m)
    PROVE  /\ RefusesRequest(s, m) \/ TakesEntries(s, m)
           /\ Accepts(s, m) => TakesEntries(s, m)
<1>1. m.type = "Request" /\ m.to = s /\ m \in Requests
  BY DEF HandleRequest, Requests
<1>2. Typed
  BY DEF Core
<1>3. m \in FullRequest /\ MessageOK(m)
  BY <1>1, <1>2, MessageKinds DEF Core
<1> DEFINE e == SeeTerm(srv[s], m.term)
           ok     == LogOk(e.log, m)
           asks   == m.transfer /\ ok
           reject == asks \/ Refuses(e, m)
           asked  == [from |-> m.from, start |-> m.lastIndex + 1, applied |-> FALSE]
           answer == [type |-> "Response", from |-> s, to |-> m.from, accepted |-> ~reject,
                      term |-> e.term, transfer |-> asks,
                      next |-> IF reject THEN EndIndex(e.log)
                                         ELSE m.lastIndex + Len(m.entries) + 1]
           refused == IF asks /\ e.transfer = NoTransfer THEN [e EXCEPT !.transfer = asked] ELSE e
           l == AppendEntries(e.log, m.entries, m.lastIndex + 1)
           g == CommitTo(s, [e EXCEPT !.log = l], m.commit)
<1>4. /\ ~(e.role = "Leader" /\ m.term = e.term)
      /\ reject => Step(s, e, refused, {m}, {answer})
      /\ ~reject => Step(s, e, g, {m}, {answer})
  BY DEF HandleRequest, AsksTransfer
<1>5. /\ e \in FullState /\ e.log = srv[s].log /\ e.transfer = srv[s].transfer
      /\ e.term = IF m.term > srv[s].term THEN m.term ELSE srv[s].term
      /\ e.role = IF m.term > srv[s].term THEN "Follower" ELSE srv[s].role
  BY <1>3, StateTyped, RequestFields, SeeTermKeeps
<1>6. srv[s].term \in Nat /\ m.term \in Nat
  BY <1>3, StateTyped, RequestFields
<1>7. /\ e.term >= srv[s].term /\ e.term >= m.term /\ e.term \in {srv[s].term, m.term}
      /\ e.role = "Leader" => Leads(s, e.term)
  BY <1>5, <1>6 DEF Leads
<1>8. /\ m.lastIndex \in Nat /\ Len(m.entries) \in Nat /\ m.from \in Server
      /\ m.lastIndex \in Index /\ m.lastIndex + Len(m.entries) + 1 \in Index
      /\ Fits(m.lastIndex + Len(m.entries)) /\ m.transfer \in BOOLEAN
      /\ m.entries \in Seq(LogEntry) /\ m.commit \in Index
  <2>1. m.lastIndex + Len(m.entries) \in Nat
    BY <1>3, RequestFields
  <2>2. Fits(m.lastIndex + Len(m.entries))
    BY <1>1, <1>3 DEF MessageOK
  <2> QED
    BY <1>3, <2>1, <2>2, RequestFields, FitsBound
<1> DEFINE n == Len(Entries(s))
<1>9. /\ n \in Nat /\ n + 1 \in Index /\ n <= MaxIndex + MaxTerm
      /\ EndIndex(e.log) = n + 1 /\ e.log.entries = Entries(s)
  BY <1>5, StateTyped, StateFields DEF Entries
<1>10. ok => m.lastIndex <= n
  <2>1. ok => m.lastIndex = 0 \/ m.lastIndex < n + 1
    BY <1>9 DEF LogOk
  <2> QED
    BY <1>8, <1>9, <2>1
<1>11. ok = LogOk(srv[s].log, m) /\ asks \in BOOLEAN /\ reject \in BOOLEAN
  BY <1>5, <1>8 DEF Refuses
<1>12. answer \in FullResponse
  <2> DEFINE next == IF reject THEN EndIndex(e.log) ELSE m.lastIndex + Len(m.entries) + 1
  <2>1. next \in Index \ {0}
    BY <1>8, <1>9
  <2>2. e.term \in Term
    BY <1>5, StateFields
  <2> HIDE DEF next, e, asks, reject
  <2> QED
    BY <1>8, <1>11, <2>1, <2>2 DEF FullResponse, next
<1>13. CASE reject
  <2>1. refused \in FullState /\ refused.term = e.term /\ refused.role = e.role
        /\ refused.log = e.log
        /\ \/ refused.transfer = e.transfer
           \/ e.transfer = NoTransfer /\ asks /\ refused.transfer = asked
    <3>1. CASE ~(asks /\ e.transfer = NoTransfer)
      BY <1>5, <3>1
    <3>2. CASE asks /\ e.transfer = NoTransfer
      <4>1. m.lastIndex + 1 \in Index
        <5>1. m.lastIndex + 1 <= n + 1 /\ m.lastIndex + 1 \in Nat
          BY <1>8, <1>9, <1>10, <3>2
        <5> QED
          BY <1>9, <5>1, Bounds
      <4>2. asked \in Transfer
        BY <1>8, <4>1 DEF Transfer
      <4> HIDE DEF asked, e, asks
      <4>3. [e EXCEPT !.transfer = asked] \in FullState
        BY <1>5, <4>2 DEF FullState
      <4>4. /\ [e EXCEPT !.transfer = asked].term = e.term
            /\ [e EXCEPT !.transfer = asked].role = e.role
            /\ [e EXCEPT !.transfer = asked].log = e.log
            /\ [e EXCEPT !.transfer = asked].transfer = asked
        BY <1>5 DEF FullState
      <4> QED
        BY <3>2, <4>3, <4>4
    <3> QED
      BY <3>1, <3>2
  <2> HIDE DEF refused, e, asks, answer, asked
  <2>2. Len(refused.log.entries) <= MaxIndex + MaxTerm
    BY <1>9, <2>1
  <2>3. Sent(s, e, refused) = {}
    <3>1. refused.peers = e.peers
      BY <1>5 DEF refused, FullState
    <3> QED
      BY <3>1, NothingSent
  <2>4. /\ srv' = [srv EXCEPT ![s] = refused] /\ srv'[s] = refused
        /\ \A x \in msgs' : x \in msgs \/ x \in {answer}
    <3>1. Step(s, e, refused, {m}, {answer})
      BY <1>4, <1>13
    <3> QED
      BY <1>2, <2>1, <2>2, <2>3, <3>1, StepSends
  <2>5. Alone(s)
    BY <1>2, <1>7, <2>1, <2>4, AloneWith
  <2>6. Sends(s, {answer})
    BY <2>4 DEF Sends
  <2>7. answer.from = s /\ ~answer.accepted /\ answer.term = e.term /\ answer.transfer = asks
    BY <1>13 DEF answer
  <2>8. \E a \in FullResponse : /\ a.from = s /\ ~a.accepted /\ a.term = srv'[s].term
                                /\ a.transfer = (m.transfer /\ LogOk(srv[s].log, m))
                                /\ Sends(s, {a})
    BY <1>11, <1>12, <2>1, <2>4, <2>6, <2>7 DEF asks
  <2>9. Entries(s)' = Entries(s)
    BY <1>9, <2>1, <2>4 DEF Entries
  <2>10. \/ srv'[s].transfer = srv[s].transfer
         \/ /\ srv[s].transfer = NoTransfer /\ m.transfer /\ LogOk(srv[s].log, m)
            /\ srv'[s].transfer = [from |-> m.from, start |-> m.lastIndex + 1, applied |-> FALSE]
    BY <1>5, <1>11, <2>1, <2>4 DEF asks, asked
  <2>11. srv'[s].term \in {srv[s].term, m.term} /\ srv'[s].term >= m.term
    BY <1>7, <2>1, <2>4
  <2>12. RefusesRequest(s, m)
    BY <1>1, <2>5, <2>8, <2>9, <2>10, <2>11 DEF RefusesRequest
  <2> QED
    BY <1>13, <2>12 DEF Accepts, AsksTransfer, asks, e
<1>14. CASE ~reject
  <2>1. /\ ok /\ ~m.transfer /\ e.transfer = NoTransfer /\ ~(m.term < e.term)
    BY <1>8, <1>14 DEF Refuses
  <2>2. e.term = m.term /\ e.role = "Follower"
    <3>1. e.term = m.term
      BY <1>5, <1>6, <2>1
    <3> QED
      BY <1>4, <1>5, <3>1, StateFields
  <2>3. m.lastIndex + 1 \in 1 .. n + 1
    BY <1>8, <1>9, <1>10, <2>1
  <2>4. /\ l \in FullLog
        /\ \E c \in 1 .. Len(m.entries) + 1 :
               Appended(Entries(s), m.entries, m.lastIndex + 1, c, l.entries)
    <3>1. e.log \in FullLog /\ Len(e.log.entries) = n
      BY <1>5, <1>9, StateFields
    <3>2. m.lastIndex + 1 \in 1 .. Len(e.log.entries) + 1
      BY <2>3, <3>1
    <3> HIDE DEF e, l, n
    <3> DEFINE i == m.lastIndex + 1
    <3>3. i \in 1 .. Len(e.log.entries) + 1
      BY <3>2
    <3>4. l = AppendEntries(e.log, m.entries, i)
      BY DEF l
    <3> HIDE DEF i
    <3>5. /\ l \in FullLog
          /\ \E c \in 1 .. Len(m.entries) + 1 :
                 Appended(e.log.entries, m.entries, i, c, l.entries)
      BY <1>8, <3>1, <3>3, <3>4, AppendEntriesOK
    <3> QED
      BY <1>9, <3>5 DEF i
  <2>5. l.entries \in Seq(LogEntry) /\ Len(l.entries) \in Nat
        /\ Len(l.entries) <= MaxIndex + MaxTerm
    <3>1. l.entries \in Seq(LogEntry)
      BY <2>4 DEF FullLog
    <3>2. PICK c \in 1 .. Len(m.entries) + 1 :
              Appended(Entries(s), m.entries, m.lastIndex + 1, c, l.entries)
      BY <2>4
    <3>3. \/ Len(l.entries) = Len(Entries(s))
          \/ Len(l.entries) = m.lastIndex + 1 - 1 + Len(m.entries)
      <4> DEFINE i == m.lastIndex + 1
      <4>1. i \in 1 .. Len(Entries(s)) + 1 /\ Entries(s) \in Seq(LogEntry)
        BY <2>3, StateTyped
      <4>2. Appended(Entries(s), m.entries, i, c, l.entries)
        BY <3>2
      <4> HIDE DEF l, i
      <4>3. \/ Len(l.entries) = Len(Entries(s))
            \/ Len(l.entries) = i - 1 + Len(m.entries)
        <5> DEFINE x == Entries(s)
                   es == m.entries
                   r == l.entries
        <5>1. es \in Seq(LogEntry) /\ r \in Seq(LogEntry) /\ x \in Seq(LogEntry)
          BY <1>8, <3>1, <4>1
        <5>2. i \in 1 .. Len(x) + 1 /\ c \in 1 .. Len(es) + 1 /\ Appended(x, es, i, c, r)
          BY <4>1, <4>2
        <5> HIDE DEF x, es, r
        <5>3. Len(r) = Len(x) \/ Len(r) = i - 1 + Len(es)
          BY <5>1, <5>2, AppendedFrom
        <5> QED
          BY <5>3 DEF x, es, r
      <4> QED
        BY <1>8, <4>3 DEF i
    <3>4. m.lastIndex + Len(m.entries) <= MaxIndex + MaxTerm
      BY <1>8, FitsBound
    <3>5. Len(l.entries) \in Nat
      BY <3>1, LenProperties
    <3> HIDE DEF l
    <3> QED
      BY <1>8, <1>9, <3>1, <3>3, <3>4, <3>5
  <2> DEFINE f == [e EXCEPT !.log = l]
  <2>6. l = AppendEntries(srv[s].log, m.entries, m.lastIndex + 1)
    BY <1>5
  <2> HIDE DEF l, e, answer
  <2>7. /\ f \in FullState /\ f.term = e.term /\ f.role = e.role /\ f.log = l
        /\ f.transfer = e.transfer
    BY <1>5, <2>4 DEF FullState
  <2> HIDE DEF f
  <2>8. g \in FullState /\ Quiet(f, g)
    BY <1>8, <2>7, CommitToQuiet DEF f
  <2> HIDE DEF g
  <2>9. /\ g.term = m.term /\ g.role = "Follower" /\ g.log.entries = l.entries
        /\ g.transfer = NoTransfer
    BY <2>1, <2>2, <2>7, <2>8 DEF Quiet, KeepsLog
  <2> HIDE DEF reject, ok, asks
  <2>10. Sent(s, e, g) = {}
    <3>1. f.peers = e.peers
      BY <1>5, <2>4 DEF f, FullState
    <3>2. g.peers = f.peers
      BY <1>8, <2>2, <2>7, FollowerSendsNothing DEF f, g
    <3> QED
      BY <3>1, <3>2, NothingSent
  <2>11. Len(g.log.entries) <= MaxIndex + MaxTerm
    BY <2>5, <2>9
  <2>12. /\ srv' = [srv EXCEPT ![s] = g] /\ srv'[s] = g
         /\ \A x \in msgs' : x \in msgs \/ x \in {answer}
    <3>1. Step(s, e, g, {m}, {answer})
      BY <1>4, <1>14
    <3> QED
      BY <1>2, <2>8, <2>10, <2>11, <3>1, StepSends
  <2>13. Alone(s)
    <3>1. g.term >= srv[s].term /\ (g.role = "Leader" => Leads(s, g.term))
      BY <1>7, <2>2, <2>9
    <3> QED
      BY <1>2, <2>8, <2>12, <3>1, AloneWith
  <2>14. Sends(s, {answer})
    BY <2>12 DEF Sends
  <2>15. /\ answer.from = s /\ answer.to = m.from /\ answer.accepted /\ answer.term = m.term
         /\ answer.next = m.lastIndex + Len(m.entries) + 1 /\ ~answer.transfer
    <3>1. reject = FALSE /\ asks = FALSE
      BY <1>11, <1>14, <2>1 DEF asks
    <3> QED
      BY <2>2, <3>1 DEF answer
  <2>16. LogOk(srv[s].log, m) /\ srv[s].transfer = NoTransfer
    BY <1>5, <1>11, <2>1
  <2>17. Entries(s)' = AppendEntries(srv[s].log, m.entries, m.lastIndex + 1).entries
    BY <2>6, <2>9, <2>12 DEF Entries
  <2>18. /\ srv'[s].term = m.term /\ srv'[s].role = "Follower"
         /\ srv'[s].transfer = NoTransfer
    BY <2>9, <2>12
  <2> QED
    BY <1>1, <1>12, <2>13, <2>14, <2>15, <2>16, <2>17, <2>18 DEF TakesEntries
<1> QED
  BY <1>13, <1>14 DEF Accepts, AsksTransfer

LEMMA WithPeerKeeps ==
    ASSUME NEW e \in FullState, NEW p \in Server, NEW peer \in Peer
    PROVE  /\ WithPeer(e, p, peer) \in FullState /\ KeepsLog(e, WithPeer(e, p, peer))
           /\ \A q \in Server : WithPeer(e, p, peer).peers[q] = IF q = p THEN peer ELSE e.peers[q]
<1> DEFINE ps == [e.peers EXCEPT ![p] = peer]
<1>1. ps \in [Server -> Peer]
  BY StateFields
<1>2. WithPeer(e, p, peer) = [e EXCEPT !.peers = ps]
  BY DEF WithPeer, FullState
<1>3. [e EXCEPT !.peers = ps].peers = ps
  BY DEF FullState
<1>4. \A q \in Server : ps[q] = IF q = p THEN peer ELSE e.peers[q]
  BY StateFields
<1> HIDE DEF ps
<1> QED
  BY <1>1, <1>2, <1>3, <1>4 DEF FullState, KeepsLog

\* The matched index of a majority is one of a server, and a majority has matched it.
LEMMA MajorityMatchedOK ==
    ASSUME NEW s \in Server, NEW e \in FullState, Len(e.log.entries) \in Index
    PROVE  LET matched == [q \in Server |-> IF q = s THEN LastIndex(e.log)
                                                     ELSE e.peers[q].matched]
               i == MajorityMatched(s, e)
           IN  /\ i \in Index /\ \E q \in Server : i = matched[q]
               /\ 2 * Cardinality({q \in Server : matched[q] >= i}) > Cardinality(Server)
<1> DEFINE matched == [q \in Server |-> IF q = s THEN LastIndex(e.log) ELSE e.peers[q].matched]
           V == {matched[q] : q \in Server}
           S == {i \in V : 2 * Cardinality({q \in Server : matched[q] >= i})
                               > Cardinality(Server)}
           b == MaxIndex + MaxTerm + 1
<1>1. \A q \in Server : matched[q] \in Index
  BY StateFields
<1>2. MajorityMatched(s, e) = Max(S)
  BY DEF MajorityMatched
<1> HIDE DEF matched
<1>3. V \in SUBSET Nat /\ V # {} /\ V \in SUBSET (0 .. b) /\ b \in Nat
  BY <1>1, Bounds DEF Index
<1>4. Min(V) \in V /\ \A y \in V : Min(V) <= y
  <2> HIDE DEF V
  <2> QED
    BY <1>3, MinIsReached
<1>5. Min(V) \in S
  <2> DEFINE v == Min(V)
  <2>1. \A q \in Server : matched[q] >= v
    <3> SUFFICES ASSUME NEW q \in Server PROVE matched[q] >= v
      OBVIOUS
    <3>1. PICK y : y = matched[q]
      OBVIOUS
    <3>2. y \in V
      BY <3>1
    <3>3. v <= y /\ v \in Nat /\ y \in Nat
      <4> HIDE DEF V, matched
      <4> QED
        BY <1>3, <1>4, <3>2
    <3> HIDE DEF v
    <3>4. y >= v
      BY <3>3
    <3> QED
      BY <3>1, <3>4
  <2> HIDE DEF v
  <2>2. {q \in Server : matched[q] >= v} = Server
    BY <2>1
  <2>3. Cardinality(Server) \in Nat /\ Cardinality(Server) # 0
    BY ReplicationAssumption, FS_CardinalityType, FS_EmptySet
  <2>4. 2 * Cardinality({q \in Server : matched[q] >= v}) > Cardinality(Server)
    <3>1. PICK n : n = Cardinality(Server)
      OBVIOUS
    <3>2. 2 * n > n
      BY <2>3, <3>1
    <3> QED
      BY <2>2, <3>1, <3>2
  <2> QED
    BY <1>4, <2>4 DEF v
<1>6. S \in SUBSET (0 .. b) /\ S # {}
  BY <1>3, <1>5
<1>7. Max(S) \in S
  <2> HIDE DEF S, b
  <2> QED
    BY <1>3, <1>6, MaxIsReached
<1> QED
  BY <1>1, <1>2, <1>7 DEF matched

LEMMA PeerSetTo ==
    ASSUME NEW peer \in Peer, NEW n, n \in Index \ {0}, NEW r, r \in Nat
    PROVE  /\ [peer EXCEPT !.next = n, !.rewind = r] \in Peer
           /\ [peer EXCEPT !.next = n, !.rewind = r].next = n
<1>1. [peer EXCEPT !.next = n, !.rewind = r] \in Peer
  BY DEF Peer
<1>2. [peer EXCEPT !.next = n, !.rewind = r].next = n
  BY DEF Peer
<1> QED
  BY <1>1, <1>2

LEMMA RewindOK ==
    ASSUME NEW peer \in Peer, NEW next \in Index \ {0}
    PROVE  /\ Rewind(peer, next) \in Peer
           /\ Rewind(peer, next).next <= peer.next
<1>1. /\ peer.next \in Index /\ peer.next \in Nat /\ peer.next >= 1 /\ peer.rewind \in Nat
      /\ next \in Nat /\ next >= 1
  BY Bounds DEF Peer
<1>5. 1 \in Nat /\ 1 \in Index \ {0}
  BY Bounds
<1>6. \A n, r : n \in Index \ {0} /\ r \in Nat =>
          /\ [peer EXCEPT !.next = n, !.rewind = r] \in Peer
          /\ [peer EXCEPT !.next = n, !.rewind = r].next = n
  BY PeerSetTo
<1>2. CASE next < peer.next
  <2> DEFINE g == [peer EXCEPT !.next = next, !.rewind = 1]
  <2>1. g \in Peer /\ g.next = next
    BY <1>5, <1>6
  <2>2. Rewind(peer, next) = g
    BY <1>1, <1>2 DEF Rewind
  <2> HIDE DEF g
  <2> QED
    BY <1>1, <1>2, <2>1, <2>2
<1>3. CASE ~(next < peer.next) /\ peer.next > peer.rewind
  <2> DEFINE n == peer.next - peer.rewind
             r == 2 * peer.rewind
             g == [peer EXCEPT !.next = n, !.rewind = r]
  <2>1. n \in Nat /\ n # 0 /\ n <= peer.next /\ r \in Nat
    BY <1>1, <1>3
  <2>2. Rewind(peer, next) = g
    BY <1>1, <1>3 DEF Rewind
  <2> HIDE DEF n, r
  <2>3. n \in Index \ {0}
    BY <1>1, <2>1, Bounds
  <2>4. g \in Peer /\ g.next = n
    BY <2>1, <2>3, <1>6
  <2> HIDE DEF g
  <2> QED
    BY <2>1, <2>2, <2>4
<1>4. CASE ~(next < peer.next) /\ ~(peer.next > peer.rewind)
  <2> DEFINE g == [peer EXCEPT !.next = 1, !.rewind = 1]
  <2>1. g \in Peer /\ g.next = 1
    BY <1>5, <1>6
  <2>2. Rewind(peer, next) = g
    BY <1>1, <1>4 DEF Rewind
  <2> HIDE DEF g
  <2> QED
    BY <1>1, <2>1, <2>2
<1> QED
  BY <1>2, <1>3, <1>4

LEMMA HandleResponseDoes ==
    ASSUME Core, NEW s \in Server, NEW m \in msgs, HandleResponse(s, m)
    PROVE  SameLogs(s) /\ \A p \in Server : NextComes(s, p)
<1>1. m \in FullResponse
  BY MessageKinds, RequestFields DEF HandleResponse, Core
<1>2. /\ m.from \in Server /\ m.term \in Term /\ m.term \in Nat
      /\ m.next \in Index \ {0} /\ m.next \in Nat
  BY <1>1, ResponseFields
<1>3. srv[s] \in FullState /\ srv[s].term \in Nat /\ Len(srv[s].log.entries) \in Index
  BY StateTyped DEF Entries
<1> DEFINE e == Answered(srv[s], m.from)
<1>4. /\ e \in FullState /\ KeepsLog(srv[s], e)
      /\ \A q \in Server : e.peers[q].next = srv[s].peers[q].next
      /\ \A q \in Server : e.peers[q].link = "busy" => srv[s].peers[q].link = "busy"
  BY <1>2, <1>3, AnsweredQuiet DEF Quiet
<1>9. m \in Responses /\ m.to = s /\ (m.term = srv[s].term /\ srv[s].role = "Leader" => Leads(s, m.term))
  BY <1>1 DEF HandleResponse, Responses, FullResponse, Leads
<1>5. CASE ResponseOfOtherTerm(s, m)
  <2> DEFINE f == SeeTerm(e, m.term)
  <2>1. Step(s, srv[s], f, {m}, {})
    BY <1>5 DEF ResponseOfOtherTerm
  <2> HIDE DEF e
  <2>2. /\ f \in FullState /\ f.log = e.log /\ f.transfer = e.transfer
        /\ f.term = IF m.term > e.term THEN m.term ELSE e.term
        /\ f.role = IF m.term > e.term THEN "Follower" ELSE e.role
        /\ \A p \in Server : /\ f.peers[p].next = e.peers[p].next
                             /\ f.peers[p].link = "busy" => e.peers[p].link = "busy"
    BY <1>2, <1>4, SeeTermKeeps
  <2> HIDE DEF f
  <2>3. Sent(s, srv[s], f) = {}
    BY <1>4, <2>2, NothingSent
  <2>4. f.log.entries = Entries(s) /\ Len(f.log.entries) <= MaxIndex + MaxTerm
    BY <1>4, <2>2, StateTyped DEF KeepsLog, Entries
  <2>5. Typed
    BY DEF Core
  <2>6. /\ srv' = [srv EXCEPT ![s] = f] /\ srv'[s] = f
        /\ \A x \in msgs' : x \in msgs \/ x \in {}
    BY <2>1, <2>2, <2>3, <2>4, <2>5, StepSends
  <2>7. /\ f.term >= srv[s].term /\ (f.role = "Leader" => Leads(s, f.term))
        /\ f.transfer = srv[s].transfer /\ f.term \in {srv[s].term, m.term}
    BY <1>2, <1>3, <1>4, <2>2 DEF KeepsLog, Leads
  <2>8. Alone(s)
    BY <2>2, <2>5, <2>6, <2>7, AloneWith
  <2>9. Sends(s, {})
    BY <2>6 DEF Sends
  <2>10. SameLogs(s)
    BY <2>4, <2>6, <2>7, <2>8, <2>9 DEF SameLogs, Entries
  <2>11. \A p \in Server : srv'[s].peers[p].next = srv[s].peers[p].next
    BY <1>4, <2>2, <2>6
  <2> QED
    BY <2>5, <2>10, <2>11, NextStays
<1>6. CASE ResponseToFollower(s, m)
  <2>1. Step(s, srv[s], e, {m}, {})
    BY <1>6 DEF ResponseToFollower
  <2> HIDE DEF e
  <2>2. Sent(s, srv[s], e) = {}
    BY <1>4, NothingSent
  <2>3. SameLogs(s) /\ srv'[s] = e
    BY <1>4, <2>1, <2>2, QuietStep
  <2> QED
    BY <1>4, <2>3, NextStays DEF Core
<1>7. CASE m.term = srv[s].term /\ srv[s].role = "Leader" /\ Accepted(s, m)
  <2> DEFINE peer == [e.peers[m.from] EXCEPT !.next = m.next, !.matched = m.next - 1,
                                             !.rewind = 1]
             f == WithPeer(e, m.from, peer)
             i == MajorityMatched(s, f)
             g == CommitTo(s, f, i)
             h == IF m.next < EndIndex(f.log) THEN SendTo(g, {m.from}) ELSE g
  <2>1. Step(s, f, h, {m}, {})
    BY <1>7 DEF Accepted
  <2> HIDE DEF e
  <2>2. peer \in Peer
    <3>1. m.next - 1 \in Index
      <4>1. m.next - 1 \in Nat /\ m.next - 1 <= m.next
        BY <1>2
      <4> QED
        BY <1>2, <4>1, Bounds
    <3>2. e.peers[m.from] \in Peer
      BY <1>2, <1>4, StateFields
    <3> QED
      BY <1>2, <3>1, <3>2 DEF Peer
  <2>8. peer.next = m.next
    BY <1>2, <1>4, StateFields DEF Peer
  <2> HIDE DEF peer
  <2>3. /\ f \in FullState /\ KeepsLog(e, f)
        /\ \A p \in Server : f.peers[p] = IF p = m.from THEN peer ELSE e.peers[p]
    BY <1>2, <1>4, <2>2, WithPeerKeeps
  <2> HIDE DEF f
  <2>4. i \in Index
    BY <1>3, <1>4, <2>3, MajorityMatchedOK DEF KeepsLog
  <2> HIDE DEF i
  <2>5. g \in FullState /\ KeepsLog(f, g) /\ Quiet(f, g)
    BY <2>3, <2>4, CommitToQuiet DEF Quiet
  <2> HIDE DEF g
  <2>6. h \in FullState /\ KeepsLog(g, h) /\ Quiet(g, h)
    BY <2>5, SendToQuiet DEF Quiet, KeepsLog
  <2> HIDE DEF h
  <2>7. KeepsLog(srv[s], h) /\ h.role = "Leader"
    BY <1>4, <1>7, <2>3, <2>5, <2>6 DEF KeepsLog
  <2>9. SameLogs(s) /\ srv'[s] = h
    BY <2>1, <2>6, <2>7, QuietStep
  <2>10. \A p \in Server : /\ p = m.from => srv'[s].peers[p].next = m.next
                           /\ p # m.from => srv'[s].peers[p].next = srv[s].peers[p].next
    BY <1>4, <2>3, <2>5, <2>6, <2>8, <2>9 DEF Quiet
  <2>11. NextComes(s, m.from)
    BY <1>1, <1>2, <1>7, <1>9, <2>10 DEF NextComes, Accepted
  <2> QED
    BY <2>9, <2>10, <2>11, NextStays DEF Core
<1>8. CASE m.term = srv[s].term /\ srv[s].role = "Leader" /\ Rejected(s, m)
  <2> DEFINE peer == e.peers[m.from]
             waiting == [peer EXCEPT !.next = m.next, !.rewind = 1]
             waits == WithPeer(e, m.from, waiting)
             f == WithPeer(e, m.from, Rewind(peer, m.next))
             g == SendTo(f, {m.from})
  <2>1. IF m.transfer THEN Step(s, waits, waits, {m}, {}) ELSE Step(s, f, g, {m}, {})
    BY <1>8 DEF Rejected
  <2> HIDE DEF e
  <2>2. peer \in Peer
    BY <1>2, <1>4, StateFields
  <2>3. waiting \in Peer /\ waiting.next = m.next
    BY <1>2, <2>2 DEF Peer
  <2>4. Rewind(peer, m.next) \in Peer /\ Rewind(peer, m.next).next <= e.peers[m.from].next
    BY <1>2, <2>2, RewindOK
  <2> HIDE DEF waiting, peer
  <2>5. /\ waits \in FullState /\ KeepsLog(e, waits)
        /\ \A p \in Server : waits.peers[p] = IF p = m.from THEN waiting ELSE e.peers[p]
        /\ f \in FullState /\ KeepsLog(e, f)
        /\ \A p \in Server : f.peers[p] = IF p = m.from THEN Rewind(peer, m.next) ELSE e.peers[p]
    BY <1>2, <1>4, <2>3, <2>4, WithPeerKeeps
  <2> HIDE DEF waits, f
  <2>6. g \in FullState /\ KeepsLog(f, g) /\ Quiet(f, g)
    BY <2>5, SendToQuiet DEF Quiet
  <2> HIDE DEF g
  <2>7. /\ KeepsLog(srv[s], waits) /\ waits.role = "Leader"
        /\ KeepsLog(srv[s], g) /\ g.role = "Leader"
    BY <1>4, <1>8, <2>5, <2>6 DEF KeepsLog
  <2>8. SameLogs(s) /\ srv'[s] = IF m.transfer THEN waits ELSE g
    BY <2>1, <2>5, <2>6, <2>7, QuietStep
  <2>9. \A p \in Server : p # m.from => srv'[s].peers[p].next = srv[s].peers[p].next
    BY <1>4, <2>5, <2>6, <2>8 DEF Quiet
  <2>10. CASE m.transfer
    <3>1. srv'[s].peers[m.from].next = m.next
      BY <1>2, <2>3, <2>5, <2>8, <2>10
    <3>2. NextComes(s, m.from)
      BY <1>8, <1>9, <2>10, <3>1 DEF NextComes
    <3> QED
      BY <2>8, <2>9, <3>2, NextStays DEF Core
  <2>11. CASE ~m.transfer
    <3>1. srv'[s].peers[m.from].next <= srv[s].peers[m.from].next
      BY <1>2, <1>4, <2>4, <2>5, <2>6, <2>8, <2>11 DEF Quiet
    <3>2. NextComes(s, m.from)
      BY <3>1 DEF NextComes
    <3> QED
      BY <2>8, <2>9, <3>2, NextStays DEF Core
  <2> QED
    BY <2>10, <2>11
<1> QED
  BY <1>5, <1>6, <1>7, <1>8 DEF HandleResponse

LEMMA ApplyTransferDoes ==
    ASSUME Core, NEW s \in Server, ApplyTransfer(s)
    PROVE  CopiesLog(s)
<1> DEFINE e == srv[s]
           x == e.transfer
           src == srv[x.from].log
           n == Len(src.entries)
           a == SubSeq(Entries(s), 1, x.start - 1)
           b == SubSeq(src.entries, x.start, n)
           l == [e.log EXCEPT !.entries = a \o b, !.aged = 0]
           f == [e EXCEPT !.log = l, !.transfer = [x EXCEPT !.applied = TRUE]]
<1>1. /\ e.role = "Follower" /\ x # NoTransfer /\ ~x.applied
      /\ srv[x.from].role = "Leader" /\ x.start \in src.start .. EndIndex(src)
      /\ srv' = [srv EXCEPT ![s].log =
                     Write(e.log, [from |-> x.start,
                                   entries |-> SubSeq(src.entries,
                                       x.start - src.start + 1, Len(src.entries))]),
                            ![s].transfer.applied = TRUE]
      /\ msgs' = msgs
  BY DEF ApplyTransfer
<1>2. /\ e \in FullState /\ ServerOK(e) /\ e.term \in Nat
      /\ Entries(s) \in Seq(LogEntry) /\ Len(Entries(s)) \in Nat /\ e.log \in FullLog
      /\ x \in Transfer
  BY StateTyped, StateFields
<1>3. x.from \in Server /\ x.start \in 1 .. Len(Entries(s)) + 1
  BY <1>1, <1>2 DEF ServerOK, Entries
<1>4. /\ srv[x.from] \in FullState
      /\ src.start = 1 /\ EndIndex(src) = n + 1 /\ n \in Nat /\ src.entries \in Seq(LogEntry)
  BY <1>3, StateTyped, StateFields DEF FullLog
<1>5. x.start \in 1 .. n + 1
  BY <1>1, <1>4
<1>6. /\ a \in Seq(LogEntry) /\ b \in Seq(LogEntry)
  <2> DEFINE j == x.start
             y == Entries(s)
             z == src.entries
  <2>1. /\ j \in Nat /\ j \in 1 .. Len(y) + 1 /\ y \in Seq(LogEntry) /\ Len(y) \in Nat
        /\ j \in 1 .. n + 1 /\ z \in Seq(LogEntry) /\ n \in Nat /\ n = Len(z)
    BY <1>2, <1>3, <1>4, <1>5
  <2> HIDE DEF j, y, z, n
  <2>2. \A i \in 1 .. j - 1 : y[i] \in LogEntry
    BY <2>1, ElementOfSeq
  <2>3. \A i \in j .. n : z[i] \in LogEntry
    BY <2>1, ElementOfSeq
  <2>4. SubSeq(y, 1, j - 1) \in Seq(LogEntry) /\ SubSeq(z, j, n) \in Seq(LogEntry)
    BY <2>1, <2>2, <2>3, SubSeqProperties
  <2> QED
    BY <2>4 DEF j, y, z, n
<1>7. a \o b \in Seq(LogEntry)
  BY <1>6, ConcatProperties
<1>8. Write(e.log, [from |-> x.start,
                    entries |-> SubSeq(src.entries, x.start - src.start + 1, Len(src.entries))])
      = l
  <2> DEFINE j == x.start
             t == Trim(e.log, j)
             c == [from |-> j, entries |-> b]
  <2>1. j \in Nat /\ j >= 1 /\ j - src.start + 1 = j
    BY <1>3, <1>4
  <2>2. t = [e.log EXCEPT !.entries = a, !.aged = 0]
    BY <1>2, <2>1, TrimKeeps DEF Entries
  <2>3. c.from = j /\ c.entries = b
    OBVIOUS
  <2> HIDE DEF t, a, b, c
  <2>4. t.entries = a /\ [t EXCEPT !.entries = a \o b] = l
    BY <1>2, <2>2 DEF FullLog
  <2>5. Write(e.log, c) = [Trim(e.log, c.from) EXCEPT
                               !.entries = Trim(e.log, c.from).entries \o c.entries]
    BY DEF Write
  <2>6. Write(e.log, c) = l
    BY <2>3, <2>4, <2>5 DEF t
  <2> QED
    BY <2>1, <2>6 DEF c, b
<1> HIDE DEF a, b
<1>9. l \in FullLog /\ l.entries = a \o b
  BY <1>2, <1>7 DEF FullLog
<1>10. [x EXCEPT !.applied = TRUE] \in Transfer
  BY <1>2 DEF Transfer
<1>11. srv' = [srv EXCEPT ![s] = f]
  BY <1>1, <1>2, <1>8 DEF Core, Typed, FullState
<1> HIDE DEF l
<1> DEFINE y == [x EXCEPT !.applied = TRUE]
<1>12. /\ f \in FullState /\ f.log = l /\ f.role = e.role /\ f.term = e.term /\ f.transfer = y
  <2>1. y \in Transfer /\ f = [e EXCEPT !.log = l, !.transfer = y]
    BY <1>10
  <2> HIDE DEF f, y, e
  <2> QED
    BY <1>2, <1>9, <2>1 DEF FullState
<1>13. Typed /\ f.term >= srv[s].term /\ f.role # "Leader"
  <2>1. Typed
    BY DEF Core
  <2>2. f.term = srv[s].term /\ srv[s].term \in Nat /\ f.role = "Follower"
    BY <1>1, <1>2, <1>12
  <2> QED
    BY <2>1, <2>2
<1> HIDE DEF f
<1>14. Alone(s) /\ srv'[s] = f
  BY <1>11, <1>12, <1>13, AloneWith
<1>15. Entries(s)' = a \o b
  BY <1>9, <1>12, <1>14 DEF Entries
<1>16. /\ srv'[s].role = "Follower" /\ srv'[s].term = srv[s].term
       /\ srv'[s].transfer = [x EXCEPT !.applied = TRUE]
  BY <1>1, <1>12, <1>14
<1>17. x.start \in 1 .. Len(Entries(x.from)) + 1
  BY <1>5 DEF Entries
<1>18. Entries(s)' = SubSeq(Entries(s), 1, x.start - 1)
                     \o SubSeq(Entries(x.from), x.start, Len(Entries(x.from)))
  BY <1>15 DEF a, b, Entries
<1> HIDE DEF y, f
<1>19. /\ e.role = "Follower" /\ ~e.transfer.applied /\ srv[x.from].role = "Leader"
       /\ x # NoTransfer /\ msgs' = msgs
  BY <1>1
<1>20. Alone(s)
  BY <1>14
<1> QED
  BY <1>16, <1>17, <1>18, <1>19, <1>20 DEF CopiesLog

LEMMA ElectDoes ==
    ASSUME Core, NEW s \in Server, NEW Q \in SUBSET Server, Elect(s, Q)
    PROVE  /\ WinsElection(s, Q)
           /\ \A p \in Server : srv'[s].peers[p].next = EndIndex(srv'[s].log)
           /\ \A q \in Q \ {s} : srv'[q] = SeeTerm(srv[q], srv'[s].term)
           /\ \E e \in FullState : /\ srv'[s] = RequestAppendEntries(s, e)
                                   /\ Len(e.log.entries) \in Index /\ SameCommit(srv[s], e)
<1> DEFINE T  == {srv[q].term : q \in Q}
           t  == 1 + Max(T)
           c  == [term |-> t, type |-> "Configuration"]
           e0 == [srv[s] EXCEPT !.role = "Leader", !.term = t]
           e1 == IF e0.quick # 0 THEN e0 ELSE [e0 EXCEPT !.log = AppendTo(e0.log, c)]
           ps == [p \in Server |-> [e1.peers[p] EXCEPT !.next = EndIndex(e1.log),
                                        !.link = IF p \in Q THEN "idle" ELSE "down"]]
           e2 == [e1 EXCEPT !.peers = ps]
           e3 == RequestAppendEntries(s, e2)
<1>1. /\ s \in Q /\ 2 * Cardinality(Q) > Cardinality(Server)
      /\ srv[s].role = "Follower" /\ t <= MaxTerm
      /\ srv' = [q \in Server |-> IF q = s THEN e3
                                  ELSE IF q \in Q THEN SeeTerm(srv[q], t) ELSE srv[q]]
      /\ msgs' = msgs \cup Sent(s, e2, e3)
  BY DEF Elect
<1>2. \A q \in Server : /\ srv[q] \in FullState /\ srv[q].term \in 0 .. MaxTerm
                        /\ srv[q].term \in Nat
  BY StateTyped DEF Term
<1>3. T \in SUBSET (0 .. MaxTerm) /\ T # {}
  BY <1>1, <1>2
<1>4. Max(T) \in 0 .. MaxTerm /\ \A q \in Q : srv[q].term <= Max(T)
  <2>1. MaxTerm \in Nat
    BY Bounds
  <2>2. \A q \in Q : srv[q].term \in T
    OBVIOUS
  <2> HIDE DEF T
  <2>3. Max(T) \in T /\ \A y \in T : Max(T) >= y
    BY <1>3, <2>1, MaxIsReached
  <2> QED
    BY <1>2, <1>3, <2>2, <2>3
<1>5. t \in Nat /\ t \in 1 .. MaxTerm /\ \A q \in Q : srv[q].term < t
  <2> DEFINE x == Max(T)
  <2> HIDE DEF x
  <2>1. x \in 0 .. MaxTerm /\ x + 1 <= MaxTerm /\ \A q \in Q : srv[q].term <= x
    <3>1. 1 + x <= MaxTerm
      BY <1>1 DEF x
    <3>2. x \in 0 .. MaxTerm /\ \A q \in Q : srv[q].term <= x
      BY <1>4 DEF x
    <3>3. MaxTerm \in Nat
      BY Bounds
    <3> QED
      BY <3>1, <3>2, <3>3
  <2>2. x + 1 \in Nat /\ x + 1 \in 1 .. MaxTerm /\ \A q \in Q : srv[q].term < x + 1
    BY <1>2, <2>1
  <2> QED
    BY <2>1, <2>2 DEF x
<1> HIDE DEF t, T
<1>6. c \in LogEntry /\ t \in Term
  BY <1>5 DEF LogEntry, Term
<1> DEFINE n == Len(Entries(s))
<1>7. n \in Nat /\ n + 1 <= MaxIndex + MaxTerm
  <2>1. n \in Nat
    BY StateTyped
  <2>2. PICK t0 \in Term : Reached(t0) /\ n <= MaxIndex + t0
    BY StateTyped DEF ServerOK, Fits, Entries
  <2> DEFINE R == {q \in Server : srv[q].term >= t0}
  <2>3. R \in SUBSET Server /\ 2 * Cardinality(R) > Cardinality(Server)
    BY <2>2 DEF Reached
  <2> HIDE DEF R
  <2>4. PICK q \in Q : q \in R
    BY <1>1, <2>3, QuorumsMeet
  <2>5. srv[q].term >= t0 /\ srv[q].term < t /\ srv[q].term \in Nat
    BY <1>2, <1>5, <2>4 DEF R
  <2>6. t0 \in Nat /\ MaxIndex \in Nat /\ MaxTerm \in Nat
    BY Bounds
  <2> HIDE DEF n
  <2> QED
    BY <1>5, <2>1, <2>2, <2>5, <2>6
<1>8. /\ e0 \in FullState /\ e0.term = t /\ e0.role = "Leader" /\ e0.log = srv[s].log
      /\ e0.transfer = srv[s].transfer
      /\ e0.quick = srv[s].quick /\ e0.commit = srv[s].commit /\ e0.peers = srv[s].peers
  BY <1>2, <1>6 DEF FullState
<1> HIDE DEF e0
<1>9. /\ srv[s].log \in FullLog /\ Entries(s) \in Seq(LogEntry)
      /\ Append(Entries(s), c) \in Seq(LogEntry) /\ Len(Append(Entries(s), c)) = n + 1
  BY <1>2, <1>6, StateFields, AppendProperties DEF Entries
<1> HIDE DEF c
<1>10. /\ AppendTo(srv[s].log, c) \in FullLog
       /\ AppendTo(srv[s].log, c).entries = Append(Entries(s), c)
  BY <1>9 DEF AppendTo, FullLog, Entries
<1>11. /\ e1 \in FullState /\ e1.term = t /\ e1.role = "Leader"
       /\ e1.transfer = srv[s].transfer
       /\ e1.log.entries = Entries(s) \/ e1.log.entries = Append(Entries(s), c)
       /\ e1.quick = e0.quick /\ e1.commit = e0.commit /\ e1.peers = e0.peers
  <2> DEFINE l == AppendTo(srv[s].log, c)
             f == [e0 EXCEPT !.log = l]
  <2>1. e1 = e0 \/ e1 = f
    BY <1>8
  <2>2. l \in FullLog /\ l.entries = Append(Entries(s), c)
    BY <1>10
  <2> HIDE DEF l
  <2>3. /\ f \in FullState /\ f.term = t /\ f.role = "Leader"
        /\ f.transfer = srv[s].transfer /\ f.log = l
        /\ f.quick = e0.quick /\ f.commit = e0.commit /\ f.peers = e0.peers
    BY <1>8, <2>2 DEF FullState
  <2> HIDE DEF f, e1
  <2> QED
    BY <1>8, <2>1, <2>2, <2>3 DEF Entries
<1> HIDE DEF e1
<1>12. /\ Len(e1.log.entries) \in Nat /\ Len(e1.log.entries) <= MaxIndex + MaxTerm
       /\ Len(e1.log.entries) \in Index /\ EndIndex(e1.log) \in Index \ {0}
  <2> DEFINE k == Len(e1.log.entries)
  <2>1. MaxIndex \in Nat /\ MaxTerm \in Nat
    BY Bounds
  <2>2. (k = n \/ k = n + 1) /\ EndIndex(e1.log) = k + 1
    BY <1>9, <1>11, StateFields
  <2> HIDE DEF k, n
  <2>3. k \in Nat /\ k <= MaxIndex + MaxTerm
    BY <1>7, <2>1, <2>2
  <2>4. k \in Index /\ k + 1 \in Index /\ k + 1 # 0
    BY <2>3, Bounds
  <2> QED
    BY <2>2, <2>3, <2>4 DEF k
<1>13. ps \in [Server -> Peer]
  <2> DEFINE i == EndIndex(e1.log)
  <2>1. i \in Index \ {0} /\ \A p \in Server : e1.peers[p] \in Peer
    BY <1>11, <1>12, StateFields
  <2> HIDE DEF i
  <2>2. \A p \in Server :
            [e1.peers[p] EXCEPT !.next = i, !.link = IF p \in Q THEN "idle" ELSE "down"] \in Peer
    BY <2>1 DEF Peer
  <2> QED
    BY <2>2 DEF i
<1>24. \A p \in Server : ps[p].next = EndIndex(e1.log) /\ ps[p].matched = e1.peers[p].matched
  <2> DEFINE i == EndIndex(e1.log)
  <2>1. \A p \in Server : e1.peers[p] \in Peer
    BY <1>11, StateFields
  <2> HIDE DEF i
  <2> SUFFICES ASSUME NEW p \in Server
               PROVE  ps[p].next = i /\ ps[p].matched = e1.peers[p].matched
    BY DEF i
  <2>2. PICK y : y = e1.peers[p]
    OBVIOUS
  <2>3. ps[p] = [y EXCEPT !.next = i, !.link = IF p \in Q THEN "idle" ELSE "down"]
    <3> HIDE DEF e1
    <3> QED
      BY <2>2 DEF i
  <2>4. y \in Peer
    BY <2>1, <2>2
  <2> HIDE DEF ps
  <2> QED
    BY <2>2, <2>3, <2>4 DEF Peer
<1> HIDE DEF ps
<1>14. /\ e2 \in FullState /\ e2.term = t /\ e2.role = "Leader" /\ e2.log = e1.log
       /\ e2.peers = ps /\ e2.quick = e1.quick /\ e2.commit = e1.commit
       /\ e2.transfer = srv[s].transfer
  BY <1>11, <1>13 DEF FullState
<1> HIDE DEF e2
<1>15. e3 \in FullState /\ Quiet(e2, e3)
  BY <1>12, <1>14, RequestAppendEntriesQuiet
<1> HIDE DEF e3
<1>16. /\ e3.log.entries = e1.log.entries /\ e3.term = t /\ e3.role = "Leader"
       /\ e3.transfer = srv[s].transfer
  BY <1>14, <1>15 DEF Quiet, KeepsLog
<1>17. \A q \in Q : LET f == SeeTerm(srv[q], t) IN
           /\ f \in FullState /\ f.log = srv[q].log /\ f.transfer = srv[q].transfer
           /\ f.term = t /\ f.role = "Follower"
  <2> TAKE q \in Q
  <2> DEFINE f == SeeTerm(srv[q], t)
  <2>1. t > srv[q].term
    BY <1>2, <1>5
  <2>2. /\ f \in FullState /\ f.log = srv[q].log /\ f.transfer = srv[q].transfer
        /\ f.term = IF t > srv[q].term THEN t ELSE srv[q].term
        /\ f.role = IF t > srv[q].term THEN "Follower" ELSE srv[q].role
    BY <1>2, <1>6, SeeTermKeeps
  <2> HIDE DEF f
  <2>3. f.term = t /\ f.role = "Follower"
    BY <2>1, <2>2
  <2> QED
    BY <2>2, <2>3 DEF f
<1>18. /\ srv'[s] = e3
       /\ \A q \in Q \ {s} : srv'[q] = SeeTerm(srv[q], t)
       /\ \A q \in Server \ Q : srv'[q] = srv[q]
  BY <1>1
<1>19. srv' \in [Server -> FullState]
  BY <1>1, <1>2, <1>15, <1>17
<1>20. \A q \in Q : srv[q].term < srv'[s].term /\ srv'[q].term = srv'[s].term
  BY <1>5, <1>16, <1>17, <1>18
<1>21. /\ \A q \in Q \ {s} : srv'[q].role = "Follower"
       /\ \A q \in Server \ {s} : Entries(q)' = Entries(q)
       /\ \A q \in Server : srv'[q].transfer = srv[q].transfer
  BY <1>16, <1>17, <1>18 DEF Entries
<1>22. \/ Entries(s)' = Entries(s)
       \/ Entries(s)' = Append(Entries(s), [term |-> srv'[s].term, type |-> "Configuration"])
  BY <1>11, <1>16, <1>18 DEF Entries, c
<1>23. Sends(s, {})
  <2>1. \A m \in Sent(s, e2, e3) : RequestOf(s, e3, m)
    BY <1>12, <1>15, <1>16, SentOK
  <2> QED
    BY <1>1, <1>16, <1>18, <2>1 DEF Sends
<1>25. WinsElection(s, Q)
  BY <1>1, <1>16, <1>18, <1>19, <1>20, <1>21, <1>22, <1>23 DEF WinsElection
<1>26. EndIndex(e3.log) = EndIndex(e1.log)
  BY <1>11, <1>15, <1>16, StateFields
<1>27. \A q \in Q \ {s} : srv'[q] = SeeTerm(srv[q], srv'[s].term)
  BY <1>16, <1>18
<1>28. SameCommit(srv[s], e2)
  BY <1>8, <1>11, <1>14, <1>24 DEF SameCommit
<1>29. srv'[s] = RequestAppendEntries(s, e2)
  BY <1>18 DEF e3
<1>30. \A p \in Server : srv'[s].peers[p].next = EndIndex(srv'[s].log)
  BY <1>14, <1>15, <1>18, <1>24, <1>26 DEF Quiet
<1> QED
  BY <1>12, <1>14, <1>25, <1>27, <1>28, <1>29, <1>30

\* A leader that refuses a request keeps its peers.
LEMMA HandleRequestNext ==
    ASSUME Core, NEW s \in Server, NEW m \in msgs, HandleRequest(s, m), srv'[s].role = "Leader"
    PROVE  \A p \in Server : NextComes(s, p)
<1>1. m \in FullRequest /\ m.term \in Nat /\ m.term \in Term
  <2>1. m \in Requests
    BY DEF HandleRequest, Requests
  <2>2. m \in FullRequest
    BY <2>1, MessageKinds DEF Core
  <2> QED
    BY <2>2, RequestFields
<1>2. /\ Alone(s) /\ srv'[s].term >= m.term
  BY HandleRequestDoes, <1>1 DEF RefusesRequest, TakesEntries
<1>3. srv[s].role = "Leader" /\ m.term <= srv[s].term /\ srv[s] \in FullState /\ srv[s].term \in Nat
  BY <1>1, <1>2, StateTyped DEF Alone, Leads
<1> DEFINE e == SeeTerm(srv[s], m.term)
           asks == m.transfer /\ LogOk(e.log, m)
           asked  == [from |-> m.from, start |-> m.lastIndex + 1, applied |-> FALSE]
           refused == IF asks /\ e.transfer = NoTransfer THEN [e EXCEPT !.transfer = asked] ELSE e
<1>4. e = srv[s]
  BY <1>1, <1>3 DEF SeeTerm
<1>5. /\ ~(e.role = "Leader" /\ m.term = e.term)
      /\ Refuses(e, m) => \E a : Step(s, e, refused, {m}, {a})
  BY DEF HandleRequest, AsksTransfer
<1>6. m.term < e.term
  BY <1>1, <1>3, <1>4, <1>5
<1>7. \E a : Step(s, e, refused, {m}, {a})
  BY <1>5, <1>6 DEF Refuses
<1>8. srv' = [srv EXCEPT ![s] = refused]
  BY <1>7 DEF Step
<1> HIDE DEF asked, asks
<1>9. refused.peers = srv[s].peers
  BY <1>3, <1>4 DEF FullState
<1>10. srv'[s] = refused
  BY <1>8 DEF Core, Typed
<1> QED
  BY <1>9, <1>10, NextStays DEF Core

LEMMA NextAfter ==
    ASSUME Core, Next, NEW s \in Server, srv'[s].role = "Leader", NEW p \in Server
    PROVE  \/ Leads(s, srv'[s].term) /\ NextComes(s, p)
           \/ srv'[s].peers[p].next = EndIndex(srv'[s].log)
<1>1. PICK q \in Server :
          \/ \E Q \in SUBSET Server : Elect(q, Q)
          \/ Publish(q)
          \/ \E r \in Server : Heartbeat(q, r) \/ LoseConnection(q, r)
          \/ StepDown(q)
          \/ \E m \in msgs : HandleRequest(q, m) \/ HandleResponse(q, m)
          \/ ApplyTransfer(q)
          \/ CompleteTransfer(q)
  BY DEF Next
<1>2. CASE srv'[s] = srv[s]
  BY <1>2, NextStays DEF Core, Leads
<1>3. CASE \E Q \in SUBSET Server : Elect(q, Q)
  <2>1. PICK Q \in SUBSET Server : Elect(q, Q)
    BY <1>3
  <2>2. WinsElection(q, Q) /\ srv'[q].peers[p].next = EndIndex(srv'[q].log)
    BY <2>1, ElectDoes
  <2>3. s = q \/ srv'[s] = srv[s]
    BY <2>2 DEF WinsElection
  <2> QED
    BY <1>2, <2>2, <2>3
<1>4. CASE ~\E Q \in SUBSET Server : Elect(q, Q)
  <2>1. Alone(q) /\ (srv'[q].role = "Leader" => NextComes(q, p))
    <3>1. CASE Publish(q) \/ CompleteTransfer(q) \/ \E r \in Server : Heartbeat(q, r) \/ LoseConnection(q, r)
      BY <3>1, PublishDoes, CompleteTransferDoes, HeartbeatDoes, LoseConnectionDoes
         DEF SameLogs, AppendsEntry
    <3>2. CASE \E m \in msgs : HandleResponse(q, m)
      BY <3>2, HandleResponseDoes DEF SameLogs
    <3>3. CASE \E m \in msgs : HandleRequest(q, m)
      BY <3>3, HandleRequestDoes, HandleRequestNext DEF RefusesRequest, TakesEntries
    <3>4. CASE StepDown(q) \/ ApplyTransfer(q)
      BY <3>4, StepDownDoes, ApplyTransferDoes DEF SameLogs, CopiesLog
    <3> QED
      BY <1>1, <1>4, <3>1, <3>2, <3>3, <3>4
  <2>2. s = q \/ srv'[s] = srv[s]
    BY <2>1, AloneGives
  <2> QED
    BY <1>2, <2>1, <2>2, AloneGives
<1> QED
  BY <1>3, <1>4

LEMMA StepDoes ==
    ASSUME Core, Next
    PROVE  \E s \in Server :
               \/ SameLogs(s) \/ AppendsEntry(s) \/ CopiesLog(s)
               \/ \E m \in msgs : RefusesRequest(s, m) \/ TakesEntries(s, m)
               \/ \E Q \in SUBSET Server : WinsElection(s, Q)
<1>1. PICK s \in Server :
          \/ \E Q \in SUBSET Server : Elect(s, Q)
          \/ Publish(s)
          \/ \E p \in Server : Heartbeat(s, p) \/ LoseConnection(s, p)
          \/ StepDown(s)
          \/ \E m \in msgs : HandleRequest(s, m) \/ HandleResponse(s, m)
          \/ ApplyTransfer(s)
          \/ CompleteTransfer(s)
  BY DEF Next
<1> QED
  BY <1>1, ElectDoes, PublishDoes, HeartbeatDoes, LoseConnectionDoes, StepDownDoes,
     HandleRequestDoes, HandleResponseDoes, ApplyTransferDoes, CompleteTransferDoes

-----------------------------------------------------------------------------
(* Core is an invariant. *)

LEMMA CoreInit ==
    ASSUME Init
    PROVE  Core
<1> DEFINE p0 == NewPeer
           e0 == [role |-> "Follower", term |-> 0, quick |-> 0, commit |-> 0, log |-> EmptyLog,
                  transfer |-> NoTransfer, peers |-> [p \in Server |-> p0]]
<1>1. srv = [s \in Server |-> e0] /\ msgs = {} /\ faults = 0
  BY DEF Init
<1>2. /\ 0 \in Index /\ 1 \in Index \ {0} /\ 0 \in Term /\ MaxIndex \in Nat
      /\ MaxFaults \in Nat /\ NoTransfer \in Transfer
  BY Bounds DEF Transfer, NoTransfer
<1>3. EmptyLog \in FullLog /\ EmptyLog.entries = <<>>
  BY EmptySeq DEF EmptyLog, FullLog
<1>4. p0 \in Peer
  BY <1>2 DEF NewPeer, Peer
<1> HIDE DEF p0
<1>5. e0 \in FullState
  BY <1>2, <1>3, <1>4 DEF FullState
<1>6. /\ e0.term = 0 /\ e0.role = "Follower" /\ e0.transfer = NoTransfer
      /\ Len(e0.log.entries) = 0
  BY <1>3, EmptySeq
<1> HIDE DEF e0
<1>7. Typed
  BY <1>1, <1>2, <1>5 DEF Typed
<1>8. \A s \in Server : ServerOK(srv[s])
  <2> TAKE s \in Server
  <2>1. Reached(0)
    <3>1. {q \in Server : srv[q].term >= 0} = Server
      BY <1>1, <1>6
    <3>2. Cardinality(Server) \in Nat /\ Cardinality(Server) # 0
      BY ReplicationAssumption, FS_CardinalityType, FS_EmptySet
    <3>3. 2 * Cardinality(Server) > Cardinality(Server)
      BY <3>2
    <3> QED
      BY <3>1, <3>3 DEF Reached
  <2>2. Fits(0)
    BY <1>2, <2>1 DEF Fits
  <2> QED
    BY <1>1, <1>6, <2>1, <2>2 DEF ServerOK
<1>9. OneLeaderPerTerm
  BY <1>1, <1>6 DEF OneLeaderPerTerm, Leads
<1> QED
  BY <1>1, <1>7, <1>8, <1>9 DEF Core

LEMMA FaultsBounded ==
    ASSUME Core, Next
    PROVE  faults' \in 0 .. MaxFaults
<1>1. faults \in 0 .. MaxFaults
  BY DEF Core, Typed
<1>2. faults' = faults \/ (faults < MaxFaults /\ faults' = faults + 1)
  <2>1. PICK s \in Server :
            \/ \E Q \in SUBSET Server : Elect(s, Q)
            \/ Publish(s)
            \/ \E p \in Server : Heartbeat(s, p) \/ LoseConnection(s, p)
            \/ StepDown(s)
            \/ \E m \in msgs : HandleRequest(s, m) \/ HandleResponse(s, m)
            \/ ApplyTransfer(s)
            \/ CompleteTransfer(s)
    BY DEF Next
  <2>2. (\E Q \in SUBSET Server : Elect(s, Q)) => faults' = faults
    BY DEF Elect
  <2>3. (\E m \in msgs : HandleRequest(s, m) \/ HandleResponse(s, m)) => faults' = faults
    BY DEF HandleRequest, HandleResponse
  <2>4. Publish(s) \/ (\E p \in Server : Heartbeat(s, p)) \/ StepDown(s) \/ ApplyTransfer(s)
        => faults' = faults
    BY DEF Publish, Heartbeat, StepDown, ApplyTransfer
  <2>5. (\E p \in Server : LoseConnection(s, p)) => faults < MaxFaults /\ faults' = faults + 1
    BY DEF LoseConnection
  <2>6. CompleteTransfer(s)
        => faults' = faults \/ (faults < MaxFaults /\ faults' = faults + 1)
    BY DEF CompleteTransfer
  <2> QED
    BY <2>1, <2>2, <2>3, <2>4, <2>5, <2>6
<1> QED
  BY <1>1, <1>2, Bounds

\* What is sent is as good as the server that sends it.
LEMMA SendsOK ==
    ASSUME Core, srv' \in [Server -> FullState],
           \A q \in Server : srv'[q].term >= srv[q].term,
           NEW s \in Server, ServerOK(srv[s])',
           NEW A \in SUBSET FullResponse, \A a \in A : a.term = srv'[s].term, Sends(s, A)
    PROVE  /\ msgs' \subseteq FullRequest \cup FullResponse
           /\ \A m \in msgs' : MessageOK(m)'
<1>1. /\ srv \in [Server -> FullState] /\ msgs \subseteq FullRequest \cup FullResponse
      /\ \A m \in msgs : MessageOK(m)
  BY DEF Core, Typed
<1> SUFFICES ASSUME NEW m \in msgs'
             PROVE  m \in FullRequest \cup FullResponse /\ MessageOK(m)'
  OBVIOUS
<1>2. CASE m \in msgs
  BY <1>1, <1>2, MessageOKGrows
<1>3. CASE m \in A
  <2>1. m.type = "Response" /\ Reached(m.term)'
    BY <1>3, ResponseFields DEF ServerOK
  <2> QED
    BY <1>3, <2>1 DEF MessageOK
<1>4. CASE RequestOf(s, srv'[s], m)
  <2>1. PICK f : f = srv'[s]
    OBVIOUS
  <2>2. f \in FullState /\ RequestOf(s, f, m)
    BY <1>4, <2>1
  <2>3. ServerOK(f)'
    BY <2>1
  <2> QED
    BY <2>2, <2>3, RequestOfOK
<1> QED
  BY <1>2, <1>3, <1>4 DEF Sends

LEMMA AloneKeepsCore ==
    ASSUME Core, Next, NEW s \in Server, Alone(s), ServerOK(srv[s])',
           NEW A \in SUBSET FullResponse, \A a \in A : a.term = srv'[s].term, Sends(s, A)
    PROVE  Core'
<1>1. /\ srv \in [Server -> FullState] /\ srv' \in [Server -> FullState]
      /\ \A q \in Server : srv'[q].term >= srv[q].term
      /\ \A q \in Server \ {s} : srv'[q] = srv[q]
      /\ \A q \in Server : srv'[q].role = "Leader" => Leads(q, srv'[q].term)
  BY AloneGives
<1>2. msgs' \subseteq FullRequest \cup FullResponse /\ \A m \in msgs' : MessageOK(m)'
  BY <1>1, SendsOK
<1>3. faults' \in 0 .. MaxFaults
  BY FaultsBounded
<1>4. \A q \in Server : ServerOK(srv[q])'
  <2> TAKE q \in Server
  <2>1. CASE q = s
    BY <2>1
  <2>2. CASE q # s
    <3>1. PICK e : e = srv[q]
      OBVIOUS
    <3>2. srv'[q] = e /\ e \in FullState /\ ServerOK(e)
      BY <1>1, <2>2, <3>1, StateTyped
    <3>3. ServerOK(e)'
      BY <1>1, <3>2, ServerOKGrows
    <3> QED
      BY <3>2, <3>3
  <2> QED
    BY <2>1, <2>2
<1>5. OneLeaderPerTerm'
  <2>1. OneLeaderPerTerm
    BY DEF Core
  <2> QED
    BY <1>1, <2>1 DEF OneLeaderPerTerm, Leads
<1> QED
  BY <1>1, <1>2, <1>3, <1>4, <1>5 DEF Core, Typed

\* What ServerOK says of the log and of the transfer of server s, when it has changed.
LEMMA ServerOKWith ==
    ASSUME Core, NEW s \in Server, Alone(s),
           srv'[s].term = srv[s].term \/ \E m \in msgs : srv'[s].term = m.term,
           Fits(Len(Entries(s)))',
           \A i \in 1 .. Len(Entries(s)') : Reached(Entries(s)[i].term)',
           \/ srv'[s].transfer = NoTransfer
           \/ /\ srv'[s].transfer.from \in Server
              /\ srv'[s].transfer.start \in 1 .. Len(Entries(s)') + 1
    PROVE  ServerOK(srv[s])'
<1>1. /\ srv \in [Server -> FullState] /\ srv' \in [Server -> FullState]
      /\ \A q \in Server : srv'[q].term >= srv[q].term
      /\ srv'[s].role = "Leader" => Leads(s, srv'[s].term)
  BY AloneGives
<1>2. Reached(srv[s].term)'
  <2>1. Reached(srv[s].term) /\ srv[s].term \in Nat
    BY StateTyped DEF ServerOK
  <2>2. \A m \in msgs : Reached(m.term) /\ m.term \in Nat
    BY RequestFields, ResponseFields DEF Core, Typed, MessageOK
  <2>3. \A t \in Nat : Reached(t) => Reached(t)'
    BY <1>1, ReachedGrows
  <2>4. PICK t : t = srv'[s].term
    OBVIOUS
  <2>5. t \in Nat /\ Reached(t)
    BY <2>1, <2>2, <2>4
  <2>6. Reached(t)'
    BY <2>3, <2>5
  <2> QED
    BY <2>4, <2>6
<1>3. srv'[s].role = "Leader" => srv'[s].term # 0
  BY <1>1, StateTyped DEF ServerOK, Leads
<1> QED
  BY <1>2, <1>3 DEF ServerOK, Entries

\* A log that a server had already, and a transfer that it had or has no more.
LEMMA SameLogsKeepsCore ==
    ASSUME Core, Next, NEW s \in Server, SameLogs(s)
    PROVE  Core'
<1>1. /\ Alone(s) /\ Sends(s, {}) /\ Entries(s)' = Entries(s)
      /\ srv'[s].transfer \in {srv[s].transfer, NoTransfer}
      /\ srv'[s].term = srv[s].term \/ \E m \in msgs : srv'[s].term = m.term
  BY DEF SameLogs
<1>2. ServerOK(srv[s])'
  <2>1. PICK es : es = Entries(s)
    OBVIOUS
  <2>2. Fits(Len(es)) /\ \A i \in 1 .. Len(es) : Reached(es[i].term) /\ es[i].term \in Nat
    <3>1. ServerOK(srv[s]) /\ Entries(s) \in Seq(LogEntry)
      BY StateTyped
    <3>2. \A i \in 1 .. Len(es) : es[i] \in LogEntry
      BY <2>1, <3>1, ElementOfSeq
    <3> QED
      BY <2>1, <3>1, <3>2 DEF ServerOK, Entries, LogEntry
  <2>3. Fits(Len(es))' /\ \A i \in 1 .. Len(es) : Reached(es[i].term)'
    BY <1>1, <2>2, AloneGives, FitsGrows, ReachedGrows
  <2>4. \/ srv'[s].transfer = NoTransfer
        \/ /\ srv'[s].transfer.from \in Server
           /\ srv'[s].transfer.start \in 1 .. Len(Entries(s)') + 1
    BY <1>1, StateTyped DEF ServerOK, Entries
  <2>5. Fits(Len(Entries(s)))' /\ \A i \in 1 .. Len(Entries(s)') : Reached(Entries(s)[i].term)'
    BY <1>1, <2>1, <2>3
  <2> QED
    BY <1>1, <2>4, <2>5, ServerOKWith
<1> QED
  BY <1>1, <1>2, AloneKeepsCore

LEMMA AppendsEntryKeepsCore ==
    ASSUME Core, Next, NEW s \in Server, AppendsEntry(s)
    PROVE  Core'
<1> DEFINE x == [term |-> srv[s].term, type |-> "Application"]
<1>1. /\ Alone(s) /\ Sends(s, {}) /\ srv'[s].term = srv[s].term
      /\ Len(Entries(s)) + 1 <= MaxIndex
      /\ Entries(s)' = Append(Entries(s), x) /\ srv'[s].transfer = srv[s].transfer
      /\ Leads(s, srv[s].term)
  BY DEF AppendsEntry
<1>2. PICK es, n : es = Entries(s) /\ n = Len(es)
  OBVIOUS
<1>3. /\ ServerOK(srv[s]) /\ srv[s].term \in Term /\ srv[s].term \in 1 .. MaxTerm
      /\ es \in Seq(LogEntry) /\ n \in Nat
  <2>1. ServerOK(srv[s]) /\ srv[s].term \in Term /\ es \in Seq(LogEntry) /\ n \in Nat
    BY <1>2, StateTyped
  <2>2. srv[s].term # 0
    BY <1>1, <2>1 DEF ServerOK, Leads
  <2> QED
    BY <2>1, <2>2 DEF Term
<1>4. x \in LogEntry
  BY <1>3 DEF LogEntry
<1>5. PICK t : t = srv[s].term
  OBVIOUS
<1>6. t \in Nat /\ t \in Term /\ Reached(t)
  BY <1>3, <1>5, Bounds DEF ServerOK
<1>7. Reached(t)'
  BY <1>1, <1>6, AloneGives, ReachedGrows
<1>8. PICK w : w = Append(es, x)
  OBVIOUS
<1>9. /\ w \in Seq(LogEntry) /\ Len(w) = n + 1 /\ w[n + 1] = x
      /\ \A i \in 1 .. n : w[i] = es[i]
  BY <1>2, <1>3, <1>4, <1>8, AppendProperties
<1>10. Fits(Len(w))'
  <2>1. Len(w) <= MaxIndex + t
    BY <1>1, <1>2, <1>3, <1>6, <1>9, Bounds
  <2> QED
    BY <1>6, <1>7, <2>1 DEF Fits
<1>11. \A i \in 1 .. Len(w) : Reached(w[i].term)'
  <2> TAKE i \in 1 .. Len(w)
  <2>1. CASE i = n + 1
    BY <1>5, <1>7, <1>9, <2>1
  <2>2. CASE i # n + 1
    <3>1. i \in 1 .. n
      BY <1>3, <1>9, <2>2
    <3>2. es[i] \in LogEntry /\ Reached(es[i].term)
      BY <1>2, <1>3, <3>1, ElementOfSeq DEF ServerOK, Entries
    <3>3. es[i].term \in Nat
      BY <3>2 DEF LogEntry
    <3>4. Reached(es[i].term)'
      BY <1>1, <3>2, <3>3, AloneGives, ReachedGrows
    <3> QED
      BY <1>9, <3>1, <3>4
  <2> QED
    BY <2>1, <2>2
<1>12. Entries(s)' = w
  BY <1>1, <1>2, <1>8
<1>13. \/ srv'[s].transfer = NoTransfer
       \/ /\ srv'[s].transfer.from \in Server
          /\ srv'[s].transfer.start \in 1 .. Len(Entries(s)') + 1
  <2>1. \/ srv[s].transfer = NoTransfer
        \/ srv[s].transfer.from \in Server /\ srv[s].transfer.start \in 1 .. n + 1
    BY <1>2, <1>3 DEF ServerOK, Entries
  <2>2. Len(Entries(s)') = n + 1
    BY <1>9, <1>12
  <2>3. 1 .. n + 1 \subseteq 1 .. (n + 1) + 1
    BY <1>3
  <2> QED
    BY <1>1, <2>1, <2>2, <2>3
<1>14. ServerOK(srv[s])'
  <2>1. Fits(Len(Entries(s)))' /\ \A i \in 1 .. Len(Entries(s)') : Reached(Entries(s)[i].term)'
    BY <1>10, <1>11, <1>12
  <2> QED
    BY <1>1, <1>13, <2>1, ServerOKWith
<1> QED
  BY <1>1, <1>14, AloneKeepsCore

LEMMA RefusesRequestKeepsCore ==
    ASSUME Core, Next, NEW s \in Server, NEW m \in msgs, RefusesRequest(s, m)
    PROVE  Core'
<1>1. /\ Alone(s) /\ m \in Requests /\ Entries(s)' = Entries(s)
      /\ srv'[s].term \in {srv[s].term, m.term}
      /\ \/ srv'[s].transfer = srv[s].transfer
         \/ /\ LogOk(srv[s].log, m)
            /\ srv'[s].transfer = [from |-> m.from, start |-> m.lastIndex + 1, applied |-> FALSE]
  BY DEF RefusesRequest
<1>2. PICK a \in FullResponse : a.term = srv'[s].term /\ Sends(s, {a})
  BY DEF RefusesRequest
<1>3. PICK es : es = Entries(s)
  OBVIOUS
<1>4. Fits(Len(es)) /\ \A i \in 1 .. Len(es) : Reached(es[i].term) /\ es[i].term \in Nat
  <2>1. ServerOK(srv[s]) /\ Entries(s) \in Seq(LogEntry)
    BY StateTyped
  <2>2. \A i \in 1 .. Len(es) : es[i] \in LogEntry
    BY <1>3, <2>1, ElementOfSeq
  <2> QED
    BY <1>3, <2>1, <2>2 DEF ServerOK, Entries, LogEntry
<1>5. Fits(Len(es))' /\ \A i \in 1 .. Len(es) : Reached(es[i].term)'
  BY <1>1, <1>4, AloneGives, FitsGrows, ReachedGrows
<1>6. \/ srv'[s].transfer = NoTransfer
      \/ /\ srv'[s].transfer.from \in Server
         /\ srv'[s].transfer.start \in 1 .. Len(Entries(s)') + 1
  <2>1. CASE srv'[s].transfer = srv[s].transfer
    BY <1>1, <2>1, StateTyped DEF ServerOK, Entries
  <2>2. CASE srv'[s].transfer # srv[s].transfer
    <3>1. m \in FullRequest
      BY <1>1, MessageKinds DEF Core
    <3>2. /\ LogOk(srv[s].log, m) /\ EndIndex(srv[s].log) = Len(es) + 1 /\ Len(es) \in Nat
      BY <1>1, <1>3, <2>2, StateTyped, StateFields DEF Entries
    <3>3. m.lastIndex \in Nat /\ m.from \in Server
      BY <3>1, RequestFields
    <3>4. m.lastIndex + 1 \in 1 .. Len(es) + 1
      BY <3>2, <3>3 DEF LogOk
    <3> QED
      BY <1>1, <1>3, <2>2, <3>3, <3>4
  <2> QED
    BY <2>1, <2>2
<1>7. ServerOK(srv[s])'
  <2>1. Fits(Len(Entries(s)))' /\ \A i \in 1 .. Len(Entries(s)') : Reached(Entries(s)[i].term)'
    BY <1>1, <1>3, <1>5
  <2>2. srv'[s].term = srv[s].term \/ \E x \in msgs : srv'[s].term = x.term
    BY <1>1
  <2> QED
    BY <1>1, <1>6, <2>1, <2>2, ServerOKWith
<1> QED
  BY <1>1, <1>2, <1>7, AloneKeepsCore

LEMMA TakesAppended ==
    ASSUME Core, NEW s \in Server, NEW m \in msgs, TakesEntries(s, m)
    PROVE  /\ m \in FullRequest /\ MessageOK(m)
           /\ m.lastIndex + 1 \in 1 .. Len(Entries(s)) + 1
           /\ Entries(s)' \in Seq(LogEntry)
           /\ \E c \in 1 .. Len(m.entries) + 1 :
                  Appended(Entries(s), m.entries, m.lastIndex + 1, c, Entries(s)')
<1>1. /\ m \in Requests /\ LogOk(srv[s].log, m) /\ Alone(s)
      /\ Entries(s)' = AppendEntries(srv[s].log, m.entries, m.lastIndex + 1).entries
  BY DEF TakesEntries
<1>2. m \in FullRequest /\ MessageOK(m)
  BY <1>1, MessageKinds DEF Core
<1>3. /\ m.lastIndex \in Nat /\ m.entries \in Seq(LogEntry)
  BY <1>2, RequestFields
<1>4. /\ srv[s].log \in FullLog /\ EndIndex(srv[s].log) = Len(Entries(s)) + 1
      /\ Len(Entries(s)) \in Nat
  BY StateTyped, StateFields DEF Entries
<1>5. m.lastIndex + 1 \in 1 .. Len(Entries(s)) + 1
  BY <1>1, <1>3, <1>4 DEF LogOk
<1>6. \E c \in 1 .. Len(m.entries) + 1 :
          Appended(Entries(s), m.entries, m.lastIndex + 1, c, Entries(s)')
  <2> DEFINE l == srv[s].log
             i == m.lastIndex + 1
  <2>1. l \in FullLog /\ m.entries \in Seq(LogEntry) /\ i \in 1 .. Len(l.entries) + 1
    BY <1>3, <1>4, <1>5 DEF Entries
  <2> HIDE DEF l, i
  <2>2. \E c \in 1 .. Len(m.entries) + 1 :
            Appended(l.entries, m.entries, i, c, AppendEntries(l, m.entries, i).entries)
    BY <2>1, AppendEntriesOK
  <2> QED
    BY <1>1, <2>2 DEF l, i, Entries
<1>7. Entries(s)' \in Seq(LogEntry)
  BY <1>1, AloneGives, StateFields DEF Entries
<1> QED
  BY <1>2, <1>5, <1>6, <1>7

LEMMA TakesEntriesKeepsCore ==
    ASSUME Core, Next, NEW s \in Server, NEW m \in msgs, TakesEntries(s, m)
    PROVE  Core'
<1>1. Alone(s) /\ srv'[s].term = m.term /\ srv'[s].transfer = NoTransfer
  BY DEF TakesEntries
<1>2. PICK a \in FullResponse : a.term = srv'[s].term /\ Sends(s, {a})
  BY <1>1 DEF TakesEntries
<1>3. PICK l, r : l = Entries(s) /\ r = Entries(s)'
  OBVIOUS
<1> DEFINE es == m.entries
           i  == m.lastIndex + 1
<1>4. /\ m \in FullRequest /\ MessageOK(m) /\ i \in 1 .. Len(l) + 1 /\ r \in Seq(LogEntry)
  BY <1>3, TakesAppended
<1>5. PICK c \in 1 .. Len(es) + 1 : Appended(l, es, i, c, r)
  BY <1>3, TakesAppended
<1>6. l \in Seq(LogEntry) /\ Len(l) \in Nat /\ ServerOK(srv[s])
  BY <1>3, StateTyped
<1>7. /\ es \in Seq(LogEntry) /\ Len(es) \in Nat /\ m.lastIndex \in Nat
      /\ m.type = "Request" /\ i - 1 + Len(es) = m.lastIndex + Len(es)
  BY <1>4, RequestFields
<1> HIDE DEF i
<1>8. /\ Len(r) = Len(l) \/ Len(r) = m.lastIndex + Len(es)
      /\ \A j \in 1 .. Len(r) : \/ j \in 1 .. Len(l) /\ r[j] = l[j]
                                \/ \E k \in 1 .. Len(es) : r[j] = es[k]
  <2> HIDE DEF es
  <2>1. /\ Len(r) = Len(l) \/ Len(r) = i - 1 + Len(es)
        /\ \A j \in 1 .. Len(r) :
               \/ j \in 1 .. Len(l) /\ r[j] = l[j]
               \/ \E k \in 1 .. Len(es) : j = i - 1 + k /\ r[j] = es[k]
    BY <1>4, <1>5, <1>6, <1>7, AppendedFrom
  <2> QED
    BY <1>7, <2>1
<1>9. Fits(Len(r))
  BY <1>3, <1>4, <1>6, <1>7, <1>8 DEF MessageOK, ServerOK, Entries
<1>10. \A j \in 1 .. Len(r) : Reached(r[j].term) /\ r[j].term \in Nat
  <2> TAKE j \in 1 .. Len(r)
  <2>1. \A k \in 1 .. Len(l) : Reached(l[k].term)
    BY <1>3, <1>6 DEF ServerOK, Entries
  <2>2. \A k \in 1 .. Len(es) : Reached(es[k].term)
    BY <1>4, <1>7 DEF MessageOK
  <2>3. r[j] \in LogEntry
    BY <1>4, ElementOfSeq
  <2>4. r[j].term \in Nat
    BY <2>3 DEF LogEntry
  <2> QED
    BY <1>8, <2>1, <2>2, <2>4
<1>11. Fits(Len(r))' /\ \A j \in 1 .. Len(r) : Reached(r[j].term)'
  BY <1>1, <1>9, <1>10, AloneGives, FitsGrows, ReachedGrows
<1>12. ServerOK(srv[s])'
  <2>1. Fits(Len(Entries(s)))' /\ \A j \in 1 .. Len(Entries(s)') : Reached(Entries(s)[j].term)'
    BY <1>3, <1>11
  <2> QED
    BY <1>1, <2>1, ServerOKWith
<1> QED
  BY <1>1, <1>2, <1>12, AloneKeepsCore

\* The log of server s with the tail of another.
LEMMA CopiedLog ==
    ASSUME Core, NEW s \in Server, CopiesLog(s)
    PROVE  LET x == srv[s].transfer
               l == Entries(s)
               y == Entries(x.from)
           IN  /\ x.from \in Server /\ x.start \in 1 .. Len(l) + 1 /\ x.start \in 1 .. Len(y) + 1
               /\ Entries(s)' \in Seq(LogEntry) /\ Len(Entries(s)') = Len(y)
               /\ \A j \in 1 .. x.start - 1 : Entries(s)'[j] = l[j]
               /\ \A j \in x.start .. Len(y) : Entries(s)'[j] = y[j]
<1>1. PICK x, l, y, i : x = srv[s].transfer /\ l = Entries(s) /\ y = Entries(x.from) /\ i = x.start
  OBVIOUS
<1>2. /\ x # NoTransfer /\ i \in 1 .. Len(y) + 1
      /\ Entries(s)' = SubSeq(l, 1, i - 1) \o SubSeq(y, i, Len(y))
  BY <1>1 DEF CopiesLog
<1>3. x.from \in Server /\ i \in 1 .. Len(l) + 1
  BY <1>1, <1>2, StateTyped DEF ServerOK, Entries
<1>4. l \in Seq(LogEntry) /\ y \in Seq(LogEntry) /\ Len(l) \in Nat /\ Len(y) \in Nat /\ i \in Nat
  BY <1>1, <1>3, StateTyped
<1> DEFINE a == SubSeq(l, 1, i - 1)
           b == SubSeq(y, i, Len(y))
<1>5. /\ a \in Seq(LogEntry) /\ Len(a) = i - 1 /\ \A j \in 1 .. i - 1 : a[j] = l[j]
  <2>1. \A j \in 1 .. i - 1 : l[j] \in LogEntry
    BY <1>3, <1>4, ElementOfSeq
  <2>2. /\ a \in Seq(LogEntry)
        /\ Len(a) = IF 1 <= i - 1 THEN i - 1 - 1 + 1 ELSE 0
        /\ \A j \in 1 .. i - 1 - 1 + 1 : a[j] = l[1 + j - 1]
    BY <1>4, <2>1, SubSeqProperties
  <2>3. \A j \in 1 .. i - 1 : a[j] = l[j]
    <3> TAKE j \in 1 .. i - 1
    <3>1. j \in 1 .. i - 1 - 1 + 1 /\ 1 + j - 1 = j
      BY <1>4
    <3> QED
      BY <2>2, <3>1
  <2> QED
    BY <1>3, <1>4, <2>2, <2>3
<1>6. /\ b \in Seq(LogEntry) /\ Len(b) = Len(y) - i + 1
      /\ \A j \in 1 .. Len(y) - i + 1 : b[j] = y[i + j - 1]
  <2>1. \A j \in i .. Len(y) : y[j] \in LogEntry
    BY <1>3, <1>4, ElementOfSeq
  <2>2. /\ b \in Seq(LogEntry)
        /\ Len(b) = IF i <= Len(y) THEN Len(y) - i + 1 ELSE 0
        /\ \A j \in 1 .. Len(y) - i + 1 : b[j] = y[i + j - 1]
    BY <1>4, <2>1, SubSeqProperties
  <2> QED
    BY <1>2, <1>4, <2>2
<1> HIDE DEF a, b
<1>7. PICK r : r = a \o b
  OBVIOUS
<1>8. /\ r \in Seq(LogEntry) /\ Len(r) = Len(a) + Len(b)
      /\ \A j \in 1 .. Len(a) + Len(b) : r[j] = IF j <= Len(a) THEN a[j] ELSE b[j - Len(a)]
  BY <1>5, <1>6, <1>7, ConcatProperties
<1>9. Len(r) = Len(y) /\ \A j \in 1 .. i - 1 : r[j] = l[j]
  <2>1. Len(r) = Len(y)
    BY <1>4, <1>5, <1>6, <1>8
  <2> SUFFICES ASSUME NEW j \in 1 .. i - 1 PROVE r[j] = l[j]
    BY <2>1
  <2>2. j \in 1 .. Len(a) + Len(b) /\ j <= Len(a)
    BY <1>2, <1>4, <1>5, <1>6
  <2> QED
    BY <1>5, <1>8, <2>2
<1>10. \A j \in i .. Len(y) : r[j] = y[j]
  <2> TAKE j \in i .. Len(y)
  <2> DEFINE k == j - Len(a)
  <2>1. /\ j \in 1 .. Len(a) + Len(b) /\ ~(j <= Len(a)) /\ k \in 1 .. Len(y) - i + 1
        /\ i + k - 1 = j
    BY <1>2, <1>4, <1>5, <1>6
  <2>2. r[j] = b[k]
    BY <1>8, <2>1
  <2> HIDE DEF k
  <2> QED
    BY <1>6, <2>1, <2>2
<1>11. Entries(s)' = r
  BY <1>2, <1>7 DEF a, b
<1> QED
  BY <1>1, <1>2, <1>3, <1>8, <1>9, <1>10, <1>11

LEMMA CopiesLogKeepsCore ==
    ASSUME Core, Next, NEW s \in Server, CopiesLog(s)
    PROVE  Core'
<1>1. PICK x, l, y, i, r : /\ x = srv[s].transfer /\ l = Entries(s) /\ y = Entries(x.from)
                           /\ i = x.start /\ r = Entries(s)'
  OBVIOUS
<1>2. /\ x.from \in Server /\ i \in 1 .. Len(l) + 1 /\ i \in 1 .. Len(y) + 1
      /\ r \in Seq(LogEntry) /\ Len(r) = Len(y)
      /\ \A j \in 1 .. i - 1 : r[j] = l[j]
      /\ \A j \in i .. Len(y) : r[j] = y[j]
  BY <1>1, CopiedLog
<1>3. /\ Alone(s) /\ msgs' = msgs /\ srv'[s].term = srv[s].term
      /\ srv'[s].transfer = [x EXCEPT !.applied = TRUE]
  BY <1>1 DEF CopiesLog
<1>4. /\ ServerOK(srv[s]) /\ ServerOK(srv[x.from]) /\ x \in Transfer
      /\ Len(l) \in Nat /\ Len(y) \in Nat
  BY <1>1, <1>2, StateTyped, StateFields
<1>5. \A j \in 1 .. Len(r) : Reached(r[j].term) /\ r[j].term \in Nat
  <2> TAKE j \in 1 .. Len(r)
  <2>1. r[j] \in LogEntry
    BY <1>2, ElementOfSeq
  <2>2. r[j].term \in Nat
    BY <2>1 DEF LogEntry
  <2>3. CASE j <= i - 1
    <3>1. j \in 1 .. i - 1 /\ j \in 1 .. Len(l)
      BY <1>2, <1>4, <2>3
    <3> QED
      BY <1>1, <1>2, <1>4, <2>2, <3>1 DEF ServerOK, Entries
  <2>4. CASE ~(j <= i - 1)
    <3>1. j \in i .. Len(y) /\ j \in 1 .. Len(y)
      BY <1>2, <1>4, <2>4
    <3> QED
      BY <1>1, <1>2, <1>4, <2>2, <3>1 DEF ServerOK, Entries
  <2> QED
    BY <2>3, <2>4
<1>6. Fits(Len(r))
  BY <1>1, <1>2, <1>4 DEF ServerOK, Entries
<1>7. Fits(Len(r))' /\ \A j \in 1 .. Len(r) : Reached(r[j].term)'
  BY <1>3, <1>5, <1>6, AloneGives, FitsGrows, ReachedGrows
<1>8. srv'[s].transfer.from = x.from /\ srv'[s].transfer.start = i
  BY <1>1, <1>3, <1>4 DEF Transfer
<1>9. ServerOK(srv[s])'
  <2>1. Fits(Len(Entries(s)))' /\ \A j \in 1 .. Len(Entries(s)') : Reached(Entries(s)[j].term)'
    BY <1>1, <1>7
  <2>2. srv'[s].transfer.start \in 1 .. Len(Entries(s)') + 1
    BY <1>1, <1>2, <1>8
  <2> QED
    BY <1>2, <1>3, <1>8, <2>1, <2>2, ServerOKWith
<1>10. Sends(s, {})
  BY <1>3 DEF Sends
<1> QED
  BY <1>3, <1>9, <1>10, AloneKeepsCore

\* The term of a new leader is above all that a majority has reached.
LEMMA AboveReached ==
    ASSUME Core, NEW s \in Server, NEW Q \in SUBSET Server, WinsElection(s, Q),
           NEW t \in Nat, Reached(t)
    PROVE  t < srv'[s].term
<1>1. 2 * Cardinality(Q) > Cardinality(Server) /\ \A q \in Q : srv[q].term < srv'[s].term
  BY DEF WinsElection
<1> DEFINE R == {q \in Server : srv[q].term >= t}
<1>2. R \in SUBSET Server /\ 2 * Cardinality(R) > Cardinality(Server)
  BY DEF Reached
<1> HIDE DEF R
<1>3. PICK q \in Q : q \in R
  BY <1>1, <1>2, QuorumsMeet
<1>4. srv[q].term \in Nat /\ srv[q].term >= t
  BY <1>3, StateTyped DEF R
<1>5. srv'[s].term \in Nat
  BY StateFields, Bounds DEF WinsElection
<1> QED
  BY <1>1, <1>4, <1>5

LEMMA WinsElectionKeepsCore ==
    ASSUME Core, Next, NEW s \in Server, NEW Q \in SUBSET Server, WinsElection(s, Q)
    PROVE  Core'
<1>1. PICK t : t = srv'[s].term
  OBVIOUS
<1>2. /\ srv' \in [Server -> FullState] /\ s \in Q /\ 2 * Cardinality(Q) > Cardinality(Server)
      /\ srv'[s].role = "Leader"
      /\ \A q \in Q : srv[q].term < t /\ srv'[q].term = t
      /\ \A q \in Q \ {s} : srv'[q].role = "Follower"
      /\ \A q \in Server \ Q : srv'[q] = srv[q]
      /\ \A q \in Server \ {s} : Entries(q)' = Entries(q)
      /\ \A q \in Server : srv'[q].transfer = srv[q].transfer
      /\ Sends(s, {})
  BY <1>1 DEF WinsElection
<1>3. srv \in [Server -> FullState] /\ t \in Nat /\ t \in Term
  BY <1>1, <1>2, StateFields, Bounds DEF Core, Typed
<1>4. \A q \in Server : /\ srv[q].term \in Nat /\ srv'[q].term \in Nat
                        /\ srv'[q].term >= srv[q].term
  <2>1. \A q \in Server : srv[q].term \in Nat /\ srv'[q].term \in Nat
    BY <1>2, <1>3, StateFields, Bounds
  <2>2. \A q \in Server : q \in Q \/ srv'[q] = srv[q]
    BY <1>2
  <2> QED
    BY <1>2, <1>3, <2>1, <2>2
<1>5. Reached(t)'
  <2> DEFINE R == {q \in Server : srv'[q].term >= t}
  <2>1. Q \subseteq R /\ R \subseteq Server
    BY <1>2, <1>3, <1>4
  <2> HIDE DEF R
  <2>2. IsFiniteSet(R) /\ IsFiniteSet(Q)
    BY <2>1, ReplicationAssumption, FS_Subset
  <2>3. /\ Cardinality(Q) <= Cardinality(R) /\ Cardinality(Q) \in Nat
        /\ Cardinality(R) \in Nat /\ Cardinality(Server) \in Nat
    BY <2>1, <2>2, ReplicationAssumption, FS_Subset, FS_CardinalityType
  <2>4. 2 * Cardinality(R) > Cardinality(Server)
    BY <1>2, <2>3
  <2> QED
    BY <2>4 DEF R, Reached
<1>6. \A u \in Nat : Reached(u) => u < t /\ Reached(u)'
  <2> TAKE u \in Nat
  <2>1. Reached(u) => u < t
    BY <1>1, AboveReached
  <2>2. Reached(u) => Reached(u)'
    BY <1>2, <1>3, <1>4, ReachedGrows
  <2> QED
    BY <2>1, <2>2
<1>7. \A q \in Server : /\ Fits(Len(Entries(q)))
                        /\ \A i \in 1 .. Len(Entries(q)) : /\ Reached(Entries(q)[i].term)
                                                           /\ Entries(q)[i].term \in Nat
  <2> TAKE q \in Server
  <2>1. ServerOK(srv[q]) /\ Entries(q) \in Seq(LogEntry)
    BY StateTyped
  <2>2. \A i \in 1 .. Len(Entries(q)) : Entries(q)[i] \in LogEntry
    BY <2>1, ElementOfSeq
  <2> QED
    BY <2>1, <2>2 DEF ServerOK, Entries, LogEntry
<1>8. \A q \in Server \ {s} : ServerOK(srv[q])'
  <2> TAKE q \in Server \ {s}
  <2>1. PICK es, u : es = Entries(q) /\ u = srv'[q].term
    OBVIOUS
  <2>2. Fits(Len(es)) /\ \A i \in 1 .. Len(es) : Reached(es[i].term) /\ es[i].term \in Nat
    BY <1>7, <2>1
  <2>3. Fits(Len(es))' /\ \A i \in 1 .. Len(es) : Reached(es[i].term)'
    BY <1>2, <1>3, <1>4, <1>6, <2>2, FitsGrows
  <2>4. Entries(q)' = es
    BY <1>2, <2>1
  <2>5. Reached(u)' /\ (srv'[q].role = "Leader" => u # 0)
    <3>1. CASE q \in Q
      BY <1>2, <1>5, <2>1, <3>1
    <3>2. CASE q \notin Q
      BY <1>2, <1>4, <1>6, <2>1, <3>2, StateTyped DEF ServerOK
    <3> QED
      BY <3>1, <3>2
  <2>6. \/ srv'[q].transfer = NoTransfer
        \/ /\ srv'[q].transfer.from \in Server
           /\ srv'[q].transfer.start \in 1 .. Len(Entries(q)') + 1
    BY <1>2, <2>1, <2>4, StateTyped DEF ServerOK, Entries
  <2>7. /\ Reached(srv[q].term)' /\ (srv'[q].role = "Leader" => srv'[q].term # 0)
        /\ Fits(Len(Entries(q)))'
        /\ \A i \in 1 .. Len(Entries(q)') : Reached(Entries(q)[i].term)'
    BY <2>1, <2>3, <2>4, <2>5
  <2> QED
    BY <2>6, <2>7 DEF ServerOK, Entries
<1>9. ServerOK(srv[s])'
  <2> DEFINE x == [term |-> srv'[s].term, type |-> "Configuration"]
  <2>1. PICK es, w : es = Entries(s) /\ w = Entries(s)'
    OBVIOUS
  <2>2. /\ es \in Seq(LogEntry) /\ Len(es) \in Nat
        /\ Fits(Len(es)) /\ \A i \in 1 .. Len(es) : Reached(es[i].term) /\ es[i].term \in Nat
    <3>1. Entries(s) \in Seq(LogEntry) /\ Len(Entries(s)) \in Nat
      BY StateTyped
    <3>2. /\ Fits(Len(Entries(s)))
          /\ \A i \in 1 .. Len(Entries(s)) : /\ Reached(Entries(s)[i].term)
                                             /\ Entries(s)[i].term \in Nat
      BY <1>7
    <3> QED
      BY <2>1, <3>1, <3>2
  <2>3. PICK u \in Term : Reached(u) /\ Len(es) <= MaxIndex + u
    BY <2>2 DEF Fits
  <2>4. u \in Nat /\ u < t
    BY <1>6, <2>3, Bounds
  <2>5. Len(es) + 1 <= MaxIndex + t /\ Len(es) <= MaxIndex + t
    <3>1. PICK k, v, b : k = Len(es) /\ v = t /\ b = MaxIndex
      OBVIOUS
    <3>2. k \in Nat /\ v \in Nat /\ b \in Nat /\ u \in Nat /\ k <= b + u /\ u < v
      BY <1>3, <2>2, <2>3, <2>4, <3>1, Bounds
    <3>3. k + 1 <= b + v /\ k <= b + v
      BY <3>2
    <3> QED
      BY <3>1, <3>3
  <2>6. x \in LogEntry /\ x.term = t
    BY <1>1, <1>3, <2>4 DEF LogEntry, Term
  <2> HIDE DEF x
  <2>7. w = es \/ w = Append(es, x)
    BY <2>1 DEF WinsElection, x
  <2>8. /\ w \in Seq(LogEntry) /\ (Len(w) = Len(es) \/ Len(w) = Len(es) + 1)
        /\ \A i \in 1 .. Len(w) : w[i] = x \/ (i \in 1 .. Len(es) /\ w[i] = es[i])
    <3>1. CASE w = es
      BY <2>2, <3>1
    <3>2. CASE w = Append(es, x)
      <4>1. /\ w \in Seq(LogEntry) /\ Len(w) = Len(es) + 1 /\ w[Len(es) + 1] = x
            /\ \A i \in 1 .. Len(es) : w[i] = es[i]
        BY <2>2, <2>6, <3>2, AppendProperties
      <4>2. \A i \in 1 .. Len(es) + 1 : i = Len(es) + 1 \/ i \in 1 .. Len(es)
        BY <2>2
      <4> QED
        BY <4>1, <4>2
    <3> QED
      BY <2>7, <3>1, <3>2
  <2>9. Fits(Len(w))'
    BY <1>3, <1>5, <2>5, <2>8 DEF Fits
  <2>10. \A i \in 1 .. Len(w) : Reached(w[i].term)'
    BY <1>5, <1>6, <2>2, <2>6, <2>8
  <2>11. \/ srv'[s].transfer = NoTransfer
         \/ /\ srv'[s].transfer.from \in Server
            /\ srv'[s].transfer.start \in 1 .. Len(w) + 1
    <3>1. \/ srv[s].transfer = NoTransfer
          \/ srv[s].transfer.from \in Server /\ srv[s].transfer.start \in 1 .. Len(es) + 1
      BY <2>1, StateTyped DEF ServerOK, Entries
    <3>2. 1 .. Len(es) + 1 \subseteq 1 .. Len(w) + 1
      BY <2>2, <2>8
    <3> QED
      BY <1>2, <3>1, <3>2
  <2>12. /\ Reached(srv[s].term)' /\ srv'[s].term # 0
         /\ Fits(Len(Entries(s)))'
         /\ \A i \in 1 .. Len(Entries(s)') : Reached(Entries(s)[i].term)'
    BY <1>1, <1>5, <2>1, <2>4, <2>9, <2>10
  <2> QED
    BY <2>1, <2>11, <2>12 DEF ServerOK, Entries
<1>10. msgs' \subseteq FullRequest \cup FullResponse /\ \A m \in msgs' : MessageOK(m)'
  <2>1. {} \in SUBSET FullResponse /\ \A a \in {} : a.term = srv'[s].term
    OBVIOUS
  <2> QED
    BY <1>2, <1>4, <1>9, <2>1, SendsOK
<1>11. OneLeaderPerTerm'
  <2>1. \A q \in Server \ {s} : srv'[q].role = "Leader"
            => q \notin Q /\ srv'[q] = srv[q] /\ srv[q].term < t
    BY <1>2, <1>4, <1>6, StateTyped DEF ServerOK
  <2>2. OneLeaderPerTerm
    BY DEF Core
  <2> SUFFICES ASSUME NEW p \in Server, NEW q \in Server,
                      srv'[p].role = "Leader", srv'[q].role = "Leader", srv'[p].term = srv'[q].term
               PROVE  p = q
    BY DEF OneLeaderPerTerm, Leads
  <2>3. CASE p = s \/ q = s
    BY <1>1, <1>3, <1>4, <2>1, <2>3
  <2>4. CASE p # s /\ q # s
    BY <2>1, <2>2, <2>4 DEF OneLeaderPerTerm, Leads
  <2> QED
    BY <2>3, <2>4
<1> QED
  BY <1>2, <1>8, <1>9, <1>10, <1>11, FaultsBounded DEF Core, Typed

LEMMA StepKeepsCore ==
    ASSUME Core, [Next]_vars
    PROVE  Core'
<1>1. CASE Next
  BY <1>1, StepDoes, SameLogsKeepsCore, AppendsEntryKeepsCore, CopiesLogKeepsCore,
     RefusesRequestKeepsCore, TakesEntriesKeepsCore, WinsElectionKeepsCore
<1>2. CASE UNCHANGED vars
  BY <1>2 DEF vars, Core, Typed, ServerOK, MessageOK, Fits, Reached, OneLeaderPerTerm, Leads
<1> QED
  BY <1>1, <1>2

(***************************************************************************)
(* The terms, roles, logs and messages of the servers stay what Core says  *)
(* of them, whatever is lost, late or transferred: among it, two servers   *)
(* never lead one term.                                                    *)
(***************************************************************************)
THEOREM CoreHolds == Spec => []Core
<1> QED
  BY CoreInit, StepKeepsCore, PTL DEF Spec

LEMMA CoreIsTyped ==
    ASSUME Core
    PROVE  TypeOK
<1>1. LogEntry \subseteq Entry
  BY ReplicationAssumption DEF LogEntry
<1>2. Seq(LogEntry) \subseteq Seq(Entry)
  BY <1>1, SeqMonotonic
<1>3. FullLog \subseteq Log
  <2> DEFINE A == {1}
             B == {FALSE}
             C == {0}
             D == Seq(LogEntry)
             E == Seq(Entry)
             F == BOOLEAN
  <2>1. A \subseteq Nat /\ B \subseteq F /\ C \subseteq Nat /\ D \subseteq E
    BY <1>2
  <2>2. /\ FullLog = [start : A, commit : Nat, locked : B, aged : C, entries : D]
        /\ Log = [start : Nat, commit : Nat, locked : F, aged : Nat, entries : E]
    BY DEF FullLog, Log
  <2> HIDE DEF A, B, C, D, E, F
  <2>3. \A a \in A, n \in Nat, b \in B, c \in C, d \in D :
            a \in Nat /\ n \in Nat /\ b \in F /\ c \in Nat /\ d \in E
    BY <2>1
  <2> QED
    BY <2>2, <2>3
<1>4. FullState \subseteq ServerState
  BY <1>3 DEF FullState, ServerState
<1>5. FullRequest \subseteq Request
  BY <1>2 DEF FullRequest, Request
<1>6. FullResponse \subseteq Response
  BY DEF FullResponse, Response
<1>7. Typed
  BY DEF Core
<1> QED
  BY <1>4, <1>5, <1>6, <1>7 DEF Typed, TypeOK

(***************************************************************************)
(* The types of replication.rs's state hold, the bounds of the indexes     *)
(* among them: no log is longer than the clients' bound and one entry for  *)
(* each election, since an election is always in a new term.               *)
(***************************************************************************)
THEOREM TypeCorrect == Spec => []TypeOK
<1> QED
  BY CoreHolds, CoreIsTyped, PTL

\* Only the publications of its clients go to the log of a server that leads.
LEMMA LeaderAppends ==
    ASSUME Core, Next, NEW s \in Server, srv[s].role = "Leader", srv'[s].role = "Leader",
           srv[s].term = srv'[s].term
    PROVE  \/ Entries(s)' = Entries(s)
           \/ \E x \in LogEntry : Entries(s)' = Append(Entries(s), x)
<1>1. Entries(s) \in Seq(LogEntry) /\ Len(Entries(s)) \in Nat /\ srv[s].term \in Nat
  BY StateTyped
<1>2. PICK q \in Server :
          \/ SameLogs(q) \/ AppendsEntry(q) \/ CopiesLog(q)
          \/ \E m \in msgs : RefusesRequest(q, m) \/ TakesEntries(q, m)
          \/ \E Q \in SUBSET Server : WinsElection(q, Q)
  BY StepDoes
<1>3. CASE \E Q \in SUBSET Server : WinsElection(q, Q)
  BY <1>1, <1>3 DEF WinsElection
<1>4. CASE q # s /\ ~\E Q \in SUBSET Server : WinsElection(q, Q)
  <2>1. Alone(q)
    BY <1>2, <1>4 DEF SameLogs, AppendsEntry, CopiesLog, RefusesRequest, TakesEntries
  <2>2. srv'[s] = srv[s]
    BY <1>4, <2>1, AloneGives
  <2> QED
    BY <2>2 DEF Entries
<1>5. CASE q = s /\ ~\E Q \in SUBSET Server : WinsElection(q, Q)
  <2>1. CASE AppendsEntry(s)
    <3>1. [term |-> srv[s].term, type |-> "Application"] \in LogEntry
      BY StateTyped DEF ServerOK, Term, LogEntry
    <3> QED
      BY <2>1, <3>1 DEF AppendsEntry
  <2>2. CASE SameLogs(s) \/ \E m \in msgs : RefusesRequest(s, m)
    BY <2>2 DEF SameLogs, RefusesRequest
  <2>3. ~CopiesLog(s) /\ ~\E m \in msgs : TakesEntries(s, m)
    BY DEF CopiesLog, TakesEntries
  <2> QED
    BY <1>2, <1>5, <2>1, <2>2, <2>3
<1> QED
  BY <1>2, <1>3, <1>4, <1>5

LEMMA LeaderGrows ==
    ASSUME Core, Next, NEW s \in Server, srv[s].role = "Leader", srv'[s].role = "Leader",
           srv[s].term = srv'[s].term
    PROVE  /\ IsPrefix(Entries(s), Entries(s)')
           /\ Len(Entries(s)) <= Len(Entries(s)')
           /\ \A i \in 1 .. Len(Entries(s)) : Entries(s)'[i] = Entries(s)[i]
<1>1. PICK l, w : l = Entries(s) /\ w = Entries(s)'
  OBVIOUS
<1>2. l \in Seq(LogEntry) /\ Len(l) \in Nat
  BY <1>1, StateTyped
<1>3. w = l \/ \E x \in LogEntry : w = Append(l, x)
  BY <1>1, LeaderAppends
<1>4. Len(l) <= Len(w) /\ \A i \in 1 .. Len(l) : w[i] = l[i]
  BY <1>2, <1>3, AppendProperties
<1>5. IsPrefix(l, w)
  BY <1>4 DEF IsPrefix
<1> QED
  BY <1>1, <1>4, <1>5

(***************************************************************************)
(* While a server leads a term its log only grows, in every group and      *)
(* whatever state transfers do: append_entries is never reached on a       *)
(* leader of the request's term, and only followers apply a transfer.      *)
(***************************************************************************)
THEOREM LeaderKeepsLog == Spec => LeaderKeepsItsLog
<1>1. Core /\ [Next]_vars =>
      [\A s \in Server :
          (srv[s].role = "Leader" /\ srv'[s].role = "Leader" /\ srv[s].term = srv'[s].term)
          => IsPrefix(srv[s].log.entries, srv'[s].log.entries)]_vars
  BY LeaderGrows DEF Entries
<1> QED
  BY <1>1, CoreHolds, PTL DEF Spec, LeaderKeepsItsLog

-----------------------------------------------------------------------------
(***************************************************************************)
(* Logs as sets of links: an entry, its index, and the term of the entry   *)
(* before it.  Logs and requests under way have links in common, and a     *)
(* follower's log is made of links that others had.                        *)
(***************************************************************************)
LinkAt(l, i) == [index |-> i, prev |-> IF i = 1 THEN 0 ELSE l[i - 1].term, entry |-> l[i]]
LogLinks(l)  == {LinkAt(l, i) : i \in 1 .. Len(l)}

RequestLink(m, k) == [index |-> m.lastIndex + k,
                      prev  |-> IF k = 1 THEN m.lastTerm ELSE m.entries[k - 1].term,
                      entry |-> m.entries[k]]
RequestLinks(m) == {RequestLink(m, k) : k \in 1 .. Len(m.entries)}

IsLink(x) == \/ \E s \in Server : x \in LogLinks(Entries(s))
             \/ \E m \in Requests : x \in RequestLinks(m)

\* A request's links are those of the log it was made from.
LEMMA RequestLinksInLog ==
    ASSUME NEW m \in FullRequest, NEW l \in FullLog, InLog(m, l)
    PROVE  RequestLinks(m) \subseteq LogLinks(l.entries)
<1>1. PICK y : y = l.entries
  OBVIOUS
<1>2. /\ m.lastIndex \in Nat /\ Len(m.entries) \in Nat /\ Len(y) \in Nat
      /\ m.lastIndex + Len(m.entries) <= Len(y)
      /\ m.lastTerm = TermAt(l, m.lastIndex)
      /\ \A k \in 1 .. Len(m.entries) : m.entries[k] = y[m.lastIndex + k]
  BY <1>1, RequestFields, LenProperties DEF InLog, FullLog
<1>3. m.lastTerm = IF m.lastIndex = 0 THEN 0 ELSE y[m.lastIndex].term
  BY <1>1, <1>2, TermAtFacts
<1> SUFFICES ASSUME NEW k \in 1 .. Len(m.entries)
             PROVE  RequestLink(m, k) \in LogLinks(y)
  BY <1>1 DEF RequestLinks
<1>7. PICK b, len : b = m.lastIndex /\ len = Len(m.entries)
  OBVIOUS
<1> DEFINE j == m.lastIndex + k
<1>4. j \in 1 .. Len(y) /\ m.entries[k] = y[j]
  BY <1>2
<1>5. (IF k = 1 THEN m.lastTerm ELSE m.entries[k - 1].term) = IF j = 1 THEN 0 ELSE y[j - 1].term
  <2>1. CASE k = 1
    BY <1>2, <1>3, <2>1
  <2>2. CASE k # 1
    <3>1. k - 1 \in 1 .. Len(m.entries) /\ m.lastIndex + (k - 1) = j - 1 /\ j # 1
      <4>1. b \in Nat /\ len \in Nat /\ k \in 1 .. len /\ j = b + k
        BY <1>2, <1>7
      <4> HIDE DEF j
      <4>2. k - 1 \in 1 .. len /\ b + (k - 1) = j - 1 /\ j # 1
        BY <2>2, <4>1
      <4> QED
        BY <1>7, <4>2
    <3>2. m.entries[k - 1] = y[m.lastIndex + (k - 1)]
      BY <1>2, <3>1
    <3> QED
      BY <2>2, <3>1, <3>2
  <2> QED
    BY <2>1, <2>2
<1>6. RequestLink(m, k) = LinkAt(y, j)
  BY <1>4, <1>5 DEF RequestLink, LinkAt
<1> QED
  BY <1>4, <1>6 DEF LogLinks

\* Appended, counted from the entry before those of the request.
AppendedAfter(l, es, b, c, r) ==
    /\ \A j \in 1 .. b : r[j] = l[j]
    /\ \A k \in 1 .. c - 1 : /\ b + k <= Len(l) /\ l[b + k].term = es[k].term
                             /\ r[b + k] = l[b + k]
    /\ \A k \in c .. Len(es) : r[b + k] = es[k]
    /\ \/ r = l /\ c = Len(es) + 1
       \/ /\ c <= Len(es) /\ Len(r) = b + Len(es)
          /\ b + c > Len(l) \/ l[b + c].term # es[c].term

LEMMA AppendedAt ==
    ASSUME NEW l \in Seq(LogEntry), NEW es \in Seq(LogEntry), NEW b \in Nat,
           NEW c \in 1 .. Len(es) + 1, NEW r, NEW i, i = b + 1, Appended(l, es, i, c, r)
    PROVE  AppendedAfter(l, es, b, c, r)
<1>1. Len(es) \in Nat /\ i - 1 = b /\ i + c - 1 = b + c
  BY LenProperties
<1>2. \A j \in 1 .. b : r[j] = l[j]
  BY <1>1 DEF Appended
<1>3. \A k \in 1 .. c - 1 : /\ b + k <= Len(l) /\ l[b + k].term = es[k].term
                            /\ r[b + k] = l[b + k]
  <2> TAKE k \in 1 .. c - 1
  <2>1. i + k - 1 = b + k
    BY <1>1
  <2> QED
    BY <2>1 DEF Appended
<1>4. \A k \in c .. Len(es) : r[b + k] = es[k]
  <2> TAKE k \in c .. Len(es)
  <2>1. i + k - 1 = b + k
    BY <1>1
  <2> QED
    BY <2>1 DEF Appended
<1>5. \/ r = l /\ c = Len(es) + 1
      \/ /\ c <= Len(es) /\ Len(r) = b + Len(es)
         /\ b + c > Len(l) \/ l[b + c].term # es[c].term
  BY <1>1 DEF Appended
<1> QED
  BY <1>2, <1>3, <1>4, <1>5 DEF AppendedAfter

\* A log that agrees with a request up to n is not cut before n.
LEMMA AppendedKeeps ==
    ASSUME NEW l \in Seq(LogEntry), NEW es \in Seq(LogEntry), NEW b \in Nat,
           NEW c \in 1 .. Len(es) + 1, NEW r, AppendedAfter(l, es, b, c, r),
           NEW n \in Nat, n <= Len(l),
           \A k \in 1 .. Len(es) : b + k <= n => l[b + k].term = es[k].term
    PROVE  n <= Len(r) /\ \A j \in 1 .. n : r[j] = l[j]
<1>1. /\ \A j \in 1 .. b : r[j] = l[j]
      /\ \A k \in 1 .. c - 1 : r[b + k] = l[b + k]
      /\ \/ r = l
         \/ /\ c <= Len(es) /\ Len(r) = b + Len(es)
            /\ b + c > Len(l) \/ l[b + c].term # es[c].term
  BY DEF AppendedAfter
<1>2. Len(es) \in Nat /\ Len(l) \in Nat
  BY LenProperties
<1> SUFFICES ASSUME r # l
             PROVE  n <= Len(r) /\ \A j \in 1 .. n : r[j] = l[j]
  OBVIOUS
<1>3. c \in 1 .. Len(es) /\ Len(r) = b + Len(es)
  BY <1>1, <1>2
<1>4. b + c > n
  <2> SUFFICES ASSUME b + c <= n PROVE FALSE
    BY <1>2, <1>3
  <2>1. l[b + c].term = es[c].term
    BY <1>3
  <2>2. b + c <= Len(l)
    BY <1>2, <1>3
  <2> QED
    BY <1>1, <1>2, <1>3, <2>1, <2>2
<1>5. \A j \in 1 .. n : r[j] = l[j]
  <2> TAKE j \in 1 .. n
  <2>1. CASE j <= b
    BY <1>1, <2>1
  <2>2. CASE ~(j <= b)
    <3>1. j - b \in 1 .. c - 1 /\ b + (j - b) = j
      BY <1>3, <1>4, <2>2
    <3> QED
      BY <1>1, <3>1
  <2> QED
    BY <2>1, <2>2
<1> QED
  BY <1>2, <1>3, <1>4, <1>5

\* The term of the last entry of the request, or of the one before it, is there after it.
LEMMA AppendedEnd ==
    ASSUME NEW l \in Seq(LogEntry), NEW es \in Seq(LogEntry), NEW b \in Nat,
           NEW c \in 1 .. Len(es) + 1, NEW r, Appended(l, es, b + 1, c, r), b + Len(es) # 0
    PROVE  r[b + Len(es)].term = IF Len(es) = 0 THEN l[b].term ELSE es[Len(es)].term
<1>1. /\ \A j \in 1 .. b : r[j] = l[j]
      /\ \A k \in 1 .. c - 1 : l[b + k].term = es[k].term /\ r[b + k] = l[b + k]
      /\ \A k \in c .. Len(es) : r[b + k] = es[k]
  <2>1. AppendedAfter(l, es, b, c, r)
    BY AppendedAt
  <2> QED
    BY <2>1 DEF AppendedAfter
<1>2. Len(es) \in Nat
  BY LenProperties
<1>3. CASE Len(es) = 0
  <2>1. b \in 1 .. b /\ b + Len(es) = b
    BY <1>3
  <2> QED
    BY <1>1, <1>3, <2>1
<1>4. CASE Len(es) # 0
  <2>1. Len(es) \in 1 .. c - 1 \/ Len(es) \in c .. Len(es)
    BY <1>2, <1>4
  <2> QED
    BY <1>1, <1>4, <2>1
<1> QED
  BY <1>3, <1>4

\* What append_entries leaves has the links of the log and of the request.
LEMMA AppendedLinks ==
    ASSUME NEW m \in FullRequest, NEW l \in Seq(LogEntry), NEW r \in Seq(LogEntry),
           NEW c \in 1 .. Len(m.entries) + 1,
           m.lastIndex <= Len(l),
           m.lastTerm = IF m.lastIndex = 0 THEN 0 ELSE l[m.lastIndex].term,
           Appended(l, m.entries, m.lastIndex + 1, c, r)
    PROVE  LogLinks(r) \subseteq LogLinks(l) \cup RequestLinks(m)
<1>1. PICK es, b : es = m.entries /\ b = m.lastIndex
  OBVIOUS
<1>2. /\ b \in Nat /\ es \in Seq(LogEntry) /\ Len(es) \in Nat /\ Len(l) \in Nat /\ Len(r) \in Nat
      /\ b <= Len(l) /\ c \in 1 .. Len(es) + 1
  BY <1>1, RequestFields, LenProperties
<1>3. m.lastTerm = IF b = 0 THEN 0 ELSE l[b].term
  BY <1>1
<1>4. /\ \A j \in 1 .. b : r[j] = l[j]
      /\ \A k \in 1 .. c - 1 : /\ b + k <= Len(l) /\ l[b + k].term = es[k].term
                               /\ r[b + k] = l[b + k]
      /\ \A k \in c .. Len(es) : r[b + k] = es[k]
      /\ r = l \/ (c <= Len(es) /\ Len(r) = b + Len(es))
  <2>1. Appended(l, es, b + 1, c, r)
    BY <1>1
  <2>2. AppendedAfter(l, es, b, c, r)
    BY <1>2, <2>1, AppendedAt
  <2> QED
    BY <1>2, <2>2 DEF AppendedAfter
<1> SUFFICES ASSUME NEW j \in 1 .. Len(r), r # l
             PROVE  LinkAt(r, j) \in LogLinks(l) \cup RequestLinks(m)
  BY DEF LogLinks
<1>5. c <= Len(es) /\ Len(r) = b + Len(es)
  BY <1>4
<1>6. \A n \in 1 .. b + c - 1 : n <= Len(l) /\ r[n] = l[n]
  <2> TAKE n \in 1 .. b + c - 1
  <2>1. CASE n <= b
    BY <1>2, <1>4, <2>1
  <2>2. CASE ~(n <= b)
    <3>1. n - b \in 1 .. c - 1 /\ b + (n - b) = n
      BY <1>2, <2>2
    <3> QED
      BY <1>4, <3>1
  <2> QED
    BY <2>1, <2>2
<1>7. CASE j <= b + c - 1
  <2>1. j \in 1 .. b + c - 1 /\ j \in 1 .. Len(l) /\ (j = 1 \/ j - 1 \in 1 .. b + c - 1)
    BY <1>2, <1>6, <1>7
  <2>2. r[j] = l[j] /\ (j = 1 \/ r[j - 1] = l[j - 1])
    BY <1>6, <2>1
  <2>3. LinkAt(r, j) = LinkAt(l, j)
    BY <2>2 DEF LinkAt
  <2> QED
    BY <2>1, <2>3 DEF LogLinks
<1>8. CASE ~(j <= b + c - 1)
  <2> DEFINE k == j - b
  <2>1. k \in c .. Len(es) /\ k \in 1 .. Len(es) /\ b + k = j /\ (j = 1 => k = 1 /\ b = 0)
    BY <1>2, <1>5, <1>8
  <2>2. r[j] = es[k]
    BY <1>4, <2>1
  <2>3. (IF k = 1 THEN m.lastTerm ELSE es[k - 1].term) = IF j = 1 THEN 0 ELSE r[j - 1].term
    <3>1. CASE k = 1
      <4>1. CASE b = 0
        BY <1>3, <2>1, <3>1, <4>1
      <4>2. CASE b # 0
        <5>1. b \in 1 .. b /\ j # 1 /\ j - 1 = b
          BY <1>2, <2>1, <3>1, <4>2
        <5> QED
          BY <1>3, <1>4, <3>1, <4>2, <5>1
      <4> QED
        BY <4>1, <4>2
    <3>2. CASE k # 1 /\ k = c
      <4>1. k - 1 \in 1 .. c - 1 /\ b + (k - 1) = j - 1 /\ j # 1
        BY <1>2, <2>1, <3>2
      <4> QED
        BY <1>4, <3>2, <4>1
    <3>3. CASE k # 1 /\ k # c
      <4>1. k - 1 \in c .. Len(es) /\ b + (k - 1) = j - 1 /\ j # 1
        BY <1>2, <2>1, <3>3
      <4> QED
        BY <1>4, <3>3, <4>1
    <3> QED
      BY <3>1, <3>2, <3>3
  <2>4. LinkAt(r, j) = RequestLink(m, k)
    BY <1>1, <2>1, <2>2, <2>3 DEF LinkAt, RequestLink
  <2> QED
    BY <1>1, <2>1, <2>4 DEF RequestLinks
<1> QED
  BY <1>7, <1>8

\* A log with the tail of another from index i on, where both have the term before i.
LEMMA SplicedLinks ==
    ASSUME NEW l \in Seq(LogEntry), NEW y \in Seq(LogEntry), NEW r \in Seq(LogEntry),
           NEW i \in 1 .. Len(l) + 1, i <= Len(y) + 1, Len(r) = Len(y),
           \A j \in 1 .. i - 1 : r[j] = l[j],
           \A j \in i .. Len(y) : r[j] = y[j],
           i = 1 \/ l[i - 1].term = y[i - 1].term
    PROVE  LogLinks(r) \subseteq LogLinks(l) \cup LogLinks(y)
<1>1. Len(l) \in Nat /\ Len(y) \in Nat /\ i \in Nat
  BY LenProperties
<1> SUFFICES ASSUME NEW j \in 1 .. Len(y)
             PROVE  LinkAt(r, j) \in LogLinks(l) \cup LogLinks(y)
  BY DEF LogLinks
<1>2. CASE j <= i - 1
  <2>1. j \in 1 .. i - 1 /\ j \in 1 .. Len(l) /\ (j = 1 \/ j - 1 \in 1 .. i - 1)
    BY <1>1, <1>2
  <2>2. LinkAt(r, j) = LinkAt(l, j)
    BY <2>1 DEF LinkAt
  <2> QED
    BY <2>1, <2>2 DEF LogLinks
<1>3. CASE ~(j <= i - 1)
  <2>1. j \in i .. Len(y)
    BY <1>1, <1>3
  <2>2. j = 1 \/ r[j - 1].term = y[j - 1].term
    <3>1. CASE j = i /\ j # 1
      <4>1. i - 1 \in 1 .. i - 1
        BY <1>1, <3>1
      <4> QED
        BY <3>1, <4>1
    <3>2. CASE j # i
      <4>1. j - 1 \in i .. Len(y)
        BY <1>1, <2>1, <3>2
      <4> QED
        BY <4>1
    <3> QED
      BY <3>1, <3>2
  <2>3. LinkAt(r, j) = LinkAt(y, j)
    BY <2>1, <2>2 DEF LinkAt
  <2> QED
    BY <2>3 DEF LogLinks
<1> QED
  BY <1>2, <1>3

LEMMA AppendLinks ==
    ASSUME NEW l \in Seq(LogEntry), NEW x \in LogEntry
    PROVE  \A z \in LogLinks(Append(l, x)) :
               z \in LogLinks(l) \/ (z.index = Len(l) + 1 /\ z.entry = x)
<1>1. PICK w : w = Append(l, x)
  OBVIOUS
<1>2. /\ Len(l) \in Nat /\ Len(w) = Len(l) + 1 /\ w[Len(l) + 1] = x
      /\ \A i \in 1 .. Len(l) : w[i] = l[i]
  BY <1>1, AppendProperties, LenProperties
<1> SUFFICES ASSUME NEW i \in 1 .. Len(l) + 1
             PROVE  \/ LinkAt(w, i) \in LogLinks(l)
                    \/ LinkAt(w, i).index = Len(l) + 1 /\ LinkAt(w, i).entry = x
  BY <1>1, <1>2 DEF LogLinks
<1>3. CASE i = Len(l) + 1
  BY <1>2, <1>3 DEF LinkAt
<1>4. CASE i # Len(l) + 1
  <2>1. i \in 1 .. Len(l) /\ (i = 1 \/ i - 1 \in 1 .. Len(l))
    BY <1>2, <1>4
  <2>2. LinkAt(w, i) = LinkAt(l, i)
    BY <1>2, <2>1 DEF LinkAt
  <2> QED
    BY <2>1, <2>2 DEF LogLinks
<1> QED
  BY <1>3, <1>4

\* One link for each index and term: logs that agree in the term of an entry agree up to it.
LEMMA LinksMatch ==
    ASSUME NEW l \in Seq(LogEntry), NEW f \in Seq(LogEntry),
           \A x \in LogLinks(l), y \in LogLinks(f) :
               x.index = y.index /\ x.entry.term = y.entry.term => x = y,
           NEW i \in Nat, i <= Len(l), i <= Len(f), i = 0 \/ l[i].term = f[i].term,
           NEW k \in 1 .. i
    PROVE  l[k] = f[k]
<1>1. Len(l) \in Nat /\ Len(f) \in Nat
  BY LenProperties
<1>2. \A j \in 1 .. i : l[j].term = f[j].term => LinkAt(l, j) = LinkAt(f, j)
  <2> TAKE j \in 1 .. i
  <2>1. LinkAt(l, j) \in LogLinks(l) /\ LinkAt(f, j) \in LogLinks(f)
    BY <1>1 DEF LogLinks
  <2>2. /\ LinkAt(l, j).index = LinkAt(f, j).index
        /\ LinkAt(l, j).entry = l[j] /\ LinkAt(f, j).entry = f[j]
    BY DEF LinkAt
  <2> QED
    BY <2>1, <2>2
<1>3. \A j \in 1 .. i : l[j].term = f[j].term =>
          l[j] = f[j] /\ (j # 1 => l[j - 1].term = f[j - 1].term)
  BY <1>2 DEF LinkAt
<1> DEFINE B == {j \in 1 .. i : l[j] # f[j]}
<1> SUFFICES ASSUME B # {} PROVE FALSE
  OBVIOUS
<1>4. PICK b : b \in B /\ \A j \in B : b >= j
  <2>1. B \in SUBSET (0 .. i)
    OBVIOUS
  <2> HIDE DEF B
  <2> QED
    BY <2>1, MaxIsReached
<1>5. b \in 1 .. i /\ l[b] # f[b] /\ \A j \in 1 .. i : j > b => l[j] = f[j]
  BY <1>4
<1>6. l[b].term = f[b].term
  <2>1. CASE b = i
    BY <1>5, <2>1
  <2>2. CASE b # i
    <3>1. b + 1 \in 1 .. i /\ b + 1 > b /\ b + 1 # 1 /\ (b + 1) - 1 = b
      BY <1>5, <2>2
    <3>2. l[b + 1] = f[b + 1]
      BY <1>5, <3>1
    <3> QED
      BY <1>3, <3>1, <3>2
  <2> QED
    BY <2>1, <2>2
<1> QED
  BY <1>3, <1>5, <1>6

-----------------------------------------------------------------------------
(***************************************************************************)
(* Logs and answers agree, as long as state transfers end in the term they *)
(* began in.  (A transfer that ends in a later one writes the log of a     *)
(* leader over one it was not compared with: see                           *)
(* Replication_stale_transfer.cfg.)                                        *)
(***************************************************************************)
\* The term of an entry at an index determines the entry, and the term before it.
LinksAgree ==
    \A x, y : (IsLink(x) /\ IsLink(y) /\ x.index = y.index /\ x.entry.term = y.entry.term)
              => x = y

\* The entries of a term are in the log of its leader, or came before all of it.
LeaderOwns ==
    \A x : IsLink(x) =>
        \A s \in Server : Leads(s, x.entry.term) => x.index <= Len(Entries(s))

\* A request of the term of a leader is from that leader, and its log still has it.
RequestsCurrent ==
    \A m \in Requests : \A s \in Server :
        Leads(s, m.term) => m.from = s /\ InLog(m, srv[s].log)

TransferAgrees(s, x) ==
    /\ x.start - 1 <= Len(Entries(x.from))
    /\ TermAt(srv[s].log, x.start - 1) = TermAt(srv[x.from].log, x.start - 1)

TransfersAgree ==
    \A s \in Server : srv[s].transfer # NoTransfer => TransferAgrees(s, srv[s].transfer)

AnswersSent == \A a \in Responses : srv[a.from].term >= a.term

AnswersInLog ==
    \A a \in Responses : a.accepted /\ Leads(a.to, a.term) => a.next - 1 <= Len(Entries(a.to))

\* AnswersHold
AnswersAgree ==
    \A a \in Responses : a.accepted /\ Leads(a.to, a.term) /\ srv[a.from].term = a.term =>
        /\ a.next - 1 <= Len(Entries(a.from))
        /\ \A i \in 1 .. a.next - 1 : Entries(a.to)[i] = Entries(a.from)[i]

\* What holds of the requests and answers whatever the transfers do.
Current == RequestsCurrent /\ AnswersSent /\ AnswersInLog

Agreement == LinksAgree /\ LeaderOwns /\ TransfersAgree /\ AnswersAgree

\* What an action can have put under way.
LEMMA NewRequests ==
    ASSUME Core, Next, NEW m \in Requests'
    PROVE  m \in Requests
           \/ \E s \in Server : srv'[s].role = "Leader" /\ RequestOf(s, srv'[s], m)
<1>1. m \in msgs' /\ m.type = "Request"
  BY DEF Requests
<1>2. PICK s \in Server :
          \/ SameLogs(s) \/ AppendsEntry(s) \/ CopiesLog(s)
          \/ \E n \in msgs : RefusesRequest(s, n) \/ TakesEntries(s, n)
          \/ \E Q \in SUBSET Server : WinsElection(s, Q)
  BY StepDoes
<1>3. \E A \in SUBSET FullResponse : Sends(s, A)
  <2>1. {} \in SUBSET FullResponse
    OBVIOUS
  <2>2. (\E n \in msgs : RefusesRequest(s, n) \/ TakesEntries(s, n))
            => \E a \in FullResponse : Sends(s, {a})
    BY DEF RefusesRequest, TakesEntries
  <2>3. CopiesLog(s) => Sends(s, {})
    BY DEF CopiesLog, Sends
  <2>4. SameLogs(s) \/ AppendsEntry(s) \/ (\E Q \in SUBSET Server : WinsElection(s, Q))
            => Sends(s, {})
    BY DEF SameLogs, AppendsEntry, WinsElection
  <2> QED
    BY <1>2, <2>1, <2>2, <2>3, <2>4
<1>4. \A A \in SUBSET FullResponse : m \notin A
  BY <1>1, ResponseFields
<1> QED
  BY <1>1, <1>3, <1>4 DEF Sends, Requests

\* TakesEntries with its answer.
Answers(s, m, a) ==
    /\ TakesEntries(s, m) /\ a.from = s /\ a.to = m.from /\ a.term = m.term
    /\ a.next = m.lastIndex + Len(m.entries) + 1

LEMMA NewResponses ==
    ASSUME Core, Next, NEW a \in Responses'
    PROVE  \/ a \in Responses
           \/ /\ a \in FullResponse /\ srv'[a.from].term = a.term
              /\ a.accepted => \E m \in msgs : Answers(a.from, m, a)
<1>1. a \in msgs' /\ a.type = "Response"
  BY DEF Responses
<1>2. PICK s \in Server :
          \/ SameLogs(s) \/ AppendsEntry(s) \/ CopiesLog(s)
          \/ \E n \in msgs : RefusesRequest(s, n) \/ TakesEntries(s, n)
          \/ \E Q \in SUBSET Server : WinsElection(s, Q)
  BY StepDoes
<1>3. ~RequestOf(s, srv'[s], a)
  BY <1>1, RequestFields DEF RequestOf
<1>4. CASE \E n \in msgs : RefusesRequest(s, n)
  BY <1>1, <1>3, <1>4 DEF RefusesRequest, Sends, Responses
<1>5. CASE \E n \in msgs : TakesEntries(s, n)
  <2>1. PICK n \in msgs : TakesEntries(s, n)
    BY <1>5
  <2>2. PICK b \in FullResponse :
            /\ b.from = s /\ b.to = n.from /\ b.term = n.term
            /\ b.next = n.lastIndex + Len(n.entries) + 1
            /\ srv'[s].term = n.term /\ Sends(s, {b})
    BY <2>1 DEF TakesEntries
  <2>3. a \in msgs \/ a = b
    BY <1>1, <1>3, <2>2 DEF Sends
  <2>4. a = b => Answers(a.from, n, a)
    BY <2>1, <2>2 DEF Answers
  <2> QED
    BY <1>1, <2>2, <2>3, <2>4 DEF Responses
<1>6. CASE ~\E n \in msgs : RefusesRequest(s, n) \/ TakesEntries(s, n)
  <2>1. Sends(s, {})
    BY <1>2, <1>6 DEF SameLogs, AppendsEntry, WinsElection, CopiesLog, Sends
  <2> QED
    BY <1>1, <1>3, <2>1 DEF Sends, Responses
<1> QED
  BY <1>4, <1>5, <1>6

\* Who leads a term that was there led it before, and its log has grown.
LEMMA LeadersBefore ==
    ASSUME Core, Next, NEW q \in Server, NEW t \in Nat, Reached(t), Leads(q, t)'
    PROVE  /\ Leads(q, t)
           /\ Len(Entries(q)) <= Len(Entries(q)')
           /\ \A i \in 1 .. Len(Entries(q)) : Entries(q)'[i] = Entries(q)[i]
<1>1. srv'[q].role = "Leader" /\ srv'[q].term = t
  BY DEF Leads
<1>2. PICK s \in Server :
          \/ SameLogs(s) \/ AppendsEntry(s) \/ CopiesLog(s)
          \/ \E m \in msgs : RefusesRequest(s, m) \/ TakesEntries(s, m)
          \/ \E Q \in SUBSET Server : WinsElection(s, Q)
  BY StepDoes
<1>3. Leads(q, t)
  <2>1. CASE \E Q \in SUBSET Server : WinsElection(s, Q)
    <3>1. PICK Q \in SUBSET Server : WinsElection(s, Q)
      BY <2>1
    <3>2. t < srv'[s].term
      BY <3>1, AboveReached
    <3>3. q \notin Q
      BY <1>1, <3>1, <3>2 DEF WinsElection
    <3> QED
      BY <1>1, <3>1, <3>3 DEF WinsElection, Leads
  <2>2. CASE ~\E Q \in SUBSET Server : WinsElection(s, Q)
    <3>1. Alone(s)
      BY <1>2, <2>2 DEF SameLogs, AppendsEntry, CopiesLog, RefusesRequest, TakesEntries
    <3> QED
      BY <1>1, <3>1, AloneGives
  <2> QED
    BY <2>1, <2>2
<1> QED
  BY <1>1, <1>3, LeaderGrows DEF Leads

LEMMA LinkFields ==
    ASSUME Core, NEW x, IsLink(x)
    PROVE  /\ x.index \in Nat /\ x.entry \in LogEntry /\ x.entry.term \in Nat
           /\ Reached(x.entry.term)
<1>1. CASE \E s \in Server : x \in LogLinks(Entries(s))
  <2>1. PICK s \in Server : \E i \in 1 .. Len(Entries(s)) : x = LinkAt(Entries(s), i)
    BY <1>1 DEF LogLinks
  <2>5. PICK i \in 1 .. Len(Entries(s)) : x = LinkAt(Entries(s), i)
    BY <2>1
  <2>2. Entries(s)[i] \in LogEntry /\ ServerOK(srv[s]) /\ i \in Nat
    BY StateTyped, ElementOfSeq
  <2>3. x.index = i /\ x.entry = Entries(s)[i]
    BY <2>5 DEF LinkAt
  <2>4. Reached(Entries(s)[i].term)
    BY <2>2 DEF ServerOK, Entries
  <2> QED
    BY <2>2, <2>3, <2>4 DEF LogEntry
<1>2. CASE \E m \in Requests : x \in RequestLinks(m)
  <2>1. PICK m \in Requests : \E k \in 1 .. Len(m.entries) : x = RequestLink(m, k)
    BY <1>2 DEF RequestLinks
  <2>7. PICK k \in 1 .. Len(m.entries) : x = RequestLink(m, k)
    BY <2>1
  <2>2. m \in FullRequest /\ MessageOK(m)
    BY MessageKinds DEF Core
  <2>3. m.entries[k] \in LogEntry /\ m.lastIndex \in Nat /\ k \in Nat /\ m.type = "Request"
    BY <2>2, RequestFields
  <2>4. x.index = m.lastIndex + k /\ x.entry = m.entries[k]
    BY <2>7 DEF RequestLink
  <2>5. Reached(m.entries[k].term)
    BY <2>2, <2>3 DEF MessageOK
  <2>6. x.index \in Nat
    BY <2>3, <2>4
  <2> QED
    BY <2>3, <2>4, <2>5, <2>6 DEF LogEntry
<1> QED
  BY <1>1, <1>2 DEF IsLink

\* The last entry of a leader's log, when it has just been written.
NewLink(z) ==
    \E s \in Server : /\ Leads(s, z.entry.term)'
                      /\ z = LinkAt(Entries(s)', Len(Entries(s)'))
                      /\ z.index = Len(Entries(s)')
                      /\ \A x : IsLink(x) /\ x.entry.term = z.entry.term => x.index < z.index

LEMMA AppendedLink ==
    ASSUME Core, Core', NEW s \in Server, NEW x \in LogEntry, Entries(s)' = Append(Entries(s), x),
           Leads(s, x.term)',
           \A y : IsLink(y) /\ y.entry.term = x.term => y.index <= Len(Entries(s)),
           NEW z \in LogLinks(Entries(s)')
    PROVE  IsLink(z) \/ NewLink(z)
<1>1. PICK l, w : l = Entries(s) /\ w = Entries(s)' /\ w = Append(l, x)
  OBVIOUS
<1>2. /\ l \in Seq(LogEntry) /\ Len(l) \in Nat /\ Len(w) = Len(l) + 1
  BY <1>1, StateTyped, AppendProperties
<1>3. CASE z \in LogLinks(l)
  BY <1>1, <1>3 DEF IsLink
<1>4. CASE z.index = Len(l) + 1 /\ z.entry = x
  <2>1. z = LinkAt(w, Len(w))
    BY <1>1, <1>2, <1>4 DEF LogLinks, LinkAt
  <2>2. \A y : IsLink(y) /\ y.entry.term = z.entry.term => y.index < z.index
    <3> SUFFICES ASSUME NEW y, IsLink(y), y.entry.term = z.entry.term
                 PROVE  y.index < z.index
      OBVIOUS
    <3>1. y.index \in Nat /\ y.index <= Len(l)
      BY <1>1, <1>4, LinkFields
    <3> QED
      BY <1>2, <1>4, <3>1
  <2> QED
    BY <1>1, <1>2, <1>4, <2>1, <2>2 DEF NewLink
<1> QED
  BY <1>1, <1>2, <1>3, <1>4, AppendLinks

LEMMA TakenLinks ==
    ASSUME Core, NEW s \in Server, NEW m \in msgs, TakesEntries(s, m),
           NEW z \in LogLinks(Entries(s)')
    PROVE  IsLink(z)
<1>1. PICK l, r, b : l = Entries(s) /\ r = Entries(s)' /\ b = m.lastIndex
  OBVIOUS
<1>2. /\ m \in FullRequest /\ MessageOK(m) /\ m.lastIndex + 1 \in 1 .. Len(l) + 1
      /\ r \in Seq(LogEntry)
  BY <1>1, TakesAppended
<1>3. PICK c \in 1 .. Len(m.entries) + 1 : Appended(l, m.entries, m.lastIndex + 1, c, r)
  BY <1>1, TakesAppended
<1>4. m \in Requests /\ LogOk(srv[s].log, m)
  BY DEF TakesEntries
<1>5. /\ l \in Seq(LogEntry) /\ Len(l) \in Nat /\ srv[s].log \in FullLog /\ b \in Nat
      /\ b <= Len(l) /\ m.type = "Request"
  BY <1>1, <1>2, StateTyped, StateFields, RequestFields
<1>6. m.lastTerm = IF b = 0 THEN 0 ELSE l[b].term
  <2>1. CASE b = 0
    BY <1>1, <1>2, <1>5, <2>1 DEF MessageOK
  <2>2. CASE b # 0
    <3>1. m.lastTerm = TermAt(srv[s].log, b)
      BY <1>1, <1>4, <2>2 DEF LogOk
    <3>2. b \in 0 .. Len(srv[s].log.entries) /\ l = srv[s].log.entries
      BY <1>1, <1>5 DEF Entries
    <3>3. TermAt(srv[s].log, b) = l[b].term
      BY <1>5, <2>2, <3>2, TermAtFacts
    <3> QED
      BY <2>2, <3>1, <3>3
  <2> QED
    BY <2>1, <2>2
<1>7. z \in LogLinks(l) \cup RequestLinks(m)
  <2>1. m.lastIndex <= Len(l) /\ m.lastTerm = IF m.lastIndex = 0 THEN 0 ELSE l[m.lastIndex].term
    BY <1>1, <1>5, <1>6
  <2>2. z \in LogLinks(r)
    BY <1>1
  <2> QED
    BY <1>2, <1>3, <1>5, <2>1, <2>2, AppendedLinks
<1> QED
  BY <1>1, <1>4, <1>7 DEF IsLink

LEMMA CopiedLinks ==
    ASSUME Core, TransfersAgree, NEW s \in Server, CopiesLog(s), NEW z \in LogLinks(Entries(s)')
    PROVE  IsLink(z)
<1>1. PICK x, l, y, r, i : /\ x = srv[s].transfer /\ l = Entries(s) /\ y = Entries(x.from)
                           /\ r = Entries(s)' /\ i = x.start
  OBVIOUS
<1>2. /\ x.from \in Server /\ i \in 1 .. Len(l) + 1 /\ i \in 1 .. Len(y) + 1
      /\ r \in Seq(LogEntry) /\ Len(r) = Len(y)
      /\ \A j \in 1 .. i - 1 : r[j] = l[j]
      /\ \A j \in i .. Len(y) : r[j] = y[j]
  BY <1>1, CopiedLog
<1>3. /\ l \in Seq(LogEntry) /\ y \in Seq(LogEntry) /\ Len(l) \in Nat /\ Len(y) \in Nat
      /\ srv[s].log \in FullLog /\ srv[x.from].log \in FullLog
      /\ l = srv[s].log.entries /\ y = srv[x.from].log.entries
  BY <1>1, <1>2, StateTyped, StateFields DEF Entries
<1>4. i = 1 \/ l[i - 1].term = y[i - 1].term
  <2>1. TermAt(srv[s].log, i - 1) = TermAt(srv[x.from].log, i - 1)
    BY <1>1 DEF CopiesLog, TransfersAgree, TransferAgrees
  <2>2. i - 1 \in 0 .. Len(srv[s].log.entries) /\ i - 1 \in 0 .. Len(srv[x.from].log.entries)
    BY <1>2, <1>3
  <2> DEFINE n == i - 1
  <2>3. n \in 0 .. Len(srv[s].log.entries) /\ n \in 0 .. Len(srv[x.from].log.entries)
    BY <2>2
  <2> HIDE DEF n
  <2>4. n # 0 => l[n].term = y[n].term
    BY <1>3, <2>1, <2>3, TermAtFacts DEF n
  <2>5. n # 0 \/ i = 1
    BY <1>2 DEF n
  <2> QED
    BY <2>4, <2>5 DEF n
<1>5. z \in LogLinks(l) \cup LogLinks(y)
  <2>1. i <= Len(y) + 1 /\ z \in LogLinks(r)
    BY <1>1, <1>2, <1>3
  <2>2. /\ l \in Seq(LogEntry) /\ y \in Seq(LogEntry) /\ r \in Seq(LogEntry)
        /\ i \in 1 .. Len(l) + 1 /\ i <= Len(y) + 1 /\ Len(r) = Len(y)
        /\ \A j \in 1 .. i - 1 : r[j] = l[j]
        /\ \A j \in i .. Len(y) : r[j] = y[j]
        /\ i = 1 \/ l[i - 1].term = y[i - 1].term
    BY <1>2, <1>3, <1>4, <2>1
  <2>3. LogLinks(r) \subseteq LogLinks(l) \cup LogLinks(y)
    BY <2>2, SplicedLinks
  <2> QED
    BY <2>1, <2>3
<1> QED
  BY <1>1, <1>2, <1>5 DEF IsLink

LEMMA LogLinksAfter ==
    ASSUME Core, Core', Next, Agreement, NEW q \in Server, NEW z \in LogLinks(Entries(q)')
    PROVE  IsLink(z) \/ NewLink(z)
<1>1. PICK s \in Server :
          \/ SameLogs(s) \/ AppendsEntry(s) \/ CopiesLog(s)
          \/ \E m \in msgs : RefusesRequest(s, m) \/ TakesEntries(s, m)
          \/ \E Q \in SUBSET Server : WinsElection(s, Q)
  BY StepDoes
<1>2. CASE Entries(q)' = Entries(q)
  BY <1>2 DEF IsLink
<1>3. CASE \E Q \in SUBSET Server : WinsElection(s, Q)
  <2>1. PICK Q \in SUBSET Server : WinsElection(s, Q)
    BY <1>3
  <2>8. PICK x : x = [term |-> srv'[s].term, type |-> "Configuration"]
    OBVIOUS
  <2>2. Entries(q)' # Entries(q) => q = s /\ Entries(s)' = Append(Entries(s), x)
    BY <2>1, <2>8 DEF WinsElection
  <2>3. Leads(s, x.term)'
    BY <2>1, <2>8 DEF WinsElection, Leads
  <2>4. \A y : IsLink(y) => y.entry.term < x.term
    BY <2>1, <2>8, LinkFields, AboveReached
  <2>5. x \in LogEntry
    <3>1. srv'[s].term \in Term /\ srv[s].term \in Nat /\ srv[s].term < srv'[s].term
      BY <2>1, StateTyped, StateFields DEF WinsElection
    <3> QED
      BY <2>8, <3>1 DEF LogEntry, Term
  <2>6. x.term \in Nat /\ \A y : IsLink(y) => y.entry.term \in Nat
    BY <2>5, LinkFields DEF LogEntry
  <2>7. \A y : IsLink(y) /\ y.entry.term = x.term => y.index <= Len(Entries(s))
    BY <2>4, <2>6
  <2> QED
    BY <1>2, <2>2, <2>3, <2>5, <2>7, AppendedLink
<1>4. CASE AppendsEntry(s)
  <2>6. PICK x : x = [term |-> srv[s].term, type |-> "Application"]
    OBVIOUS
  <2>1. /\ Alone(s) /\ Leads(s, srv[s].term) /\ srv'[s].term = srv[s].term
        /\ Entries(s)' = Append(Entries(s), x)
    BY <1>4, <2>6 DEF AppendsEntry
  <2>2. x \in LogEntry /\ x.term = srv[s].term
    BY <2>1, <2>6, StateTyped DEF ServerOK, Term, LogEntry, Leads
  <2>3. \A y : IsLink(y) /\ y.entry.term = x.term => y.index <= Len(Entries(s))
    BY <2>1, <2>2 DEF Agreement, LeaderOwns
  <2>4. Leads(s, x.term)'
    <3>1. Leads(s, srv[s].term)'
      <4>1. srv'[s].role = "Leader"
        BY <1>4 DEF AppendsEntry
      <4> QED
        BY <2>1, <4>1 DEF Leads
    <3> QED
      BY <2>1, <2>2, <3>1 DEF Leads
  <2>5. Entries(q)' # Entries(q) => q = s
    BY <2>1, AloneGives DEF Entries
  <2> QED
    BY <1>2, <2>1, <2>2, <2>3, <2>4, <2>5, AppendedLink
<1>5. CASE SameLogs(s) \/ CopiesLog(s) \/ \E m \in msgs : RefusesRequest(s, m) \/ TakesEntries(s, m)
  <2>1. Alone(s)
    BY <1>5 DEF SameLogs, CopiesLog, RefusesRequest, TakesEntries
  <2>2. Entries(q)' # Entries(q) => q = s
    BY <2>1, AloneGives DEF Entries
  <2>3. SameLogs(s) \/ (\E m \in msgs : RefusesRequest(s, m)) => Entries(s)' = Entries(s)
    BY DEF SameLogs, RefusesRequest
  <2>4. TransfersAgree
    BY DEF Agreement
  <2> QED
    BY <1>2, <1>5, <2>2, <2>3, <2>4, TakenLinks, CopiedLinks
<1> QED
  BY <1>1, <1>3, <1>4, <1>5

LEMMA LinksAfter ==
    ASSUME Core, Core', Next, Agreement, NEW z, IsLink(z)'
    PROVE  IsLink(z) \/ NewLink(z)
<1>1. CASE \E s \in Server : z \in LogLinks(Entries(s)')
  BY <1>1, LogLinksAfter
<1>2. CASE \E m \in Requests' : z \in RequestLinks(m)
  <2>1. PICK m \in Requests' : z \in RequestLinks(m)
    BY <1>2
  <2>2. CASE m \in Requests
    BY <2>1, <2>2 DEF IsLink
  <2>3. CASE \E s \in Server : RequestOf(s, srv'[s], m)
    <3>1. PICK s \in Server : RequestOf(s, srv'[s], m)
      BY <2>3
    <3>2. PICK l : l = srv'[s].log
      OBVIOUS
    <3>3. m \in FullRequest /\ l \in FullLog /\ InLog(m, l) /\ l.entries = Entries(s)'
      BY <3>1, <3>2, StateFields DEF RequestOf, Core, Typed, Entries
    <3>4. z \in LogLinks(l.entries)
      BY <2>1, <3>3, RequestLinksInLog
    <3> QED
      BY <3>3, <3>4, LogLinksAfter
  <2> QED
    BY <2>2, <2>3, NewRequests
<1> QED
  BY <1>1, <1>2 DEF IsLink

LEMMA LinksAgreeKept ==
    ASSUME Core, Core', Next, Agreement
    PROVE  LinksAgree'
<1> SUFFICES ASSUME NEW x, NEW y, IsLink(x)', IsLink(y)',
                    x.index = y.index, x.entry.term = y.entry.term
             PROVE  x = y
  BY DEF LinksAgree
<1>1. \A z : IsLink(z) => z.index \in Nat
  BY LinkFields
<1>2. CASE IsLink(x) /\ IsLink(y)
  BY <1>2 DEF Agreement, LinksAgree
<1>3. CASE IsLink(x) /\ NewLink(y)
  BY <1>1, <1>3 DEF NewLink
<1>4. CASE NewLink(x) /\ IsLink(y)
  BY <1>1, <1>4 DEF NewLink
<1>5. CASE NewLink(x) /\ NewLink(y)
  <2>1. PICK s \in Server : /\ Leads(s, x.entry.term)'
                            /\ x = LinkAt(Entries(s)', Len(Entries(s)'))
    BY <1>5 DEF NewLink
  <2>2. PICK q \in Server : /\ Leads(q, y.entry.term)'
                            /\ y = LinkAt(Entries(q)', Len(Entries(q)'))
    BY <1>5 DEF NewLink
  <2>3. s = q
    BY <2>1, <2>2 DEF Core, OneLeaderPerTerm, Leads
  <2> QED
    BY <2>1, <2>2, <2>3
<1> QED
  BY <1>2, <1>3, <1>4, <1>5, LinksAfter

LEMMA LeaderOwnsKept ==
    ASSUME Core, Core', Next, Agreement
    PROVE  LeaderOwns'
<1> SUFFICES ASSUME NEW z, IsLink(z)', NEW s \in Server, Leads(s, z.entry.term)'
             PROVE  z.index <= Len(Entries(s)')
  BY DEF LeaderOwns
<1>1. PICK u : u = z.entry.term
  OBVIOUS
<1>2. Len(Entries(s)') \in Nat /\ Len(Entries(s)) \in Nat
  <2>1. srv'[s] \in FullState
    BY DEF Core, Typed
  <2> QED
    BY <2>1, StateFields, StateTyped DEF Entries
<1>3. CASE IsLink(z)
  <2>1. Reached(u) /\ u \in Nat /\ Leads(s, u)' /\ z.index \in Nat
    BY <1>1, <1>3, LinkFields
  <2>2. Leads(s, u) /\ Len(Entries(s)) <= Len(Entries(s)')
    BY <2>1, LeadersBefore
  <2>3. z.index <= Len(Entries(s))
    BY <1>1, <1>3, <2>2 DEF Agreement, LeaderOwns
  <2> QED
    BY <1>2, <2>1, <2>2, <2>3
<1>4. CASE NewLink(z)
  <2>1. PICK q \in Server : Leads(q, z.entry.term)' /\ z.index = Len(Entries(q)')
    BY <1>4 DEF NewLink
  <2>2. s = q
    BY <2>1 DEF Core, OneLeaderPerTerm, Leads
  <2> QED
    BY <1>2, <2>1, <2>2
<1> QED
  BY <1>3, <1>4, LinksAfter

\* What is in a log is in it when it has grown.
LEMMA InLogGrows ==
    ASSUME NEW m \in FullRequest, NEW l \in FullLog, NEW f \in FullLog, InLog(m, l),
           Len(l.entries) <= Len(f.entries),
           \A i \in 1 .. Len(l.entries) : f.entries[i] = l.entries[i]
    PROVE  InLog(m, f)
<1>1. PICK x, y, b : x = l.entries /\ y = f.entries /\ b = m.lastIndex
  OBVIOUS
<1>2. /\ Len(x) \in Nat /\ Len(y) \in Nat /\ Len(x) <= Len(y)
      /\ b \in Nat /\ Len(m.entries) \in Nat /\ b + Len(m.entries) <= Len(x)
      /\ \A i \in 1 .. Len(x) : y[i] = x[i]
  BY <1>1, RequestFields, LenProperties DEF FullLog, InLog
<1>3. b \in 0 .. Len(x) /\ b \in 0 .. Len(y)
  BY <1>2
<1>4. TermAt(f, b) = TermAt(l, b)
  <2>1. /\ TermAt(l, b) = IF b = 0 THEN 0 ELSE x[b].term
        /\ TermAt(f, b) = IF b = 0 THEN 0 ELSE y[b].term
    BY <1>1, <1>3, TermAtFacts
  <2>2. b # 0 => y[b] = x[b]
    BY <1>2, <1>3
  <2> QED
    BY <2>1, <2>2
<1>5. \A k \in 1 .. Len(m.entries) : m.entries[k] = y[b + k]
  <2> TAKE k \in 1 .. Len(m.entries)
  <2>1. b + k \in 1 .. Len(x)
    BY <1>2
  <2>2. m.entries[k] = x[b + k]
    BY <1>1 DEF InLog
  <2> QED
    BY <1>2, <2>1, <2>2
<1>6. b + Len(m.entries) <= Len(y)
  BY <1>2
<1>7. m.lastTerm = TermAt(l, b)
  BY <1>1 DEF InLog
<1> QED
  BY <1>1, <1>4, <1>5, <1>6, <1>7 DEF InLog

LEMMA RequestsCurrentKept ==
    ASSUME Core, Core', Next, Current
    PROVE  RequestsCurrent'
<1> SUFFICES ASSUME NEW m \in Requests', NEW q \in Server, Leads(q, m.term)'
             PROVE  m.from = q /\ InLog(m, srv'[q].log)
  BY DEF RequestsCurrent
<1>1. CASE m \in Requests
  <2>1. m \in FullRequest /\ MessageOK(m)
    BY <1>1, MessageKinds DEF Core
  <2>2. m.term \in Nat /\ Reached(m.term)
    BY <2>1, RequestFields DEF MessageOK
  <2>3. /\ Leads(q, m.term) /\ Len(Entries(q)) <= Len(Entries(q)')
        /\ \A i \in 1 .. Len(Entries(q)) : Entries(q)'[i] = Entries(q)[i]
    BY <2>2, LeadersBefore
  <2>4. m.from = q /\ InLog(m, srv[q].log)
    BY <1>1, <2>3 DEF Current, RequestsCurrent
  <2>5. PICK l, f : l = srv[q].log /\ f = srv'[q].log
    OBVIOUS
  <2>6. l \in FullLog /\ f \in FullLog /\ l.entries = Entries(q) /\ f.entries = Entries(q)'
    <3>1. srv[q] \in FullState /\ srv'[q] \in FullState
      BY DEF Core, Typed
    <3> QED
      BY <2>5, <3>1, StateFields DEF Entries
  <2>7. InLog(m, f)
    BY <2>1, <2>3, <2>4, <2>5, <2>6, InLogGrows
  <2> QED
    BY <2>4, <2>5, <2>7
<1>2. CASE \E s \in Server : srv'[s].role = "Leader" /\ RequestOf(s, srv'[s], m)
  <2>1. PICK s \in Server : srv'[s].role = "Leader" /\ RequestOf(s, srv'[s], m)
    BY <1>2
  <2>2. m.from = s /\ m.term = srv'[s].term /\ InLog(m, srv'[s].log)
    BY <2>1 DEF RequestOf
  <2>3. q = s
    BY <2>1, <2>2 DEF Core, OneLeaderPerTerm, Leads
  <2> QED
    BY <2>2, <2>3
<1> QED
  BY <1>1, <1>2, NewRequests

LEMMA TermAtSame ==
    ASSUME NEW l \in FullLog, NEW f \in FullLog, NEW n \in Nat,
           n <= Len(l.entries), n <= Len(f.entries),
           \A i \in 1 .. n : f.entries[i] = l.entries[i]
    PROVE  TermAt(f, n) = TermAt(l, n)
<1>1. Len(l.entries) \in Nat /\ Len(f.entries) \in Nat
  BY LenProperties DEF FullLog
<1>2. n \in 0 .. Len(l.entries) /\ n \in 0 .. Len(f.entries)
  BY <1>1
<1>3. /\ TermAt(l, n) = IF n = 0 THEN 0 ELSE l.entries[n].term
      /\ TermAt(f, n) = IF n = 0 THEN 0 ELSE f.entries[n].term
  BY <1>2, TermAtFacts
<1>4. n # 0 => f.entries[n] = l.entries[n]
  OBVIOUS
<1> QED
  BY <1>3, <1>4

\* A server comes to a term that is there, or to that of a leader that is just elected.
LEMMA TermsAfter ==
    ASSUME Core, Next, NEW p \in Server
    PROVE  \/ \E t \in Nat : t = srv'[p].term /\ Reached(t)
           \/ \E s \in Server : /\ srv[s].role = "Follower" /\ Leads(s, srv[p].term)'
                                /\ srv'[p].transfer = srv[p].transfer
<1>1. PICK s \in Server :
          \/ SameLogs(s) \/ AppendsEntry(s) \/ CopiesLog(s)
          \/ \E m \in msgs : RefusesRequest(s, m) \/ TakesEntries(s, m)
          \/ \E Q \in SUBSET Server : WinsElection(s, Q)
  BY StepDoes
<1>2. CASE srv'[p].term = srv[p].term
  BY <1>2, StateTyped DEF ServerOK
<1>3. CASE \E m \in msgs : srv'[p].term = m.term
  <2>1. \A m \in msgs : m.term \in Nat /\ Reached(m.term)
    BY RequestFields, ResponseFields, MessageKinds DEF Core, MessageOK
  <2> QED
    BY <1>3, <2>1
<1>4. CASE \E Q \in SUBSET Server : WinsElection(s, Q)
  <2>1. PICK Q \in SUBSET Server : WinsElection(s, Q)
    BY <1>4
  <2>2. CASE p \in Q
    BY <2>1, <2>2 DEF WinsElection, Leads
  <2>3. CASE p \notin Q
    BY <1>2, <2>1, <2>3 DEF WinsElection
  <2> QED
    BY <2>2, <2>3
<1>5. CASE ~\E Q \in SUBSET Server : WinsElection(s, Q)
  <2>1. Alone(s)
    BY <1>1, <1>5 DEF SameLogs, AppendsEntry, CopiesLog, RefusesRequest, TakesEntries
  <2>2. p # s => srv'[p] = srv[p]
    BY <2>1, AloneGives
  <2>3. srv'[s].term = srv[s].term \/ \E m \in msgs : srv'[s].term = m.term
    BY <1>1, <1>5 DEF SameLogs, AppendsEntry, CopiesLog, RefusesRequest, TakesEntries
  <2> QED
    BY <1>2, <1>3, <2>2, <2>3
<1> QED
  BY <1>4, <1>5

\* Request m has p begin a transfer.
Begins(p, m) ==
    /\ m \in Requests /\ m.to = p /\ m.transfer /\ LogOk(srv[p].log, m)
    /\ srv'[p].term \in {srv[p].term, m.term} /\ srv'[p].term >= m.term
    /\ Entries(p)' = Entries(p)
    /\ srv'[p].transfer = [from |-> m.from, start |-> m.lastIndex + 1, applied |-> FALSE]

\* The transfer of p goes on, and the log of p is what it was where it is not transferred.
GoesOn(p) ==
    LET x == srv[p].transfer
        y == srv'[p].transfer
    IN  /\ x # NoTransfer /\ y.from = x.from /\ y.start = x.start
        /\ \A j \in 1 .. x.start - 1 : Entries(p)'[j] = Entries(p)[j]

LEMMA AppendGoesOn ==
    ASSUME Core, NEW p \in Server, NEW c, Entries(p)' = Append(Entries(p), c),
           srv'[p].transfer = srv[p].transfer, srv[p].transfer # NoTransfer
    PROVE  GoesOn(p)
<1>1. PICK l, w, x : l = Entries(p) /\ w = Entries(p)' /\ x = srv[p].transfer
  OBVIOUS
<1>2. l \in Seq(LogEntry) /\ Len(l) \in Nat /\ w = Append(l, c)
  BY <1>1, StateTyped
<1>3. x.start \in 1 .. Len(l) + 1
  BY <1>1, StateTyped DEF ServerOK, Entries
<1>4. \A j \in 1 .. x.start - 1 : w[j] = l[j]
  BY <1>2, <1>3
<1> QED
  BY <1>1, <1>4 DEF GoesOn

LEMMA TransfersAfter ==
    ASSUME Core, Next, NEW p \in Server, srv'[p].transfer # NoTransfer
    PROVE  GoesOn(p) \/ \E m \in Requests : Begins(p, m)
<1>1. PICK s \in Server :
          \/ SameLogs(s) \/ AppendsEntry(s) \/ CopiesLog(s)
          \/ \E m \in msgs : RefusesRequest(s, m) \/ TakesEntries(s, m)
          \/ \E Q \in SUBSET Server : WinsElection(s, Q)
  BY StepDoes
<1>2. CASE Entries(p)' = Entries(p) /\ srv'[p].transfer = srv[p].transfer
  BY <1>2 DEF GoesOn
<1>3. CASE \E Q \in SUBSET Server : WinsElection(s, Q)
  <2>1. CASE Entries(p)' = Entries(p)
    BY <1>2, <1>3, <2>1 DEF WinsElection
  <2>2. CASE Entries(p)' # Entries(p)
    <3>1. PICK c : p = s /\ Entries(p)' = Append(Entries(p), c)
      BY <1>3, <2>2 DEF WinsElection
    <3>2. srv'[p].transfer = srv[p].transfer
      BY <1>3 DEF WinsElection
    <3> QED
      BY <3>1, <3>2, AppendGoesOn
  <2> QED
    BY <2>1, <2>2
<1>4. CASE p # s /\ ~\E Q \in SUBSET Server : WinsElection(s, Q)
  <2>1. Alone(s)
    BY <1>1, <1>4 DEF SameLogs, AppendsEntry, CopiesLog, RefusesRequest, TakesEntries
  <2>2. srv'[p] = srv[p]
    BY <1>4, <2>1, AloneGives
  <2> QED
    BY <1>2, <2>2 DEF Entries
<1>5. CASE p = s /\ SameLogs(s)
  BY <1>2, <1>5 DEF SameLogs
<1>6. CASE p = s /\ \E m \in msgs : RefusesRequest(s, m)
  BY <1>2, <1>6 DEF RefusesRequest, Begins
<1>7. CASE p = s /\ CopiesLog(s)
  <2>1. PICK x : x = srv[p].transfer
    OBVIOUS
  <2>2. x # NoTransfer /\ srv'[p].transfer = [x EXCEPT !.applied = TRUE]
    BY <1>7, <2>1 DEF CopiesLog
  <2>3. x \in Transfer
    BY <2>1, StateTyped, StateFields
  <2>4. srv'[p].transfer.from = x.from /\ srv'[p].transfer.start = x.start
    BY <2>2, <2>3 DEF Transfer
  <2>5. \A j \in 1 .. x.start - 1 : Entries(p)'[j] = Entries(p)[j]
    BY <1>7, <2>1, CopiedLog
  <2> QED
    BY <2>1, <2>2, <2>4, <2>5 DEF GoesOn
<1>8. CASE p = s /\ AppendsEntry(s)
  BY <1>8, AppendGoesOn DEF AppendsEntry
<1>9. ~(p = s /\ \E m \in msgs : TakesEntries(s, m))
  BY DEF TakesEntries
<1> QED
  BY <1>1, <1>3, <1>4, <1>5, <1>6, <1>7, <1>8, <1>9

LEMMA TransfersAgreeKept ==
    ASSUME Core, Core', Next, Current, Agreement, TransfersInTerm, TransfersInTerm'
    PROVE  TransfersAgree'
<1> SUFFICES ASSUME NEW p \in Server, srv'[p].transfer # NoTransfer
             PROVE  TransferAgrees(p, srv[p].transfer)'
  BY DEF TransfersAgree
<1>1. PICK y, t, q, n : /\ y = srv'[p].transfer /\ t = srv'[p].term
                        /\ q = y.from /\ n = y.start - 1
  OBVIOUS
<1>2. srv'[p].role = "Follower" /\ Leads(q, t)'
  BY <1>1 DEF TransfersInTerm
<1>3. PICK e, f, a, b : e = srv[p].log /\ f = srv'[p].log /\ a = srv[q].log /\ b = srv'[q].log
  OBVIOUS
<1>4. q \in Server /\ n \in Nat /\ n <= Len(f.entries)
  <2>1. ServerOK(srv[p])' /\ srv'[p] \in FullState
    BY DEF Core, Typed
  <2>2. y.from \in Server /\ y.start \in 1 .. Len(f.entries) + 1
    BY <1>1, <1>3, <2>1 DEF ServerOK
  <2>3. Len(f.entries) \in Nat
    BY <1>3, <2>1, StateFields
  <2> QED
    BY <1>1, <2>2, <2>3
<1>5. /\ e \in FullLog /\ f \in FullLog /\ a \in FullLog /\ b \in FullLog
      /\ e.entries = Entries(p) /\ f.entries = Entries(p)'
      /\ a.entries = Entries(q) /\ b.entries = Entries(q)'
      /\ Len(e.entries) \in Nat /\ Len(f.entries) \in Nat
      /\ Len(a.entries) \in Nat /\ Len(b.entries) \in Nat
  <2>1. srv[p] \in FullState /\ srv'[p] \in FullState /\ srv[q] \in FullState /\ srv'[q] \in FullState
    BY <1>4 DEF Core, Typed
  <2> QED
    BY <1>3, <2>1, StateFields DEF Entries
<1>6. SUFFICES n <= Len(b.entries) /\ TermAt(f, n) = TermAt(b, n)
  BY <1>1, <1>3, <1>5 DEF TransferAgrees
<1>7. SUFFICES /\ Leads(q, t) /\ n <= Len(a.entries) /\ n <= Len(e.entries)
               /\ TermAt(e, n) = TermAt(a, n)
               /\ \A j \in 1 .. n : f.entries[j] = e.entries[j]
  <2>1. t \in Nat /\ Reached(t)
    <3>1. srv[q].term = t
      BY <1>7 DEF Leads
    <3> QED
      BY <1>4, <3>1, StateTyped DEF ServerOK
  <2>2. /\ Len(a.entries) <= Len(b.entries)
        /\ \A j \in 1 .. Len(a.entries) : b.entries[j] = a.entries[j]
    BY <1>2, <1>4, <1>5, <2>1, LeadersBefore
  <2>3. n <= Len(b.entries)
    BY <1>4, <1>5, <1>7, <2>2
  <2>4. \A j \in 1 .. n : b.entries[j] = a.entries[j]
    BY <1>4, <1>5, <1>7, <2>2
  <2>5. TermAt(b, n) = TermAt(a, n)
    BY <1>4, <1>5, <1>7, <2>3, <2>4, TermAtSame
  <2>6. TermAt(f, n) = TermAt(e, n)
    BY <1>4, <1>5, <1>7, TermAtSame
  <2> QED
    BY <1>7, <2>3, <2>5, <2>6
<1>8. CASE \E m \in Requests : Begins(p, m)
  <2>1. PICK m \in Requests : Begins(p, m)
    BY <1>8
  <2>2. m \in FullRequest /\ MessageOK(m)
    BY <2>1, MessageKinds DEF Core
  <2>3. /\ m.to = p /\ m.transfer /\ LogOk(e, m) /\ t \in {srv[p].term, m.term} /\ t >= m.term
        /\ f.entries = e.entries
        /\ y = [from |-> m.from, start |-> m.lastIndex + 1, applied |-> FALSE]
    BY <1>1, <1>3, <1>5, <2>1 DEF Begins
  <2>4. m.term \in Nat /\ Reached(m.term) /\ m.lastIndex \in Nat /\ m.type = "Request"
    BY <2>2, RequestFields DEF MessageOK
  <2>5. t = m.term
    <3>1. m.term >= srv[p].term /\ srv[p].term \in Nat
      BY <2>1, <2>3, StateTyped DEF TransfersInTerm, Requests
    <3> QED
      BY <2>3, <2>4, <3>1
  <2>6. Leads(q, t)
    BY <1>2, <1>4, <2>4, <2>5, LeadersBefore
  <2>7. InLog(m, a)
    BY <1>3, <1>4, <2>1, <2>5, <2>6 DEF Current, RequestsCurrent
  <2>8. n = m.lastIndex
    BY <1>1, <2>3, <2>4
  <2>9. n <= Len(a.entries) /\ m.lastTerm = TermAt(a, n)
    <3>1. m.lastIndex + Len(m.entries) <= Len(a.entries) /\ m.lastTerm = TermAt(a, m.lastIndex)
      BY <2>7 DEF InLog
    <3> QED
      BY <1>5, <2>2, <2>4, <2>8, <3>1, RequestFields
  <2>10. m.lastTerm = TermAt(e, n)
    <3>1. CASE n = 0
      <4>1. m.lastTerm = 0
        BY <2>2, <2>4, <2>8, <3>1 DEF MessageOK
      <4>2. n \in 0 .. Len(e.entries)
        BY <1>5, <3>1
      <4> QED
        BY <1>5, <3>1, <4>1, <4>2, TermAtFacts
    <3>2. CASE n # 0
      BY <2>3, <2>8, <3>2 DEF LogOk
    <3> QED
      BY <3>1, <3>2
  <2> QED
    BY <1>4, <2>3, <2>6, <2>9, <2>10
<1>9. CASE GoesOn(p)
  <2>1. PICK x : x = srv[p].transfer
    OBVIOUS
  <2>2. /\ x # NoTransfer /\ q = x.from /\ n = x.start - 1
        /\ \A j \in 1 .. n : f.entries[j] = e.entries[j]
    BY <1>1, <1>5, <1>9, <2>1 DEF GoesOn
  <2>3. n <= Len(a.entries) /\ TermAt(e, n) = TermAt(a, n) /\ Leads(q, srv[p].term)
    BY <1>3, <1>5, <2>1, <2>2 DEF Agreement, TransfersAgree, TransferAgrees, TransfersInTerm
  <2>4. n <= Len(e.entries)
    BY <1>5, <2>1, <2>2, StateTyped DEF ServerOK, Entries
  <2>5. Leads(q, t)
    <3>1. CASE \E u \in Nat : u = srv'[p].term /\ Reached(u)
      BY <1>1, <1>2, <1>4, <3>1, LeadersBefore
    <3>2. CASE \E s \in Server : srv[s].role = "Follower" /\ Leads(s, srv[p].term)'
      <4>1. PICK s \in Server : srv[s].role = "Follower" /\ Leads(s, srv[p].term)'
        BY <3>2
      <4>2. s = q
        BY <1>1, <1>2, <1>4, <4>1 DEF Core, OneLeaderPerTerm, Leads
      <4> QED
        BY <2>3, <4>1, <4>2 DEF Leads
    <3> QED
      BY <3>1, <3>2, TermsAfter
  <2> QED
    BY <2>2, <2>3, <2>4, <2>5
<1> QED
  BY <1>1, <1>2, <1>8, <1>9, TransfersAfter

LEMMA TermsGrow ==
    ASSUME Core, Core', Next, NEW q \in Server
    PROVE  srv[q].term \in Nat /\ srv'[q].term \in Nat /\ srv'[q].term >= srv[q].term
<1>1. PICK s \in Server :
          \/ SameLogs(s) \/ AppendsEntry(s) \/ CopiesLog(s)
          \/ \E m \in msgs : RefusesRequest(s, m) \/ TakesEntries(s, m)
          \/ \E Q \in SUBSET Server : WinsElection(s, Q)
  BY StepDoes
<1>2. srv[q].term \in Nat /\ srv'[q].term \in Nat
  <2>1. srv[q] \in FullState /\ srv'[q] \in FullState
    BY DEF Core, Typed
  <2> QED
    BY <2>1, StateFields, Bounds
<1>3. CASE \E Q \in SUBSET Server : WinsElection(s, Q)
  <2>1. PICK Q \in SUBSET Server : WinsElection(s, Q)
    BY <1>3
  <2>2. CASE q \in Q
    BY <1>2, <2>1, <2>2 DEF WinsElection
  <2>3. CASE q \notin Q
    BY <1>2, <2>1, <2>3 DEF WinsElection
  <2> QED
    BY <2>2, <2>3
<1>4. CASE ~\E Q \in SUBSET Server : WinsElection(s, Q)
  <2>1. Alone(s)
    BY <1>1, <1>4 DEF SameLogs, AppendsEntry, CopiesLog, RefusesRequest, TakesEntries
  <2> QED
    BY <1>2, <2>1, AloneGives
<1> QED
  BY <1>3, <1>4

LEMMA AnswersSentKept ==
    ASSUME Core, Core', Next, Current
    PROVE  AnswersSent'
<1> SUFFICES ASSUME NEW a \in Responses'
             PROVE  srv'[a.from].term >= a.term
  BY DEF AnswersSent
<1>1. a \in FullResponse
  BY MessageKinds DEF Core, Typed, Responses, FullRequest
<1>2. a.term \in Nat /\ a.from \in Server
  BY <1>1, ResponseFields
<1>3. CASE a \in Responses
  <2>1. srv[a.from].term >= a.term
    BY <1>3 DEF Current, AnswersSent
  <2> QED
    BY <1>2, <2>1, TermsGrow
<1>4. CASE srv'[a.from].term = a.term
  BY <1>2, <1>4
<1> QED
  BY <1>3, <1>4, NewResponses

\* What the request had that is answered, its leader has.
LEMMA AnsweredRequest ==
    ASSUME Core, Core', Next, Current, NEW a \in FullResponse, NEW m \in msgs,
           Answers(a.from, m, a), Leads(a.to, a.term)'
    PROVE  /\ m \in FullRequest /\ InLog(m, srv[a.to].log) /\ Leads(a.to, a.term)
           /\ a.next - 1 = m.lastIndex + Len(m.entries)
           /\ a.next - 1 <= Len(Entries(a.to))
           /\ Len(Entries(a.to)) <= Len(Entries(a.to)')
           /\ \A i \in 1 .. Len(Entries(a.to)) : Entries(a.to)'[i] = Entries(a.to)[i]
<1>1. /\ m \in Requests /\ a.term = m.term
      /\ a.next = m.lastIndex + Len(m.entries) + 1
  BY DEF Answers, TakesEntries
<1>2. m \in FullRequest /\ MessageOK(m)
  BY <1>1, MessageKinds DEF Core
<1>3. m.term \in Nat /\ Reached(m.term) /\ m.lastIndex \in Nat /\ Len(m.entries) \in Nat
  BY <1>2, RequestFields DEF MessageOK
<1>4. a.to \in Server
  BY ResponseFields
<1>5. /\ Leads(a.to, m.term)
      /\ Len(Entries(a.to)) <= Len(Entries(a.to)')
      /\ \A i \in 1 .. Len(Entries(a.to)) : Entries(a.to)'[i] = Entries(a.to)[i]
  BY <1>1, <1>3, <1>4, LeadersBefore
<1>6. InLog(m, srv[a.to].log)
  BY <1>1, <1>4, <1>5 DEF Current, RequestsCurrent
<1>7. a.next - 1 = m.lastIndex + Len(m.entries)
  BY <1>1, <1>3
<1>8. a.next - 1 <= Len(Entries(a.to))
  BY <1>6, <1>7 DEF InLog, Entries
<1> QED
  BY <1>1, <1>2, <1>5, <1>6, <1>7, <1>8

LEMMA AnswersInLogKept ==
    ASSUME Core, Core', Next, Current
    PROVE  AnswersInLog'
<1> SUFFICES ASSUME NEW a \in Responses', a.accepted, Leads(a.to, a.term)'
             PROVE  a.next - 1 <= Len(Entries(a.to)')
  BY DEF AnswersInLog
<1>1. a \in FullResponse
  BY DEF Core, Typed, Responses, FullRequest, FullResponse
<1>2. a.term \in Nat /\ a.to \in Server /\ a.next \in Nat
  BY <1>1, ResponseFields
<1>3. Len(Entries(a.to)) \in Nat /\ Len(Entries(a.to)') \in Nat
  <2>1. srv[a.to] \in FullState /\ srv'[a.to] \in FullState
    BY <1>2 DEF Core, Typed
  <2> QED
    BY <2>1, StateFields DEF Entries
<1>4. CASE a \in Responses
  <2>1. Reached(a.term)
    BY <1>4 DEF Core, MessageOK, Responses
  <2>2. Leads(a.to, a.term) /\ Len(Entries(a.to)) <= Len(Entries(a.to)')
    BY <1>2, <2>1, LeadersBefore
  <2>3. a.next - 1 <= Len(Entries(a.to))
    BY <1>4, <2>2 DEF Current, AnswersInLog
  <2> QED
    BY <1>2, <1>3, <2>2, <2>3
<1>5. CASE \E m \in msgs : Answers(a.from, m, a)
  <2>1. a.next - 1 <= Len(Entries(a.to)) /\ Len(Entries(a.to)) <= Len(Entries(a.to)')
    BY <1>1, <1>5, AnsweredRequest
  <2> QED
    BY <1>2, <1>3, <2>1
<1> QED
  BY <1>4, <1>5, NewResponses

\* A follower keeps what it has in common with the leader of its term.
LEMMA FollowerKeeps ==
    ASSUME Core, Core', Next, Current, Agreement, TransfersInTerm, NEW p \in Server, NEW q \in Server,
           Leads(p, srv[q].term), srv'[q].term = srv[q].term,
           NEW n \in Nat, n <= Len(Entries(p)), n <= Len(Entries(q)),
           \A i \in 1 .. n : Entries(p)[i] = Entries(q)[i]
    PROVE  n <= Len(Entries(q)') /\ \A i \in 1 .. n : Entries(q)'[i] = Entries(q)[i]
<1>1. PICK s \in Server :
          \/ SameLogs(s) \/ AppendsEntry(s) \/ CopiesLog(s)
          \/ \E m \in msgs : RefusesRequest(s, m) \/ TakesEntries(s, m)
          \/ \E Q \in SUBSET Server : WinsElection(s, Q)
  BY StepDoes
<1>2. PICK l, y, r : l = Entries(q) /\ y = Entries(p) /\ r = Entries(q)'
  OBVIOUS
<1>3. l \in Seq(LogEntry) /\ y \in Seq(LogEntry) /\ Len(l) \in Nat /\ Len(y) \in Nat
  BY <1>2, StateTyped
<1>4. CASE r = l
  BY <1>2, <1>4
<1>5. CASE \E Q \in SUBSET Server : WinsElection(s, Q)
  <2>1. q # s
    BY <1>5, StateTyped DEF WinsElection
  <2> QED
    BY <1>2, <1>4, <1>5, <2>1 DEF WinsElection
<1>6. CASE q # s /\ ~\E Q \in SUBSET Server : WinsElection(s, Q)
  <2>1. Alone(s)
    BY <1>1, <1>6 DEF SameLogs, AppendsEntry, CopiesLog, RefusesRequest, TakesEntries
  <2> QED
    BY <1>2, <1>4, <1>6, <2>1, AloneGives DEF Entries
<1>7. CASE q = s /\ (SameLogs(s) \/ \E m \in msgs : RefusesRequest(s, m))
  BY <1>2, <1>4, <1>7 DEF SameLogs, RefusesRequest
<1>8. CASE q = s /\ AppendsEntry(s)
  <2>1. Leads(s, srv[s].term) /\ srv'[s].role = "Leader"
    BY <1>8 DEF AppendsEntry
  <2>2. Len(l) <= Len(r) /\ \A i \in 1 .. Len(l) : r[i] = l[i]
    BY <1>2, <1>8, <2>1, LeaderGrows DEF Leads
  <2>3. Len(r) \in Nat
    BY <1>2, StateFields DEF Core, Typed, Entries
  <2> QED
    BY <1>2, <1>3, <2>2, <2>3
<1>9. CASE q = s /\ \E m \in msgs : TakesEntries(s, m)
  <2>1. PICK m \in msgs : TakesEntries(q, m)
    BY <1>9
  <2>2. m \in Requests /\ m.term = srv[q].term
    BY <2>1 DEF TakesEntries
  <2>3. InLog(m, srv[p].log)
    BY <2>2 DEF Current, RequestsCurrent
  <2>4. PICK es, b : es = m.entries /\ b = m.lastIndex
    OBVIOUS
  <2>5. m \in FullRequest /\ es \in Seq(LogEntry) /\ b \in Nat /\ Len(es) \in Nat
    BY <2>1, <2>4, TakesAppended, RequestFields
  <2>6. PICK c \in 1 .. Len(es) + 1 : Appended(l, es, b + 1, c, r)
    BY <1>2, <2>1, <2>4, TakesAppended
  <2>7. \A k \in 1 .. Len(es) : b + k <= n => l[b + k].term = es[k].term
    <3> SUFFICES ASSUME NEW k \in 1 .. Len(es), b + k <= n
                 PROVE  l[b + k] = es[k]
      OBVIOUS
    <3>1. es[k] = y[b + k]
      BY <1>2, <2>3, <2>4 DEF InLog, Entries
    <3>2. b + k \in 1 .. n
      BY <2>5
    <3> QED
      BY <1>2, <3>1, <3>2
  <2>8. n <= Len(r) /\ \A j \in 1 .. n : r[j] = l[j]
    <3>1. n <= Len(l)
      BY <1>2
    <3>2. AppendedAfter(l, es, b, c, r)
      BY <1>3, <2>5, <2>6, AppendedAt
    <3> QED
      BY <1>3, <2>5, <2>7, <3>1, <3>2, AppendedKeeps
  <2> QED
    BY <1>2, <2>8
<1>10. CASE q = s /\ CopiesLog(s)
  <2>1. PICK x : x = srv[q].transfer
    OBVIOUS
  <2>2. x # NoTransfer /\ Leads(x.from, srv[q].term)
    BY <1>10, <2>1 DEF CopiesLog, TransfersInTerm
  <2>3. x.from = p
    <3>1. x.from \in Server
      BY <1>10, <2>1, CopiedLog
    <3> QED
      BY <2>2, <3>1 DEF Core, OneLeaderPerTerm, Leads
  <2>4. /\ x.start \in 1 .. Len(y) + 1 /\ Len(r) = Len(y)
        /\ \A j \in 1 .. x.start - 1 : r[j] = l[j]
        /\ \A j \in x.start .. Len(y) : r[j] = y[j]
    BY <1>2, <1>10, <2>1, <2>3, CopiedLog
  <2>5. n <= Len(r) /\ \A i \in 1 .. n : y[i] = l[i]
    BY <1>2, <2>4
  <2>6. \A i \in 1 .. n : r[i] = l[i]
    <3> TAKE i \in 1 .. n
    <3>1. i \in 1 .. x.start - 1 \/ i \in x.start .. Len(y)
      BY <1>2, <1>3, <2>4
    <3> QED
      BY <2>4, <2>5, <3>1
  <2> QED
    BY <1>2, <2>5, <2>6
<1> QED
  BY <1>1, <1>5, <1>6, <1>7, <1>8, <1>9, <1>10

\* What a server answers now agrees with the leader it answers.
LEMMA NewAnswerAgrees ==
    ASSUME Core, Core', Next, Current, LinksAgree', NEW a \in FullResponse, NEW m \in msgs,
           Answers(a.from, m, a), Leads(a.to, a.term)'
    PROVE  /\ a.next - 1 <= Len(Entries(a.from)')
           /\ \A i \in 1 .. a.next - 1 : Entries(a.to)'[i] = Entries(a.from)'[i]
<1>1. PICK p, q, l, r, y, z, es, b, n :
          /\ p = a.to /\ q = a.from /\ l = Entries(q) /\ r = Entries(q)'
          /\ y = Entries(p) /\ z = Entries(p)'
          /\ es = m.entries /\ b = m.lastIndex /\ n = a.next - 1
  OBVIOUS
<1>2. /\ m \in FullRequest /\ InLog(m, srv[p].log) /\ n = b + Len(es) /\ n <= Len(y)
      /\ Len(y) <= Len(z) /\ \A i \in 1 .. Len(y) : z[i] = y[i]
  BY <1>1, AnsweredRequest
<1>3. p \in Server /\ q \in Server /\ TakesEntries(q, m) /\ LogOk(srv[q].log, m)
  BY <1>1, ResponseFields DEF Answers, TakesEntries
<1>4. /\ l \in Seq(LogEntry) /\ r \in Seq(LogEntry) /\ y \in Seq(LogEntry) /\ z \in Seq(LogEntry)
      /\ Len(l) \in Nat /\ Len(r) \in Nat /\ Len(y) \in Nat /\ Len(z) \in Nat
      /\ srv[p].log \in FullLog /\ srv[q].log \in FullLog
      /\ srv[p].log.entries = y /\ srv[q].log.entries = l
  <2>1. srv[p] \in FullState /\ srv'[p] \in FullState /\ srv[q] \in FullState /\ srv'[q] \in FullState
    BY <1>3 DEF Core, Typed
  <2> QED
    BY <1>1, <2>1, StateFields DEF Entries
<1>5. es \in Seq(LogEntry) /\ Len(es) \in Nat /\ b \in Nat /\ b + 1 \in 1 .. Len(l) + 1
  BY <1>1, <1>2, <1>3, RequestFields, TakesAppended
<1>6. PICK c \in 1 .. Len(es) + 1 : Appended(l, es, b + 1, c, r)
  BY <1>1, <1>3, TakesAppended
<1>7. n <= Len(r)
  <2> DEFINE i == b + 1
  <2>1. i \in 1 .. Len(l) + 1 /\ Appended(l, es, i, c, r)
    BY <1>5, <1>6
  <2> HIDE DEF i
  <2>2. l \in Seq(LogEntry) /\ es \in Seq(LogEntry) /\ r \in Seq(LogEntry)
    BY <1>4, <1>5
  <2>3. Len(r) >= i - 1 + Len(es)
    BY <1>6, <2>1, <2>2, AppendedFrom
  <2>4. PICK k, len : k = Len(r) /\ len = Len(es)
    OBVIOUS
  <2>5. k \in Nat /\ len \in Nat /\ k >= i - 1 + len /\ n = b + len
    BY <1>2, <1>4, <1>5, <2>3, <2>4
  <2>6. n <= k
    BY <1>5, <2>5 DEF i
  <2> QED
    BY <2>4, <2>6
<1>8. n = 0 \/ z[n].term = r[n].term
  <2> SUFFICES ASSUME n # 0 PROVE z[n].term = r[n].term
    OBVIOUS
  <2>1. r[n].term = IF Len(es) = 0 THEN l[b].term ELSE es[Len(es)].term
    <3>1. l \in Seq(LogEntry) /\ es \in Seq(LogEntry) /\ b \in Nat /\ b + Len(es) # 0
      BY <1>2, <1>4, <1>5
    <3>2. r[b + Len(es)].term = IF Len(es) = 0 THEN l[b].term ELSE es[Len(es)].term
      BY <1>6, <3>1, AppendedEnd
    <3> QED
      BY <1>2, <3>2
  <2>2. n \in 1 .. Len(y) /\ z[n] = y[n]
    BY <1>2, <1>4, <1>5
  <2>3. CASE Len(es) = 0
    <3>1. n = b /\ b \in 0 .. Len(l) /\ b \in 0 .. Len(y) /\ b # 0
      BY <1>2, <1>4, <1>5, <2>2, <2>3
    <3>2. TermAt(srv[p].log, b) = TermAt(srv[q].log, b)
      BY <1>1, <1>2, <1>3, <3>1 DEF InLog, LogOk
    <3>3. y[b].term = l[b].term
      BY <1>4, <3>1, <3>2, TermAtFacts
    <3> QED
      BY <2>1, <2>2, <2>3, <3>1, <3>3
  <2>4. CASE Len(es) # 0
    <3>1. Len(es) \in 1 .. Len(es)
      BY <1>5, <2>4
    <3>2. es[Len(es)] = y[b + Len(es)]
      BY <1>1, <1>2, <1>4, <3>1 DEF InLog
    <3> QED
      BY <1>2, <2>1, <2>2, <2>4, <3>2
  <2> QED
    BY <2>3, <2>4
<1>9. \A u \in LogLinks(z), v \in LogLinks(r) :
          u.index = v.index /\ u.entry.term = v.entry.term => u = v
  <2> TAKE u \in LogLinks(z), v \in LogLinks(r)
  <2>1. IsLink(u)' /\ IsLink(v)'
    BY <1>1, <1>3 DEF IsLink
  <2> QED
    BY <2>1 DEF LinksAgree
<1>10. \A i \in 1 .. n : z[i] = r[i]
  <2>1. n \in Nat /\ n <= Len(z)
    BY <1>2, <1>4, <1>5
  <2> QED
    BY <1>4, <1>7, <1>8, <1>9, <2>1, LinksMatch
<1> QED
  BY <1>1, <1>7, <1>10

LEMMA AnswersAgreeKept ==
    ASSUME Core, Core', Next, Current, Agreement, LinksAgree', TransfersInTerm
    PROVE  AnswersAgree'
<1> SUFFICES ASSUME NEW a \in Responses', a.accepted, Leads(a.to, a.term)',
                    srv'[a.from].term = a.term
             PROVE  /\ a.next - 1 <= Len(Entries(a.from)')
                    /\ \A i \in 1 .. a.next - 1 : Entries(a.to)'[i] = Entries(a.from)'[i]
  BY DEF AnswersAgree
<1>1. a \in FullResponse
  BY DEF Core, Typed, Responses, FullRequest, FullResponse
<1>2. CASE \E m \in msgs : Answers(a.from, m, a)
  BY <1>1, <1>2, NewAnswerAgrees
<1>3. CASE a \in Responses
  <2>1. /\ a.term \in Nat /\ a.to \in Server /\ a.from \in Server
        /\ a.next \in Nat /\ a.next >= 1
    BY <1>1, ResponseFields
  <2>2. PICK p, q, n : p = a.to /\ q = a.from /\ n = a.next - 1
    OBVIOUS
  <2>3. n \in Nat /\ p \in Server /\ q \in Server
    BY <2>1, <2>2
  <2>4. Reached(a.term)
    BY <1>3 DEF Core, MessageOK, Responses
  <2>5. /\ Leads(p, a.term) /\ Len(Entries(p)) <= Len(Entries(p)')
        /\ \A i \in 1 .. Len(Entries(p)) : Entries(p)'[i] = Entries(p)[i]
    BY <2>1, <2>2, <2>3, <2>4, LeadersBefore
  <2>6. srv[q].term = a.term
    <3>1. srv[q].term >= a.term
      BY <1>3, <2>2 DEF Current, AnswersSent
    <3> QED
      BY <2>1, <2>2, <2>3, <3>1, TermsGrow
  <2>7. /\ n <= Len(Entries(p)) /\ n <= Len(Entries(q))
        /\ \A i \in 1 .. n : Entries(p)[i] = Entries(q)[i]
    BY <1>3, <2>2, <2>5, <2>6 DEF Current, Agreement, AnswersInLog, AnswersAgree
  <2>8. n <= Len(Entries(q)') /\ \A i \in 1 .. n : Entries(q)'[i] = Entries(q)[i]
    <3>1. Leads(p, srv[q].term)
      BY <2>5, <2>6
    <3>2. srv'[q].term = srv[q].term
      BY <2>2, <2>6
    <3>3. n <= Len(Entries(p)) /\ n <= Len(Entries(q))
      BY <2>7
    <3>4. \A i \in 1 .. n : Entries(p)[i] = Entries(q)[i]
      BY <2>7
    <3> QED
      BY <2>3, <3>1, <3>2, <3>3, <3>4, FollowerKeeps
  <2>9. \A i \in 1 .. n : Entries(p)'[i] = Entries(p)[i]
    BY <2>3, <2>5, <2>7, StateTyped
  <2> QED
    BY <2>2, <2>7, <2>8, <2>9
<1> QED
  BY <1>2, <1>3, NewResponses

LEMMA CurrentKept ==
    Core /\ Core' /\ Current /\ [Next]_vars => Current'
<1> SUFFICES ASSUME Core, Core', Current, [Next]_vars PROVE Current'
  OBVIOUS
<1>1. CASE Next
  BY <1>1, RequestsCurrentKept, AnswersSentKept, AnswersInLogKept DEF Current
<1>2. CASE UNCHANGED vars
  BY <1>2 DEF vars, Current, RequestsCurrent, AnswersSent, AnswersInLog, Requests, Responses,
              Leads, Entries
<1> QED
  BY <1>1, <1>2

LEMMA CurrentInit ==
    Init => Current
BY DEF Init, Current, RequestsCurrent, AnswersSent, AnswersInLog, Requests, Responses

(***************************************************************************)
(* What a leader has sent and what it has been answered stays true of its  *)
(* log, in every group and whatever the transfers do: a request of its     *)
(* term is a piece of it, and no accepted answer goes beyond its end.      *)
(***************************************************************************)
THEOREM CurrentHolds == Spec => []Current
<1> QED
  BY CurrentInit, CurrentKept, CoreHolds, PTL DEF Spec

LEMMA AgreementInit ==
    Init => Agreement
<1> SUFFICES ASSUME Init PROVE Agreement
  OBVIOUS
<1>1. /\ msgs = {} /\ \A s \in Server : Entries(s) = <<>> /\ srv[s].transfer = NoTransfer
  BY DEF Init, Entries, EmptyLog
<1>2. ~\E x : IsLink(x)
  BY <1>1 DEF IsLink, LogLinks, Requests
<1>3. AnswersAgree
  BY <1>1 DEF AnswersAgree, Responses
<1> QED
  BY <1>1, <1>2, <1>3 DEF Agreement, LinksAgree, LeaderOwns, TransfersAgree

LEMMA AgreementKept ==
    Core /\ Core' /\ Current /\ TransfersInTerm /\ TransfersInTerm' /\ Agreement /\ [Next]_vars
        => Agreement'
<1> SUFFICES ASSUME Core, Core', Current, TransfersInTerm, TransfersInTerm', Agreement,
                    [Next]_vars
             PROVE  Agreement'
  OBVIOUS
<1>1. CASE Next
  <2>1. LinksAgree' /\ LeaderOwns'
    BY <1>1, LinksAgreeKept, LeaderOwnsKept
  <2>2. TransfersAgree'
    BY <1>1, TransfersAgreeKept
  <2>3. AnswersAgree'
    BY <1>1, <2>1, AnswersAgreeKept
  <2> QED
    BY <2>1, <2>2, <2>3 DEF Agreement
<1>2. CASE UNCHANGED vars
  <2>1. \A x : IsLink(x)' = IsLink(x)
    BY <1>2 DEF vars, IsLink, Entries, Requests
  <2>2. LinksAgree' /\ LeaderOwns'
    BY <1>2, <2>1 DEF vars, Agreement, LinksAgree, LeaderOwns, Leads, Entries
  <2>3. TransfersAgree'
    BY <1>2 DEF vars, Agreement, TransfersAgree, TransferAgrees, Entries
  <2>4. AnswersAgree'
    BY <1>2 DEF vars, Agreement, AnswersAgree, Responses, Leads, Entries
  <2> QED
    BY <2>2, <2>3, <2>4 DEF Agreement
<1> QED
  BY <1>1, <1>2

LEMMA AgreementHolds == Spec /\ []TransfersInTerm => []Agreement
<1> QED
  BY AgreementInit, AgreementKept, CoreHolds, CurrentHolds, PTL DEF Spec

LEMMA LogsOf ==
    ASSUME Core, NEW s \in Server
    PROVE  /\ srv[s].log.start = 1 /\ Entries(s) \in Seq(LogEntry) /\ Len(Entries(s)) \in Nat
           /\ LastIndex(srv[s].log) = Len(Entries(s))
           /\ \A i \in 1 .. Len(Entries(s)) : GetAt(srv[s].log, i) = Entries(s)[i]
<1>1. srv[s] \in FullState
  BY DEF Core, Typed
<1>2. /\ srv[s].log.start = 1 /\ Entries(s) \in Seq(LogEntry) /\ Len(Entries(s)) \in Nat
      /\ LastIndex(srv[s].log) = Len(Entries(s))
  BY <1>1, StateFields DEF Entries, FullLog
<1>3. \A i \in 1 .. Len(Entries(s)) : GetAt(srv[s].log, i) = Entries(s)[i]
  BY <1>2 DEF GetAt, Entries
<1> QED
  BY <1>2, <1>3

\* LogMatching from the links.
LEMMA LinksGiveMatching ==
    ASSUME Core, LinksAgree
    PROVE  LogMatching
<1> SUFFICES ASSUME NEW s \in Server, NEW q \in Server,
                    NEW i \in srv[s].log.start .. LastIndex(srv[s].log),
                    i \in srv[q].log.start .. LastIndex(srv[q].log),
                    GetAt(srv[s].log, i).term = GetAt(srv[q].log, i).term,
                    NEW k \in srv[s].log.start .. i
             PROVE  GetAt(srv[s].log, k) = GetAt(srv[q].log, k)
  BY DEF LogMatching
<1>1. PICK l, f : l = Entries(s) /\ f = Entries(q)
  OBVIOUS
<1>2. /\ srv[s].log.start = 1 /\ l \in Seq(LogEntry) /\ Len(l) \in Nat
      /\ LastIndex(srv[s].log) = Len(l)
      /\ \A j \in 1 .. Len(l) : GetAt(srv[s].log, j) = l[j]
  BY <1>1, LogsOf
<1>3. /\ srv[q].log.start = 1 /\ f \in Seq(LogEntry) /\ Len(f) \in Nat
      /\ LastIndex(srv[q].log) = Len(f)
      /\ \A j \in 1 .. Len(f) : GetAt(srv[q].log, j) = f[j]
  BY <1>1, LogsOf
<1>4. /\ i \in Nat /\ i \in 1 .. Len(l) /\ i \in 1 .. Len(f) /\ k \in 1 .. i
      /\ i <= Len(l) /\ i <= Len(f)
  BY <1>2, <1>3
<1>5. l[i].term = f[i].term
  BY <1>2, <1>3, <1>4
<1>6. \A u \in LogLinks(l), v \in LogLinks(f) :
          u.index = v.index /\ u.entry.term = v.entry.term => u = v
  BY <1>1 DEF LinksAgree, IsLink
<1>7. l[k] = f[k]
  BY <1>2, <1>3, <1>4, <1>5, <1>6, LinksMatch
<1>8. k \in 1 .. Len(l) /\ k \in 1 .. Len(f)
  BY <1>2, <1>3, <1>4
<1> QED
  BY <1>2, <1>3, <1>7, <1>8

(***************************************************************************)
(* Two logs with an entry of one term at one index agree up to it, in      *)
(* every group whose state transfers end in the term they began in.  So    *)
(* it is enough that append_entries and log_ok compare terms, at one       *)
(* index.                                                                  *)
(***************************************************************************)
THEOREM LogsMatch == Spec /\ []TransfersInTerm => []LogMatching
<1>1. Core /\ Agreement => LogMatching
  BY LinksGiveMatching DEF Agreement
<1> QED
  BY <1>1, CoreHolds, AgreementHolds, PTL

LEMMA AgreementGivesAnswers ==
    ASSUME Core, Current, Agreement
    PROVE  AnswersHold
<1> SUFFICES ASSUME NEW m \in msgs, m.type = "Response", m.accepted, srv[m.to].role = "Leader",
                    m.term = srv[m.to].term, m.term = srv[m.from].term
             PROVE  /\ m.next - 1 <= Min({LastIndex(srv[m.to].log), LastIndex(srv[m.from].log)})
                    /\ \A i \in 1 .. m.next - 1 :
                           GetAt(srv[m.to].log, i) = GetAt(srv[m.from].log, i)
  BY DEF AnswersHold
<1>1. PICK p, q, n : p = m.to /\ q = m.from /\ n = m.next - 1
  OBVIOUS
<1>2. m \in Responses /\ p \in Server /\ q \in Server /\ n \in Nat
  <2>1. m \in FullResponse
    BY DEF Core, Typed, FullRequest, FullResponse
  <2>2. m.to \in Server /\ m.from \in Server /\ m.next \in Nat /\ m.next >= 1
    BY <2>1, ResponseFields
  <2> QED
    BY <1>1, <2>2 DEF Responses
<1>3. /\ n <= Len(Entries(p)) /\ n <= Len(Entries(q))
      /\ \A i \in 1 .. n : Entries(p)[i] = Entries(q)[i]
  BY <1>1, <1>2 DEF Current, Agreement, AnswersInLog, AnswersAgree, Leads
<1>4. PICK l, f : l = Entries(p) /\ f = Entries(q)
  OBVIOUS
<1>5. /\ Len(l) \in Nat /\ LastIndex(srv[p].log) = Len(l)
      /\ \A i \in 1 .. Len(l) : GetAt(srv[p].log, i) = l[i]
  BY <1>2, <1>4, LogsOf
<1>6. /\ Len(f) \in Nat /\ LastIndex(srv[q].log) = Len(f)
      /\ \A i \in 1 .. Len(f) : GetAt(srv[q].log, i) = f[i]
  BY <1>2, <1>4, LogsOf
<1>7. n <= Min({LastIndex(srv[p].log), LastIndex(srv[q].log)})
  BY <1>3, <1>4, <1>5, <1>6, MinOfTwo
<1>8. \A i \in 1 .. n : GetAt(srv[p].log, i) = GetAt(srv[q].log, i)
  <2> TAKE i \in 1 .. n
  <2>1. i \in 1 .. Len(l) /\ i \in 1 .. Len(f)
    BY <1>2, <1>3, <1>4, <1>5, <1>6
  <2> QED
    BY <1>3, <1>4, <1>5, <1>6, <2>1
<1> QED
  BY <1>1, <1>7, <1>8

(***************************************************************************)
(* An accepted answer stays true as long as its server is in its term, in  *)
(* every group whose state transfers end in the term they began in: what   *)
(* a follower of the term appends or copies afterwards keeps what it has   *)
(* acknowledged.                                                           *)
(***************************************************************************)
THEOREM AnswersStay == Spec /\ []TransfersInTerm => []AnswersHold
<1>1. Core /\ Current /\ Agreement => AnswersHold
  BY AgreementGivesAnswers
<1> QED
  BY <1>1, CoreHolds, CurrentHolds, AgreementHolds, PTL

-----------------------------------------------------------------------------
(***************************************************************************)
(* The next indexes of peers.  The code takes the index from an answer as  *)
(* it comes; an accepted one is right, and the one of a follower that      *)
(* begins a state transfer is the end of its own log.                      *)
(***************************************************************************)
LEMMA NextKept ==
    ASSUME Core, Core', Next, Current, AnswersWithin, NextInBounds
    PROVE  NextInBounds'
<1> SUFFICES ASSUME NEW s \in Server, srv'[s].role = "Leader", NEW p \in Peers(s)
             PROVE  srv'[s].peers[p].next <= EndIndex(srv'[s].log)
  BY DEF NextInBounds
<1>1. PICK l, w, i, j : /\ l = Entries(s) /\ w = Entries(s)'
                        /\ i = srv[s].peers[p].next /\ j = srv'[s].peers[p].next
  OBVIOUS
<1>2. /\ p \in Server
      /\ EndIndex(srv[s].log) = Len(l) + 1 /\ EndIndex(srv'[s].log) = Len(w) + 1
      /\ Len(l) \in Nat /\ Len(w) \in Nat /\ i \in Nat /\ j \in Nat
  <2>1. srv[s] \in FullState /\ srv'[s] \in FullState /\ p \in Server
    BY DEF Core, Typed, Peers
  <2>2. srv[s].peers[p] \in Peer /\ srv'[s].peers[p] \in Peer
    BY <2>1, StateFields
  <2>3. i \in Nat /\ j \in Nat
    BY <1>1, <2>2, Bounds DEF Peer
  <2> QED
    BY <1>1, <2>1, <2>3, StateFields DEF Entries
<1>3. CASE j = EndIndex(srv'[s].log)
  BY <1>1, <1>2, <1>3
<1>4. CASE Leads(s, srv'[s].term) /\ NextComes(s, p)
  <2>1. srv[s].role = "Leader" /\ srv[s].term = srv'[s].term
    BY <1>4 DEF Leads
  <2>2. Len(l) <= Len(w)
    BY <1>1, <2>1, LeaderGrows
  <2>3. CASE j <= i
    <3>1. i <= Len(l) + 1
      BY <1>1, <1>2, <2>1 DEF NextInBounds
    <3> QED
      BY <1>1, <1>2, <2>2, <2>3, <3>1
  <2>4. CASE \E m \in Responses : m.to = s /\ Leads(s, m.term) /\ (m.accepted \/ m.transfer)
                                  /\ j = m.next
    <3>1. PICK m \in Responses : m.to = s /\ Leads(s, m.term) /\ (m.accepted \/ m.transfer)
                                 /\ j = m.next
      BY <2>4
    <3>2. m.accepted => j - 1 <= Len(l)
      BY <1>1, <3>1 DEF Current, AnswersInLog
    <3>3. m.transfer => j <= Len(l) + 1
      BY <1>1, <1>2, <3>1 DEF AnswersWithin, Responses
    <3> QED
      BY <1>1, <1>2, <2>2, <3>1, <3>2, <3>3
  <2> QED
    BY <1>1, <1>4, <2>3, <2>4 DEF NextComes
<1> QED
  BY <1>1, <1>2, <1>3, <1>4, NextAfter

(***************************************************************************)
(* The next index of a peer is within the leader's log or its end, in      *)
(* every group where no follower answers the beginning of a state transfer *)
(* with an end beyond it: so the assertion of                              *)
(* create_append_entries_request holds.  (Such answers exist: see the      *)
(* findings in the README.)                                                *)
(***************************************************************************)
THEOREM NextIndexInBounds == Spec /\ []AnswersWithin => []NextInBounds
<1>1. Init => NextInBounds
  BY DEF Init, NextInBounds
<1>2. Core /\ Core' /\ Current /\ AnswersWithin /\ NextInBounds /\ [Next]_vars => NextInBounds'
  <2> SUFFICES ASSUME Core, Core', Current, AnswersWithin, NextInBounds, [Next]_vars
               PROVE  NextInBounds'
    OBVIOUS
  <2>1. CASE UNCHANGED vars
    BY <2>1 DEF vars, NextInBounds
  <2> QED
    BY <2>1, NextKept
<1> QED
  BY <1>1, <1>2, CoreHolds, CurrentHolds, PTL DEF Spec

-----------------------------------------------------------------------------
(***************************************************************************)
(* A group that never transfers its state: min_state_transfer_gap_log_     *)
(* entry_count is above the length of any log.                             *)
(***************************************************************************)
NoneTransferred ==
    /\ \A m \in msgs : ~m.transfer
    /\ \A s \in Server : srv[s].transfer = NoTransfer

LEMMA NoneTransferredKept ==
    ASSUME MinGap > MaxIndex + MaxTerm, Core, Core', Next, NoneTransferred
    PROVE  NoneTransferred'
<1>1. \A m \in msgs : ~m.transfer
  BY DEF NoneTransferred
<1>2. \A p \in Server : srv'[p].transfer = NoTransfer
  BY <1>1, TransfersAfter DEF NoneTransferred, GoesOn, Begins, Requests
<1>3. ASSUME NEW s \in Server, NEW m, RequestOf(s, srv'[s], m)
      PROVE  ~m.transfer
  <2>1. PICK n : n = Len(srv'[s].log.entries)
    OBVIOUS
  <2>2. n \in Nat /\ n <= MaxIndex + MaxTerm
    <3>1. Fits(n)'
      BY <2>1 DEF Core, ServerOK
    <3>2. PICK u \in Term : n <= MaxIndex + u
      BY <3>1 DEF Fits
    <3>3. n \in Nat
      BY <2>1, StateFields DEF Core, Typed
    <3>4. u \in Nat /\ u <= MaxTerm /\ MaxIndex \in Nat /\ MaxTerm \in Nat
      BY Bounds
    <3> QED
      BY <3>2, <3>3, <3>4
  <2>3. m.transfer => n >= MinGap
    BY <1>3, <2>1 DEF RequestOf
  <2> QED
    BY <2>2, <2>3, Bounds
<1>4. \A m \in msgs' : ~m.transfer
  <2>1. PICK s \in Server :
            \/ SameLogs(s) \/ AppendsEntry(s) \/ CopiesLog(s)
            \/ \E m \in msgs : RefusesRequest(s, m) \/ TakesEntries(s, m)
            \/ \E Q \in SUBSET Server : WinsElection(s, Q)
    BY StepDoes
  <2>2. \E A : (\A a \in A : ~a.transfer) /\ Sends(s, A)
    <3>1. CASE \E m \in msgs : RefusesRequest(s, m)
      BY <1>1, <3>1 DEF RefusesRequest
    <3>2. CASE \E m \in msgs : TakesEntries(s, m)
      BY <3>2 DEF TakesEntries
    <3>3. CASE ~\E m \in msgs : RefusesRequest(s, m) \/ TakesEntries(s, m)
      <4>1. Sends(s, {})
        BY <2>1, <3>3 DEF SameLogs, AppendsEntry, WinsElection, CopiesLog, Sends
      <4> QED
        BY <4>1
    <3> QED
      BY <3>1, <3>2, <3>3
  <2> QED
    BY <1>1, <1>3, <2>2 DEF Sends
<1> QED
  BY <1>2, <1>4 DEF NoneTransferred

LEMMA NeverTransfers ==
    ASSUME MinGap > MaxIndex + MaxTerm
    PROVE  Spec => [](TransfersInTerm /\ AnswersWithin)
<1>1. Init => NoneTransferred
  BY DEF Init, NoneTransferred
<1>2. Core /\ Core' /\ NoneTransferred /\ [Next]_vars => NoneTransferred'
  <2> SUFFICES ASSUME Core, Core', NoneTransferred, [Next]_vars PROVE NoneTransferred'
    OBVIOUS
  <2>1. CASE UNCHANGED vars
    BY <2>1 DEF vars, NoneTransferred
  <2> QED
    BY <2>1, NoneTransferredKept
<1>3. NoneTransferred => TransfersInTerm /\ AnswersWithin
  BY DEF NoneTransferred, TransfersInTerm, AnswersWithin, Requests, Responses
<1> QED
  BY <1>1, <1>2, <1>3, CoreHolds, PTL DEF Spec

(***************************************************************************)
(* In a group that never transfers its state, whatever it loses, delays or *)
(* elects: logs match, accepted answers stay true, and next indexes are    *)
(* within the leader's log.                                                *)
(***************************************************************************)
THEOREM WithoutTransfers ==
    ASSUME MinGap > MaxIndex + MaxTerm
    PROVE  Spec => [](LogMatching /\ AnswersHold /\ NextInBounds)
<1> QED
  BY NeverTransfers, LogsMatch, AnswersStay, NextIndexInBounds, PTL
=============================================================================
