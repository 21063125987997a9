---------------------------- MODULE PublishProofs ---------------------------
(***************************************************************************)
(* The publications of a client, for any group, any queue and batch, and   *)
(* all bounds.  The types and the flow hold in every behaviour; that the   *)
(* whole implements Delivery, in those of calm steps (Calm).               *)
(*                                                                         *)
(* The argument.  In every log the messages are 1, 2, ... in their order   *)
(* (InOrder).  A leader appends only what its session takes, so the        *)
(* message its session received last has to be the last in its log         *)
(* (IsLast): an election sets it so (NewLeaderFits), if the server was not *)
(* ahead of its log, and each message taken keeps it so (PublicationFits). *)
(* A session that timed out has received nothing: it takes no message      *)
(* again while message 1 is neither in the queue nor under way, which is   *)
(* the second way to be a leader in Fits.  What a session, an answer or    *)
(* the client knows to be committed is so at some server (CommittedIn),    *)
(* and stays so.  The logs agree on it, so the longest committed prefix    *)
(* counts up to the last committed message (DeliveredIs), and a step that  *)
(* commits, publishes or reports is one of Delivery (StepDelivers).        *)
(*                                                                         *)
(* local_commit, remove_committed_entries and the requests of clients are  *)
(* folds: each lemma Fold... says that a fold is a chain of values, and    *)
(* what one step of it does is carried along the chain by UpTo.            *)
(***************************************************************************)
EXTENDS PublishSession, FiniteSetTheorems, NaturalsInduction, SequenceTheorems, TLAPS

-----------------------------------------------------------------------------
(* Numbers: least and greatest elements, and induction up to a bound. *)

LEMMA MinIsReached ==
    ASSUME NEW S \in SUBSET Nat, S # {}
    PROVE  Min(S) \in S /\ \A y \in S : Min(S) <= y
<1>1. PICK t \in S : \A u \in S : ~(<<u, t>> \in OpToRel(<, Nat))
  BY NatLessThanWellFounded, WFMin, Zenon
<1>2. \A u \in S : t <= u
  <2> TAKE u \in S
  <2>1. u < t => <<u, t>> \in {ss \in Nat \X Nat : ss[1] < ss[2]}
    OBVIOUS
  <2>2. OpToRel(<, Nat) = {ss \in Nat \X Nat : ss[1] < ss[2]}
    BY Zenon DEF OpToRel
  <2>3. ~(u < t)
    BY <1>1, <2>1, <2>2
  <2> QED
    BY <2>3
<1> QED
  BY <1>2 DEF Min

LEMMA MaxIsReached ==
    ASSUME NEW b \in Nat, NEW S \in SUBSET (0 .. b), S # {}
    PROVE  Max(S) \in S /\ \A y \in S : Max(S) >= y
<1> DEFINE T == {n \in 0 .. b : b - n \in S}
<1>1. PICK s \in S : TRUE
  OBVIOUS
<1>2. T \in SUBSET Nat /\ b - s \in T
  OBVIOUS
<1>3. Min(T) \in T /\ \A y \in T : Min(T) <= y
  <2> HIDE DEF T
  <2> QED
    BY <1>2, MinIsReached
<1>4. PICK t \in T : \A y \in T : t <= y
  BY <1>3
<1>5. b - t \in S /\ \A y \in S : b - t >= y
  <2>1. \A y \in S : b - y \in T
    OBVIOUS
  <2> QED
    BY <1>4, <2>1
<1> QED
  BY <1>5 DEF Max

LEMMA MaxOfTwo ==
    ASSUME NEW a \in Int, NEW b \in Int
    PROVE  Max({a, b}) = IF a >= b THEN a ELSE b
<1>1. \A x \in {a, b} : (\A y \in {a, b} : x >= y) <=> x = IF a >= b THEN a ELSE b
  OBVIOUS
<1> QED
  BY <1>1 DEF Max

LEMMA MinOfTwo ==
    ASSUME NEW a \in Int, NEW b \in Int
    PROVE  Min({a, b}) = IF a <= b THEN a ELSE b
<1>1. \A x \in {a, b} : (\A y \in {a, b} : x <= y) <=> x = IF a <= b THEN a ELSE b
  OBVIOUS
<1> QED
  BY <1>1 DEF Min

\* Induction up to N, over the set of the numbers for which it holds.
LEMMA UpTo ==
    ASSUME NEW N \in Nat, NEW P, 0 \in P, \A k \in 1 .. N : k - 1 \in P => k \in P
    PROVE  \A k \in 0 .. N : k \in P
<1> SUFFICES ASSUME NEW j \in 0 .. N, j \notin P
             PROVE  FALSE
  OBVIOUS
<1> DEFINE S == {k \in 0 .. N : k \notin P}
<1>1. S \in SUBSET Nat /\ S # {}
  OBVIOUS
<1>2. PICK m \in S : \A y \in S : m <= y
  <2> HIDE DEF S
  <2> QED
    BY <1>1, MinIsReached
<1>3. m \in 1 .. N /\ m - 1 \notin S
  BY <1>2
<1> QED
  BY <1>3

-----------------------------------------------------------------------------
(* What a fold from the left is: a chain of values, one for each element.  *)
(* FoldLeft is a recursive function on the subsets of the domain, and the  *)
(* first lemma says that there is one.                                     *)

FoldSolution(g, N, base, G) ==
    \A s \in SUBSET (1 .. N) :
        g[s] = IF s = {} THEN base ELSE G[<<g[s \ {Max(s)}], Max(s)>>]

LEMMA FoldExists ==
    ASSUME NEW T, NEW N \in Nat, NEW base \in T, NEW G \in [T \X (1 .. N) -> T]
    PROVE  \E g \in [SUBSET (1 .. N) -> T] : FoldSolution(g, N, base, G)
<1> DEFINE Solves(g, k) == \A s \in SUBSET (1 .. k) :
               g[s] = IF s = {} THEN base ELSE G[<<g[s \ {Max(s)}], Max(s)>>]
           Solutions(k) == {g \in [SUBSET (1 .. N) -> T] : Solves(g, k)}
           P == {k \in 0 .. N : Solutions(k) # {}}
<1>1. 0 \in P
  <2> DEFINE g == [s \in SUBSET (1 .. N) |-> base]
  <2>1. g \in [SUBSET (1 .. N) -> T]
    OBVIOUS
  <2>2. SUBSET (1 .. 0) = {{}} /\ {} \in SUBSET (1 .. N)
    OBVIOUS
  <2>3. Solves(g, 0)
    BY <2>2
  <2>4. g \in Solutions(0)
    BY <2>1, <2>3
  <2> HIDE DEF Solutions, g
  <2> QED
    BY <2>4
<1>2. ASSUME NEW k \in 1 .. N, k - 1 \in P
      PROVE  k \in P
  <2>1. PICK g \in Solutions(k - 1) : TRUE
    <3> HIDE DEF Solutions
    <3> QED
      BY <1>2
  <2> DEFINE h == [s \in SUBSET (1 .. N) |-> IF k \in s THEN G[<<g[s \ {k}], k>>] ELSE g[s]]
  <2>2. h \in [SUBSET (1 .. N) -> T]
    BY <2>1
  <2>3. ASSUME NEW s \in SUBSET (1 .. k)
        PROVE  h[s] = IF s = {} THEN base ELSE G[<<h[s \ {Max(s)}], Max(s)>>]
    <3>1. s \in SUBSET (1 .. N) /\ s \ {k} \in SUBSET (1 .. N)
      OBVIOUS
    <3>2. CASE k \in s
      <4>1. Max(s) = k
        <5>1. k \in Nat /\ s \in SUBSET (0 .. k) /\ s # {}
          BY <3>2
        <5>2. Max(s) \in s /\ \A y \in s : Max(s) >= y
          BY <5>1, MaxIsReached
        <5> QED
          <6> DEFINE m == Max(s)
          <6>1. m \in 0 .. k /\ m >= k
            BY <5>1, <5>2, <3>2
          <6> HIDE DEF m
          <6> QED
            BY <6>1 DEF m
      <4>2. h[s] = G[<<g[s \ {k}], k>>] /\ h[s \ {k}] = g[s \ {k}]
        BY <3>1, <3>2
      <4> HIDE DEF h
      <4> QED
        BY <4>1, <4>2, <3>2
    <3>3. CASE k \notin s
      <4>1. s \in SUBSET (1 .. k - 1)
        BY <3>3
      <4>2. g[s] = IF s = {} THEN base ELSE G[<<g[s \ {Max(s)}], Max(s)>>]
        BY <2>1, <4>1
      <4>3. h[s] = g[s] /\ h[s \ {Max(s)}] = g[s \ {Max(s)}]
        BY <3>1, <3>3
      <4> HIDE DEF h
      <4> QED
        BY <4>2, <4>3
    <3> QED
      BY <3>2, <3>3
  <2>4. h \in Solutions(k)
    <3> HIDE DEF h
    <3> QED
      BY <2>2, <2>3
  <2> HIDE DEF Solutions, h
  <2> QED
    BY <2>4
<1>3. N \in P
  <2> HIDE DEF P
  <2>1. \A k \in 1 .. N : k - 1 \in P => k \in P
    BY <1>2
  <2> QED
    BY <1>1, <2>1, UpTo
<1>4. Solutions(N) # {}
  <2> HIDE DEF Solutions
  <2> QED
    BY <1>3
<1> QED
  BY <1>4 DEF FoldSolution

\* The initial sections of 1 .. k
LEMMA Sections ==
    ASSUME NEW k \in Nat, k # 0
    PROVE  1 .. k # {} /\ Max(1 .. k) = k /\ (1 .. k) \ {k} = 1 .. k - 1
<1>1. k \in Nat /\ 1 .. k \in SUBSET (0 .. k) /\ k \in 1 .. k
  OBVIOUS
<1>2. Max(1 .. k) \in 1 .. k /\ Max(1 .. k) >= k
  BY <1>1, MaxIsReached
<1> QED
  BY <1>1, <1>2

LEMMA CommitEntryTyped ==
    ASSUME NEW d \in Session, NEW x \in Entry
    PROVE  CommitEntry(d, x) \in Session
<1>1. x.id \in Id /\ d.committed \in Id
  BY DEF Entry, Session
<1>2. Max({d.committed, x.id}) \in Id
  BY <1>1, MaxOfTwo DEF Id
<1> QED
  BY <1>1, <1>2 DEF CommitEntry, CommitId, Session

\* The entries that local_commit commits
LEMMA FoldCommit ==
    ASSUME NEW base \in Session, NEW q \in Seq(Entry)
    PROVE  \E a \in [0 .. Len(q) -> Session] :
              /\ a[0] = base
              /\ \A k \in 1 .. Len(q) : a[k] = CommitEntry(a[k - 1], q[k])
              /\ FoldLeft(CommitEntry, base, q) = a[Len(q)]
<1> DEFINE N == Len(q)
           G == [p \in Session \X (1 .. N) |-> CommitEntry(p[1], q[p[2]])]
           Folds(g) == g = [s \in SUBSET DOMAIN q |->
                               IF s = {} THEN base ELSE CommitEntry(g[s \ {Max(s)}], q[Max(s)])]
           c == CHOOSE g : Folds(g)
<1>1. N \in Nat /\ DOMAIN q = 1 .. N /\ \A k \in 1 .. N : q[k] \in Entry
  BY LenProperties, ElementOfSeq
<1>2. \A d \in Session : \A k \in 1 .. N : CommitEntry(d, q[k]) \in Session
  BY <1>1, CommitEntryTyped
<1> HIDE DEF N
<1>3. G \in [Session \X (1 .. N) -> Session]
  BY <1>2
<1>4. PICK g \in [SUBSET (1 .. N) -> Session] : FoldSolution(g, N, base, G)
  <2> HIDE DEF G
  <2>1. N \in Nat /\ base \in Session
    BY <1>1
  <2> QED
    BY <2>1, <1>3, FoldExists
<1>5. \A s \in SUBSET (1 .. N) : s # {} => Max(s) \in 1 .. N /\ s \ {Max(s)} \in SUBSET (1 .. N)
  <2> TAKE s \in SUBSET (1 .. N)
  <2> HAVE s # {}
  <2>1. s \in SUBSET (0 .. N)
    OBVIOUS
  <2>2. Max(s) \in s
    BY <1>1, <2>1, MaxIsReached
  <2> QED
    BY <2>2
<1>6. Folds(g)
  <2>1. ASSUME NEW s \in SUBSET (1 .. N)
        PROVE  g[s] = IF s = {} THEN base ELSE CommitEntry(g[s \ {Max(s)}], q[Max(s)])
    <3>1. CASE s = {}
      BY <1>4, <3>1 DEF FoldSolution
    <3>2. CASE s # {}
      <4>1. PICK m \in 1 .. N : m = Max(s)
        BY <1>5, <3>2
      <4>2. g[s \ {m}] \in Session /\ g[s] = G[<<g[s \ {m}], m>>]
        BY <1>4, <1>5, <3>2, <4>1 DEF FoldSolution
      <4>3. PICK d \in Session : d = g[s \ {m}]
        BY <4>2
      <4>4. G[<<d, m>>] = CommitEntry(d, q[m])
        OBVIOUS
      <4> QED
        BY <4>1, <4>2, <4>3, <4>4, <3>2
    <3> QED
      BY <3>1, <3>2
  <2> QED
    BY <1>1, <1>4, <2>1
<1>7. Folds(c)
  <2> HIDE DEF Folds
  <2> QED
    BY <1>6
<1>8. FoldLeft(CommitEntry, base, q) = c[1 .. N]
  BY <1>1 DEF FoldLeft, MapThenFoldSet
<1> HIDE DEF c
<1> DEFINE a == [k \in 0 .. N |-> c[1 .. k]]
<1>9. c[{}] = base
  BY <1>1, <1>7
<1>10. ASSUME NEW k \in 1 .. N
       PROVE  c[1 .. k] = CommitEntry(c[1 .. k - 1], q[k])
  <2>1. k \in Nat /\ k # 0 /\ 1 .. k \in SUBSET (1 .. N)
    BY <1>1
  <2>2. 1 .. k # {} /\ Max(1 .. k) = k /\ (1 .. k) \ {k} = 1 .. k - 1
    BY <2>1, Sections
  <2>3. c[1 .. k] = IF 1 .. k = {} THEN base ELSE CommitEntry(c[(1 .. k) \ {Max(1 .. k)}], q[Max(1 .. k)])
    BY <1>1, <1>7, <2>1
  <2> QED
    BY <2>2, <2>3
<1> DEFINE P == {k \in 0 .. N : c[1 .. k] \in Session}
<1>11. \A k \in 0 .. N : k \in P
  <2>1. 0 \in P
    <3>1. 1 .. 0 = {}
      OBVIOUS
    <3> QED
      BY <1>1, <1>9, <3>1
  <2>2. ASSUME NEW k \in 1 .. N, k - 1 \in P
        PROVE  k \in P
    <3>1. PICK d \in Session : d = c[1 .. k - 1]
      BY <2>2
    <3> QED
      BY <1>1, <1>2, <1>10, <3>1
  <2>3. \A k \in 1 .. N : k - 1 \in P => k \in P
    BY <2>2
  <2> HIDE DEF P
  <2> QED
    BY <1>1, <2>1, <2>3, UpTo
<1>12. a \in [0 .. N -> Session]
  BY <1>11
<1>13. a[0] = base /\ a[N] = c[1 .. N]
  <2>1. 1 .. 0 = {}
    OBVIOUS
  <2> QED
    BY <1>1, <1>9, <2>1
<1>14. \A k \in 1 .. N : a[k] = CommitEntry(a[k - 1], q[k])
  <2> TAKE k \in 1 .. N
  <2>1. a[k] = c[1 .. k] /\ a[k - 1] = c[1 .. k - 1]
    BY <1>1
  <2> HIDE DEF a
  <2> QED
    BY <1>10, <2>1
<1> HIDE DEF a
<1> QED
  BY <1>8, <1>12, <1>13, <1>14 DEF N

LEMMA TakeTyped ==
    ASSUME NEW d \in ServerState, NEW x \in Id
    PROVE  Take(d, x) \in ServerState
<1>1. /\ d.session \in Session /\ d.log \in Seq(Entry) /\ d.term \in Term
      /\ d.session.received \in Id
  BY DEF ServerState, Session
<1>2. Receive(d.session, x) \in Session
  BY <1>1 DEF Receive, Session
<1>3. [term |-> d.term, id |-> x] \in Entry
  BY <1>1 DEF Entry
<1>4. Append(d.log, [term |-> d.term, id |-> x]) \in Seq(Entry)
  BY <1>1, <1>3
<1> QED
  BY <1>1, <1>2, <1>4 DEF Take, ServerState

\* The messages of a publication
LEMMA FoldTake ==
    ASSUME NEW base \in ServerState, NEW q \in Seq(Id)
    PROVE  \E a \in [0 .. Len(q) -> ServerState] :
              /\ a[0] = base
              /\ \A k \in 1 .. Len(q) : a[k] = Take(a[k - 1], q[k])
              /\ FoldLeft(Take, base, q) = a[Len(q)]
<1> DEFINE N == Len(q)
           G == [p \in ServerState \X (1 .. N) |-> Take(p[1], q[p[2]])]
           Folds(g) == g = [s \in SUBSET DOMAIN q |->
                               IF s = {} THEN base ELSE Take(g[s \ {Max(s)}], q[Max(s)])]
           c == CHOOSE g : Folds(g)
<1>1. N \in Nat /\ DOMAIN q = 1 .. N /\ \A k \in 1 .. N : q[k] \in Id
  BY LenProperties, ElementOfSeq
<1>2. \A d \in ServerState : \A k \in 1 .. N : Take(d, q[k]) \in ServerState
  BY <1>1, TakeTyped
<1> HIDE DEF N
<1>3. G \in [ServerState \X (1 .. N) -> ServerState]
  BY <1>2
<1>4. PICK g \in [SUBSET (1 .. N) -> ServerState] : FoldSolution(g, N, base, G)
  <2> HIDE DEF G
  <2>1. N \in Nat /\ base \in ServerState
    BY <1>1
  <2> QED
    BY <2>1, <1>3, FoldExists
<1>5. \A s \in SUBSET (1 .. N) : s # {} => Max(s) \in 1 .. N /\ s \ {Max(s)} \in SUBSET (1 .. N)
  <2> TAKE s \in SUBSET (1 .. N)
  <2> HAVE s # {}
  <2>1. s \in SUBSET (0 .. N)
    OBVIOUS
  <2>2. Max(s) \in s
    BY <1>1, <2>1, MaxIsReached
  <2> QED
    BY <2>2
<1>6. Folds(g)
  <2>1. ASSUME NEW s \in SUBSET (1 .. N)
        PROVE  g[s] = IF s = {} THEN base ELSE Take(g[s \ {Max(s)}], q[Max(s)])
    <3>1. CASE s = {}
      BY <1>4, <3>1 DEF FoldSolution
    <3>2. CASE s # {}
      <4>1. PICK m \in 1 .. N : m = Max(s)
        BY <1>5, <3>2
      <4>2. g[s \ {m}] \in ServerState /\ g[s] = G[<<g[s \ {m}], m>>]
        BY <1>4, <1>5, <3>2, <4>1 DEF FoldSolution
      <4>3. PICK d \in ServerState : d = g[s \ {m}]
        BY <4>2
      <4>4. G[<<d, m>>] = Take(d, q[m])
        OBVIOUS
      <4> QED
        BY <4>1, <4>2, <4>3, <4>4, <3>2
    <3> QED
      BY <3>1, <3>2
  <2> QED
    BY <1>1, <1>4, <2>1
<1>7. Folds(c)
  <2> HIDE DEF Folds
  <2> QED
    BY <1>6
<1>8. FoldLeft(Take, base, q) = c[1 .. N]
  BY <1>1 DEF FoldLeft, MapThenFoldSet
<1> HIDE DEF c
<1> DEFINE a == [k \in 0 .. N |-> c[1 .. k]]
<1>9. c[{}] = base
  BY <1>1, <1>7
<1>10. ASSUME NEW k \in 1 .. N
       PROVE  c[1 .. k] = Take(c[1 .. k - 1], q[k])
  <2>1. k \in Nat /\ k # 0 /\ 1 .. k \in SUBSET (1 .. N)
    BY <1>1
  <2>2. 1 .. k # {} /\ Max(1 .. k) = k /\ (1 .. k) \ {k} = 1 .. k - 1
    BY <2>1, Sections
  <2>3. c[1 .. k] = IF 1 .. k = {} THEN base ELSE Take(c[(1 .. k) \ {Max(1 .. k)}], q[Max(1 .. k)])
    BY <1>1, <1>7, <2>1
  <2> QED
    BY <2>2, <2>3
<1> DEFINE P == {k \in 0 .. N : c[1 .. k] \in ServerState}
<1>11. \A k \in 0 .. N : k \in P
  <2>1. 0 \in P
    <3>1. 1 .. 0 = {}
      OBVIOUS
    <3> QED
      BY <1>1, <1>9, <3>1
  <2>2. ASSUME NEW k \in 1 .. N, k - 1 \in P
        PROVE  k \in P
    <3>1. PICK d \in ServerState : d = c[1 .. k - 1]
      BY <2>2
    <3> QED
      BY <1>1, <1>2, <1>10, <3>1
  <2>3. \A k \in 1 .. N : k - 1 \in P => k \in P
    BY <2>2
  <2> HIDE DEF P
  <2> QED
    BY <1>1, <2>1, <2>3, UpTo
<1>12. a \in [0 .. N -> ServerState]
  BY <1>11
<1>13. a[0] = base /\ a[N] = c[1 .. N]
  <2>1. 1 .. 0 = {}
    OBVIOUS
  <2> QED
    BY <1>1, <1>9, <2>1
<1>14. \A k \in 1 .. N : a[k] = Take(a[k - 1], q[k])
  <2> TAKE k \in 1 .. N
  <2>1. a[k] = c[1 .. k] /\ a[k - 1] = c[1 .. k - 1]
    BY <1>1
  <2> HIDE DEF a
  <2> QED
    BY <1>10, <2>1
<1> HIDE DEF a
<1> QED
  BY <1>8, <1>12, <1>13, <1>14 DEF N

\* A client whose lock is counted once or not at all
LockingClient == {c \in Client : c.lock = IF c.locked THEN 1 ELSE 0}

\* FlowFollowsQueue of a client c
FlowFollows(c) ==
    /\ c.lock = IF c.locked THEN 1 ELSE 0
    /\ c.locked => QueueLen(c) > UnlockCapacity
    /\ ~c.locked => QueueLen(c) < LockCapacity

LEMMA CheckFlowFollows ==
    ASSUME NEW c \in LockingClient
    PROVE  /\ CheckFlow(c) \in LockingClient /\ FlowFollows(CheckFlow(c))
           /\ \A f \in {"next", "sent", "committed", "leader", "link"} : CheckFlow(c)[f] = c[f]
<1>1. /\ c \in Client /\ c.lock \in Nat /\ c.locked \in BOOLEAN /\ c.next \in Nat
      /\ c.committed \in Nat /\ c.lock = IF c.locked THEN 1 ELSE 0
      /\ LockCapacity \in Nat /\ UnlockCapacity \in Nat /\ UnlockCapacity < LockCapacity
  BY PublishSessionAssumption DEF LockingClient, Client, Id
<1>2. PICK n \in Int : n = QueueLen(c)
  BY <1>1 DEF QueueLen
<1>3. CASE ~c.locked /\ n >= LockCapacity
  <2>1. CheckFlow(c) = [c EXCEPT !.locked = TRUE, !.lock = 1]
    BY <1>1, <1>2, <1>3 DEF CheckFlow
  <2>2. QueueLen([c EXCEPT !.locked = TRUE, !.lock = 1]) = n
    BY <1>1, <1>2 DEF QueueLen, Client
  <2>3. PICK d : d = [c EXCEPT !.locked = TRUE, !.lock = 1]
    OBVIOUS
  <2>4. /\ d \in Client /\ d.locked = TRUE /\ d.lock = 1
        /\ \A f \in {"next", "sent", "committed", "leader", "link"} : d[f] = c[f]
    BY <1>1, <2>3 DEF Client
  <2>5. QueueLen(d) = n
    BY <2>2, <2>3
  <2>6. d \in LockingClient
    BY <2>4 DEF LockingClient
  <2>7. FlowFollows(d)
    BY <1>1, <1>3, <2>4, <2>5 DEF FlowFollows
  <2> QED
    BY <2>1, <2>3, <2>4, <2>6, <2>7
<1>4. CASE c.locked /\ n <= UnlockCapacity
  <2>1. CheckFlow(c) = [c EXCEPT !.locked = FALSE, !.lock = 0]
    BY <1>1, <1>2, <1>4 DEF CheckFlow
  <2>2. QueueLen([c EXCEPT !.locked = FALSE, !.lock = 0]) = n
    BY <1>1, <1>2 DEF QueueLen, Client
  <2>3. PICK d : d = [c EXCEPT !.locked = FALSE, !.lock = 0]
    OBVIOUS
  <2>4. /\ d \in Client /\ d.locked = FALSE /\ d.lock = 0
        /\ \A f \in {"next", "sent", "committed", "leader", "link"} : d[f] = c[f]
    BY <1>1, <2>3 DEF Client
  <2>5. QueueLen(d) = n
    BY <2>2, <2>3
  <2>6. d \in LockingClient
    BY <2>4 DEF LockingClient
  <2>7. FlowFollows(d)
    BY <1>1, <1>4, <2>4, <2>5 DEF FlowFollows
  <2> QED
    BY <2>1, <2>3, <2>4, <2>6, <2>7
<1>5. CASE ~(~c.locked /\ n >= LockCapacity) /\ ~(c.locked /\ n <= UnlockCapacity)
  <2>1. CheckFlow(c) = c
    BY <1>2, <1>5 DEF CheckFlow
  <2> QED
    BY <1>1, <1>2, <1>5, <2>1 DEF FlowFollows, LockingClient
<1> QED
  BY <1>3, <1>4, <1>5

LEMMA ReportFirstTyped ==
    ASSUME NEW c \in LockingClient, NEW x \in Id
    PROVE  ReportFirst(c, x) \in LockingClient
<1>1. c.sent \in Id /\ Max({c.sent, x}) \in Id
  BY MaxOfTwo DEF LockingClient, Client, Id
<1>2. [c EXCEPT !.committed = x, !.sent = Max({c.sent, x})] \in LockingClient
  BY <1>1 DEF LockingClient, Client
<1> QED
  BY <1>2, CheckFlowFollows DEF ReportFirst

\* What the client reports
LEMMA FoldReport ==
    ASSUME NEW base \in LockingClient, NEW q \in Seq(Id)
    PROVE  \E a \in [0 .. Len(q) -> LockingClient] :
              /\ a[0] = base
              /\ \A k \in 1 .. Len(q) : a[k] = ReportFirst(a[k - 1], q[k])
              /\ FoldLeft(ReportFirst, base, q) = a[Len(q)]
<1> DEFINE N == Len(q)
           G == [p \in LockingClient \X (1 .. N) |-> ReportFirst(p[1], q[p[2]])]
           Folds(g) == g = [s \in SUBSET DOMAIN q |->
                               IF s = {} THEN base ELSE ReportFirst(g[s \ {Max(s)}], q[Max(s)])]
           c == CHOOSE g : Folds(g)
<1>1. N \in Nat /\ DOMAIN q = 1 .. N /\ \A k \in 1 .. N : q[k] \in Id
  BY LenProperties, ElementOfSeq
<1>2. \A d \in LockingClient : \A k \in 1 .. N : ReportFirst(d, q[k]) \in LockingClient
  BY <1>1, ReportFirstTyped
<1> HIDE DEF N
<1>3. G \in [LockingClient \X (1 .. N) -> LockingClient]
  BY <1>2
<1>4. PICK g \in [SUBSET (1 .. N) -> LockingClient] : FoldSolution(g, N, base, G)
  <2> HIDE DEF G
  <2>1. N \in Nat /\ base \in LockingClient
    BY <1>1
  <2> QED
    BY <2>1, <1>3, FoldExists
<1>5. \A s \in SUBSET (1 .. N) : s # {} => Max(s) \in 1 .. N /\ s \ {Max(s)} \in SUBSET (1 .. N)
  <2> TAKE s \in SUBSET (1 .. N)
  <2> HAVE s # {}
  <2>1. s \in SUBSET (0 .. N)
    OBVIOUS
  <2>2. Max(s) \in s
    BY <1>1, <2>1, MaxIsReached
  <2> QED
    BY <2>2
<1>6. Folds(g)
  <2>1. ASSUME NEW s \in SUBSET (1 .. N)
        PROVE  g[s] = IF s = {} THEN base ELSE ReportFirst(g[s \ {Max(s)}], q[Max(s)])
    <3>1. CASE s = {}
      BY <1>4, <3>1 DEF FoldSolution
    <3>2. CASE s # {}
      <4>1. PICK m \in 1 .. N : m = Max(s)
        BY <1>5, <3>2
      <4>2. g[s \ {m}] \in LockingClient /\ g[s] = G[<<g[s \ {m}], m>>]
        BY <1>4, <1>5, <3>2, <4>1 DEF FoldSolution
      <4>3. PICK d \in LockingClient : d = g[s \ {m}]
        BY <4>2
      <4>4. G[<<d, m>>] = ReportFirst(d, q[m])
        OBVIOUS
      <4> QED
        BY <4>1, <4>2, <4>3, <4>4, <3>2
    <3> QED
      BY <3>1, <3>2
  <2> QED
    BY <1>1, <1>4, <2>1
<1>7. Folds(c)
  <2> HIDE DEF Folds
  <2> QED
    BY <1>6
<1>8. FoldLeft(ReportFirst, base, q) = c[1 .. N]
  BY <1>1 DEF FoldLeft, MapThenFoldSet
<1> HIDE DEF c
<1> DEFINE a == [k \in 0 .. N |-> c[1 .. k]]
<1>9. c[{}] = base
  BY <1>1, <1>7
<1>10. ASSUME NEW k \in 1 .. N
       PROVE  c[1 .. k] = ReportFirst(c[1 .. k - 1], q[k])
  <2>1. k \in Nat /\ k # 0 /\ 1 .. k \in SUBSET (1 .. N)
    BY <1>1
  <2>2. 1 .. k # {} /\ Max(1 .. k) = k /\ (1 .. k) \ {k} = 1 .. k - 1
    BY <2>1, Sections
  <2>3. c[1 .. k] = IF 1 .. k = {} THEN base ELSE ReportFirst(c[(1 .. k) \ {Max(1 .. k)}], q[Max(1 .. k)])
    BY <1>1, <1>7, <2>1
  <2> QED
    BY <2>2, <2>3
<1> DEFINE P == {k \in 0 .. N : c[1 .. k] \in LockingClient}
<1>11. \A k \in 0 .. N : k \in P
  <2>1. 0 \in P
    <3>1. 1 .. 0 = {}
      OBVIOUS
    <3> QED
      BY <1>1, <1>9, <3>1
  <2>2. ASSUME NEW k \in 1 .. N, k - 1 \in P
        PROVE  k \in P
    <3>1. PICK d \in LockingClient : d = c[1 .. k - 1]
      BY <2>2
    <3> QED
      BY <1>1, <1>2, <1>10, <3>1
  <2>3. \A k \in 1 .. N : k - 1 \in P => k \in P
    BY <2>2
  <2> HIDE DEF P
  <2> QED
    BY <1>1, <2>1, <2>3, UpTo
<1>12. a \in [0 .. N -> LockingClient]
  BY <1>11
<1>13. a[0] = base /\ a[N] = c[1 .. N]
  <2>1. 1 .. 0 = {}
    OBVIOUS
  <2> QED
    BY <1>1, <1>9, <2>1
<1>14. \A k \in 1 .. N : a[k] = ReportFirst(a[k - 1], q[k])
  <2> TAKE k \in 1 .. N
  <2>1. a[k] = c[1 .. k] /\ a[k - 1] = c[1 .. k - 1]
    BY <1>1
  <2> HIDE DEF a
  <2> QED
    BY <1>10, <2>1
<1> HIDE DEF a
<1> QED
  BY <1>8, <1>12, <1>13, <1>14 DEF N

-----------------------------------------------------------------------------
(* What the folds do. *)

LEMMA CommitEntryDoes ==
    ASSUME NEW d \in Session, NEW x \in Entry, NEW r, r = CommitEntry(d, x)
    PROVE  /\ r \in Session /\ d.committed <= r.committed /\ x.id <= r.committed
           /\ r.committed = d.committed \/ (x.id # 0 /\ r.committed = x.id)
           /\ d.received <= r.received /\ (r.received = d.received \/ r.received = r.committed)
           /\ x.id = 0 => r = d
           /\ x.id # 0 => r.committed <= r.received
<1>1. x.id \in Nat /\ d.committed \in Nat /\ d.received \in Nat /\ r \in Session
  BY CommitEntryTyped DEF Entry, Session, Id
<1>2. CASE x.id = 0
  BY <1>1, <1>2 DEF CommitEntry
<1>3. CASE x.id # 0
  <2>1. PICK m \in Nat : m = Max({d.committed, x.id})
    BY <1>1, MaxOfTwo
  <2>2. m = IF d.committed >= x.id THEN d.committed ELSE x.id
    BY <1>1, <2>1, MaxOfTwo
  <2>3. r = IF d.received < m THEN [received |-> m, committed |-> m, outOfOrder |-> FALSE]
            ELSE [d EXCEPT !.committed = m]
    BY <1>3, <2>1 DEF CommitEntry, CommitId
  <2>4. r.committed = m /\ r.received = IF d.received < m THEN m ELSE d.received
    BY <1>1, <2>3 DEF Session
  <2> QED
    BY <1>1, <1>3, <2>2, <2>4
<1> QED
  BY <1>2, <1>3

\* A session from which b was made by commits of the first k entries of q
CommitsTo(b, q, k, r) ==
    /\ b.committed <= r.committed /\ \A i \in 1 .. k : q[i].id <= r.committed
    /\ r.committed = b.committed \/ \E i \in 1 .. k : q[i].id # 0 /\ q[i].id = r.committed
    /\ b.received <= r.received /\ (r.received = b.received \/ r.received = r.committed)
    /\ r.committed = b.committed \/ r.committed <= r.received
    /\ (\A i \in 1 .. k : q[i].id = 0) => r = b

LEMMA CommitsOn ==
    ASSUME NEW b \in Session, NEW q \in Seq(Entry), NEW k \in 1 .. Len(q), NEW d \in Session,
           CommitsTo(b, q, k - 1, d)
    PROVE  CommitsTo(b, q, k, CommitEntry(d, q[k]))
<1>1. PICK x \in Entry : x = q[k]
  BY ElementOfSeq, LenProperties
<1>2. PICK r : r = CommitEntry(d, x)
  OBVIOUS
<1>3. /\ r \in Session /\ d.committed <= r.committed /\ x.id <= r.committed
      /\ r.committed = d.committed \/ (x.id # 0 /\ r.committed = x.id)
      /\ d.received <= r.received /\ (r.received = d.received \/ r.received = r.committed)
      /\ x.id = 0 => r = d
      /\ x.id # 0 => r.committed <= r.received
  BY <1>2, CommitEntryDoes
<1>4. /\ r.committed \in Nat /\ r.received \in Nat /\ d.committed \in Nat /\ d.received \in Nat
      /\ b.committed \in Nat /\ b.received \in Nat
  BY <1>3 DEF Session, Id
<1>5. k \in Nat /\ k >= 1 /\ 1 .. k = (1 .. k - 1) \cup {k}
      /\ \A i \in 1 .. k : q[i].id \in Nat
  <2>1. \A i \in 1 .. k : q[i] \in Entry
    BY ElementOfSeq, LenProperties
  <2> QED
    BY <2>1, LenProperties DEF Entry, Id
<1>6. b.committed <= r.committed /\ \A i \in 1 .. k : q[i].id <= r.committed
  BY <1>1, <1>3, <1>4, <1>5 DEF CommitsTo
<1>7. r.committed = b.committed \/ \E i \in 1 .. k : q[i].id # 0 /\ q[i].id = r.committed
  BY <1>1, <1>3, <1>4, <1>5 DEF CommitsTo
<1>8. b.received <= r.received /\ (r.received = b.received \/ r.received = r.committed)
  <2>1. CASE x.id = 0
    BY <1>3, <2>1 DEF CommitsTo
  <2>2. CASE x.id # 0
    BY <1>3, <1>4, <2>2 DEF CommitsTo
  <2> QED
    BY <2>1, <2>2
<1>9. r.committed = b.committed \/ r.committed <= r.received
  BY <1>3, <1>4 DEF CommitsTo
<1>10. (\A i \in 1 .. k : q[i].id = 0) => r = b
  BY <1>1, <1>3, <1>5 DEF CommitsTo
<1>11. CommitsTo(b, q, k, r)
  BY <1>6, <1>7, <1>8, <1>9, <1>10 DEF CommitsTo
<1> QED
  BY <1>1, <1>2, <1>11

LEMMA CommitFold ==
    ASSUME NEW b \in Session, NEW q \in Seq(Entry)
    PROVE  /\ FoldLeft(CommitEntry, b, q) \in Session
           /\ CommitsTo(b, q, Len(q), FoldLeft(CommitEntry, b, q))
<1>1. PICK a \in [0 .. Len(q) -> Session] :
          /\ a[0] = b
          /\ \A k \in 1 .. Len(q) : a[k] = CommitEntry(a[k - 1], q[k])
          /\ FoldLeft(CommitEntry, b, q) = a[Len(q)]
  BY FoldCommit
<1>2. PICK N \in Nat : N = Len(q)
  BY LenProperties
<1> DEFINE P == {k \in 0 .. N : CommitsTo(b, q, k, a[k])}
<1>3. 0 \in P
  <2>1. b.committed \in Nat /\ b.received \in Nat /\ 1 .. 0 = {}
    BY DEF Session, Id
  <2> QED
    BY <1>1, <1>2, <2>1 DEF CommitsTo
<1>4. ASSUME NEW k \in 1 .. N, k - 1 \in P
      PROVE  k \in P
  <2>1. a[k - 1] \in Session /\ CommitsTo(b, q, k - 1, a[k - 1]) /\ k \in 1 .. Len(q)
    BY <1>2, <1>4
  <2>2. PICK d \in Session : d = a[k - 1]
    BY <2>1
  <2>3. CommitsTo(b, q, k, CommitEntry(d, q[k]))
    BY <2>1, <2>2, CommitsOn
  <2> QED
    BY <1>1, <1>2, <2>2, <2>3
<1>5. N \in P
  <2>1. \A k \in 1 .. N : k - 1 \in P => k \in P
    BY <1>4
  <2>2. N \in 0 .. N /\ N \in Nat
    OBVIOUS
  <2> HIDE DEF P
  <2>3. \A k \in 0 .. N : k \in P
    BY <1>3, <2>1, <2>2, UpTo
  <2> QED
    BY <2>2, <2>3
<1> QED
  BY <1>1, <1>2, <1>5

\* local_commit: what it commits, and what it makes of the session.
LEMMA LocalCommitIs ==
    ASSUME NEW e \in ServerState, NEW n \in Nat, NEW r, r = LocalCommit(e, n)
    PROVE  /\ r \in ServerState
           /\ r.leads = e.leads /\ r.term = e.term /\ r.leader = e.leader /\ r.log = e.log
           /\ e.commit <= r.commit /\ (r.commit = e.commit \/ (r.commit <= n /\ r.commit <= Len(e.log)))
           /\ e.session.committed <= r.session.committed
           /\ \A i \in e.commit + 1 .. r.commit : e.log[i].id <= r.session.committed
           /\ \/ r.session.committed = e.session.committed
              \/ \E i \in e.commit + 1 .. r.commit : e.log[i].id # 0 /\ e.log[i].id = r.session.committed
           /\ e.session.received <= r.session.received
           /\ r.session.received = e.session.received \/ r.session.received = r.session.committed
           /\ r.session.committed = e.session.committed \/ r.session.committed <= r.session.received
           /\ (\A i \in e.commit + 1 .. r.commit : e.log[i].id = 0) => r.session = e.session
<1>1. /\ e.session \in Session /\ e.log \in Seq(Entry) /\ e.commit \in Nat /\ Len(e.log) \in Nat
      /\ e.session.committed \in Nat /\ e.session.received \in Nat
  BY LenProperties DEF ServerState, Session, Id
<1>2. PICK last \in Nat : last = Min({n, Len(e.log)})
  BY <1>1, MinOfTwo
<1>3. last <= n /\ last <= Len(e.log)
  BY <1>1, <1>2, MinOfTwo
<1>4. CASE last <= e.commit
  <2>1. r = e
    BY <1>2, <1>4 DEF LocalCommit
  <2> QED
    BY <1>1, <2>1
<1>5. CASE e.commit < last
  <2>1. PICK q : q = SubSeq(e.log, e.commit + 1, last)
    OBVIOUS
  <2>2. /\ q \in Seq(Entry) /\ Len(q) = last - e.commit
        /\ \A i \in 1 .. last - e.commit : q[i] = e.log[e.commit + i]
    <3>1. e.commit + 1 \in 1 .. Len(e.log) /\ last \in e.commit + 1 .. Len(e.log)
      BY <1>1, <1>3, <1>5
    <3>2. PICK l \in Seq(Entry), m \in Nat : l = e.log /\ m = e.commit + 1
      BY <1>1
    <3>3. m \in 1 .. Len(l) /\ last \in m .. Len(l)
      BY <3>1, <3>2
    <3>4. /\ SubSeq(l, m, last) \in Seq(Entry) /\ Len(SubSeq(l, m, last)) = last - m + 1
          /\ \A i \in 1 .. last - m + 1 : SubSeq(l, m, last)[i] = l[m + i - 1]
      <4>1. \A i \in m .. last : l[i] \in Entry
        BY <1>1, <1>3, <3>3, ElementOfSeq, LenProperties
      <4>2. m \in Int /\ last \in Int /\ m <= last + 1
        BY <1>1, <3>2, <3>3
      <4> QED
        BY <4>1, <4>2, <1>3, <3>3, SubSeqProperties
    <3>5. last - m + 1 = last - e.commit /\ \A i \in Int : m + i - 1 = e.commit + i
      <4>1. PICK c \in Nat : c = e.commit /\ m = c + 1
        BY <1>1, <3>2
      <4>2. last - m + 1 = last - c /\ \A i \in Int : m + i - 1 = c + i
        BY <4>1
      <4> QED
        BY <4>1, <4>2
    <3>6. q = SubSeq(l, m, last)
      BY <2>1, <3>2
    <3>7. \A i \in 1 .. last - e.commit : q[i] = l[m + i - 1] /\ m + i - 1 = e.commit + i
      <4> TAKE i \in 1 .. last - e.commit
      <4>1. i \in 1 .. last - m + 1 /\ i \in Int
        <5>1. last - m + 1 \in Int
          OBVIOUS
        <5>2. i \in 1 .. last - m + 1
          BY <3>5, Zenon
        <5> QED
          BY <5>1, <5>2
      <4>2. SubSeq(l, m, last)[i] = l[m + i - 1]
        BY <3>4, <4>1
      <4> QED
        BY <3>5, <3>6, <4>1, <4>2
    <3> QED
      BY <3>2, <3>4, <3>5, <3>6, <3>7
  <2>3. PICK t : t = FoldLeft(CommitEntry, e.session, q)
    OBVIOUS
  <2>4. t \in Session /\ CommitsTo(e.session, q, Len(q), t)
    BY <1>1, <2>2, <2>3, CommitFold
  <2>5. r = [e EXCEPT !.commit = last, !.session = t]
    <3>1. ~(last <= e.commit)
      BY <1>1, <1>5
    <3> QED
      BY <1>2, <3>1, <2>1, <2>3, Zenon DEF LocalCommit
  <2>6. /\ r \in ServerState /\ r.commit = last /\ r.session = t
        /\ r.leads = e.leads /\ r.term = e.term /\ r.leader = e.leader /\ r.log = e.log
    BY <2>4, <2>5 DEF ServerState
  <2>7. \A i \in e.commit + 1 .. last : e.log[i] = q[i - e.commit] /\ i - e.commit \in 1 .. Len(q)
    <3>1. PICK c \in Nat : c = e.commit
      BY <1>1
    <3>2. \A i \in c + 1 .. last : i - c \in 1 .. last - c /\ c + (i - c) = i
      OBVIOUS
    <3> QED
      BY <2>2, <3>1, <3>2
  <2>8. \A i \in 1 .. Len(q) : q[i] = e.log[e.commit + i] /\ e.commit + i \in e.commit + 1 .. last
    BY <1>1, <2>2
  <2>9. /\ e.session.committed <= t.committed
        /\ \A i \in e.commit + 1 .. last : e.log[i].id <= t.committed
        /\ \/ t.committed = e.session.committed
           \/ \E i \in e.commit + 1 .. last : e.log[i].id # 0 /\ e.log[i].id = t.committed
        /\ e.session.received <= t.received
        /\ t.received = e.session.received \/ t.received = t.committed
        /\ t.committed = e.session.committed \/ t.committed <= t.received
        /\ (\A i \in e.commit + 1 .. last : e.log[i].id = 0) => t = e.session
    BY <2>4, <2>7, <2>8 DEF CommitsTo
  <2> QED
    BY <1>1, <1>3, <1>5, <2>6, <2>9
<1> QED
  BY <1>1, <1>4, <1>5

\* A publication appends what is next in order, one message after the other.
LEMMA TakeDoes ==
    ASSUME NEW d \in ServerState, NEW x \in Id, NEW r, r = Take(d, x)
    PROVE  /\ r \in ServerState /\ r.leads = d.leads /\ r.term = d.term /\ r.leader = d.leader
           /\ r.commit = d.commit /\ r.session.committed = d.session.committed
           /\ \/ r.log = d.log /\ r.session.received = d.session.received /\ x # d.session.received + 1
              \/ /\ x = d.session.received + 1 /\ r.session.received = x
                 /\ r.log = Append(d.log, [term |-> d.term, id |-> x])
<1>1. d.session \in Session /\ d.session.received \in Nat /\ x \in Nat
  BY DEF ServerState, Session, Id
<1>2. PICK z : z = Receive(d.session, x)
  OBVIOUS
<1>3. /\ z.committed = d.session.committed
      /\ z.received = IF x = d.session.received + 1 THEN x ELSE d.session.received
  BY <1>1, <1>2 DEF Receive, Session
<1>4. r = [d EXCEPT !.session = z,
                    !.log = IF z.received = d.session.received THEN d.log
                            ELSE Append(d.log, [term |-> d.term, id |-> x])]
  BY <1>2 DEF Take
<1>5. r \in ServerState
  BY TakeTyped
<1>6. /\ r.leads = d.leads /\ r.term = d.term /\ r.leader = d.leader /\ r.commit = d.commit
      /\ r.session = z
      /\ r.log = IF z.received = d.session.received THEN d.log
                 ELSE Append(d.log, [term |-> d.term, id |-> x])
  BY <1>4 DEF ServerState
<1> QED
  BY <1>1, <1>3, <1>5, <1>6

\* n is the last message in log l.
IsLast(l, n) ==
    /\ \A i \in 1 .. Len(l) : l[i].id <= n
    /\ n = 0 \/ \E i \in 1 .. Len(l) : l[i].id = n

\* The messages in log l are 1, 2, ... in this order, each once.
InOrder(l) ==
    \A i \in 1 .. Len(l) : l[i].id # 0 =>
        /\ \A j \in 1 .. i - 1 : l[j].id < l[i].id
        /\ l[i].id = 1 \/ \E j \in 1 .. i - 1 : l[j].id = l[i].id - 1

\* Log l goes on after log p, with ids of q.
Extends(l, p, q) ==
    /\ Len(p) <= Len(l) /\ \A i \in 1 .. Len(p) : l[i] = p[i]
    /\ \A i \in Len(p) + 1 .. Len(l) : \E k \in 1 .. Len(q) : l[i].id = q[k]

\* The state r of a server that has taken some of the messages q in state e
TakesTo(e, q, r) ==
    /\ r.leads = e.leads /\ r.term = e.term /\ r.leader = e.leader /\ r.commit = e.commit
    /\ r.session.committed = e.session.committed /\ e.session.received <= r.session.received
    /\ Extends(r.log, e.log, q)
    /\ (InOrder(e.log) /\ IsLast(e.log, e.session.received))
          => InOrder(r.log) /\ IsLast(r.log, r.session.received)
    /\ (e.session.received = 0 /\ \A k \in 1 .. Len(q) : q[k] # 1)
          => r.session.received = 0 /\ r.log = e.log

\* One more message, next in order, keeps the order.
LEMMA AppendInOrder ==
    ASSUME NEW l \in Seq(Entry), NEW x \in Entry, NEW n \in Nat, x.id = n + 1,
           InOrder(l), IsLast(l, n)
    PROVE  InOrder(Append(l, x)) /\ IsLast(Append(l, x), n + 1)
<1>1. PICK r, N : r = Append(l, x) /\ N = Len(l)
  OBVIOUS
<1>2. /\ N \in Nat /\ Len(r) = N + 1 /\ r[N + 1] = x /\ \A i \in 1 .. N : r[i] = l[i]
      /\ \A i \in 1 .. N : l[i].id \in Nat
  <2>1. \A i \in 1 .. N : l[i] \in Entry
    BY <1>1, ElementOfSeq, LenProperties
  <2> QED
    BY <1>1, <2>1, LenProperties, AppendProperties DEF Entry, Id
<1>3. IsLast(r, n + 1)
  BY <1>1, <1>2 DEF IsLast
<1>4. ASSUME NEW i \in 1 .. N + 1, r[i].id # 0
      PROVE  /\ \A j \in 1 .. i - 1 : r[j].id < r[i].id
             /\ r[i].id = 1 \/ \E j \in 1 .. i - 1 : r[j].id = r[i].id - 1
  <2>1. CASE i \in 1 .. N
    <3>1. r[i] = l[i] /\ \A j \in 1 .. i - 1 : j \in 1 .. N /\ r[j] = l[j]
      BY <1>2, <2>1
    <3> QED
      BY <1>1, <1>4, <2>1, <3>1 DEF InOrder
  <2>2. CASE i = N + 1
    <3>1. r[i].id = n + 1 /\ i - 1 = N
      BY <1>2, <2>2
    <3>2. \A j \in 1 .. N : r[j].id <= n /\ r[j].id \in Nat
      BY <1>1, <1>2 DEF IsLast
    <3>3. n = 0 \/ \E j \in 1 .. N : r[j].id = n
      BY <1>1, <1>2 DEF IsLast
    <3> QED
      BY <3>1, <3>2, <3>3
  <2> QED
    BY <1>2, <2>1, <2>2
<1> QED
  BY <1>1, <1>2, <1>3, <1>4 DEF InOrder

LEMMA TakesOn ==
    ASSUME NEW e \in ServerState, NEW q \in Seq(Id), NEW k \in 1 .. Len(q), NEW d \in ServerState,
           TakesTo(e, q, d)
    PROVE  TakesTo(e, q, Take(d, q[k]))
<1>1. PICK x \in Id : x = q[k]
  BY ElementOfSeq, LenProperties
<1>2. PICK r : r = Take(d, x)
  OBVIOUS
<1>3. /\ r \in ServerState /\ r.leads = d.leads /\ r.term = d.term /\ r.leader = d.leader
      /\ r.commit = d.commit /\ r.session.committed = d.session.committed
      /\ \/ r.log = d.log /\ r.session.received = d.session.received /\ x # d.session.received + 1
         \/ /\ x = d.session.received + 1 /\ r.session.received = x
            /\ r.log = Append(d.log, [term |-> d.term, id |-> x])
  BY <1>2, TakeDoes
<1>4. /\ d.session.received \in Nat /\ e.session.received \in Nat /\ r.session.received \in Nat
      /\ d.log \in Seq(Entry) /\ e.log \in Seq(Entry) /\ d.term \in Term
  BY <1>3 DEF ServerState, Session, Id
<1>5. CASE r.log = d.log /\ r.session.received = d.session.received
  <2>1. /\ d.leads = e.leads /\ d.term = e.term /\ d.leader = e.leader /\ d.commit = e.commit
        /\ d.session.committed = e.session.committed /\ e.session.received <= d.session.received
        /\ Extends(d.log, e.log, q)
        /\ (InOrder(e.log) /\ IsLast(e.log, e.session.received))
              => InOrder(d.log) /\ IsLast(d.log, d.session.received)
        /\ (e.session.received = 0 /\ \A j \in 1 .. Len(q) : q[j] # 1)
              => d.session.received = 0 /\ d.log = e.log
    BY DEF TakesTo
  <2>2. TakesTo(e, q, r)
    BY <1>3, <1>5, <2>1 DEF TakesTo
  <2> QED
    BY <1>1, <1>2, <2>2
<1>6. CASE /\ x = d.session.received + 1 /\ r.session.received = x
           /\ r.log = Append(d.log, [term |-> d.term, id |-> x])
  <2>1. PICK y \in Entry : y = [term |-> d.term, id |-> x]
    BY <1>4 DEF Entry
  <2>2. r.log = Append(d.log, y) /\ y.id = x
    BY <1>6, <2>1
  <2>3. Extends(r.log, e.log, q)
    <3>1. PICK l \in Seq(Entry), p \in Seq(Entry), N \in Nat, M \in Nat :
              l = d.log /\ p = e.log /\ N = Len(l) /\ M = Len(p)
      BY <1>4, LenProperties
    <3>2. /\ N \in Nat /\ M \in Nat /\ M <= N /\ \A i \in 1 .. M : l[i] = p[i]
          /\ \A i \in M + 1 .. N : \E j \in 1 .. Len(q) : l[i].id = q[j]
      BY <3>1, LenProperties DEF TakesTo, Extends
    <3>3. /\ Len(r.log) = N + 1 /\ r.log[N + 1] = y /\ \A i \in 1 .. N : r.log[i] = l[i]
      BY <2>2, <3>1, AppendProperties
    <3>4. \A i \in 1 .. M : r.log[i] = p[i]
      BY <3>2, <3>3
    <3>5. \A i \in M + 1 .. N + 1 : \E j \in 1 .. Len(q) : r.log[i].id = q[j]
      <4> TAKE i \in M + 1 .. N + 1
      <4>1. CASE i = N + 1
        BY <1>1, <2>2, <3>3, <4>1
      <4>2. CASE i # N + 1
        <5>1. i \in M + 1 .. N /\ i \in 1 .. N
          BY <3>2, <4>2
        <5> QED
          BY <3>2, <3>3, <5>1
      <4> QED
        BY <4>1, <4>2
    <3> QED
      BY <3>1, <3>2, <3>3, <3>4, <3>5 DEF Extends
  <2>4. (InOrder(e.log) /\ IsLast(e.log, e.session.received))
            => InOrder(r.log) /\ IsLast(r.log, r.session.received)
    <3> HAVE InOrder(e.log) /\ IsLast(e.log, e.session.received)
    <3>1. InOrder(d.log) /\ IsLast(d.log, d.session.received)
      BY DEF TakesTo
    <3>2. y.id = d.session.received + 1
      BY <1>6, <2>2
    <3>3. InOrder(Append(d.log, y)) /\ IsLast(Append(d.log, y), d.session.received + 1)
      BY <1>4, <3>1, <3>2, AppendInOrder
    <3> QED
      BY <1>6, <2>2, <3>3
  <2>5. (e.session.received = 0 /\ \A j \in 1 .. Len(q) : q[j] # 1)
            => r.session.received = 0 /\ r.log = e.log
    <3> HAVE e.session.received = 0 /\ \A j \in 1 .. Len(q) : q[j] # 1
    <3>1. d.session.received = 0 /\ x # 1
      BY <1>1 DEF TakesTo
    <3> QED
      BY <1>6, <3>1
  <2>6. /\ d.leads = e.leads /\ d.term = e.term /\ d.leader = e.leader /\ d.commit = e.commit
        /\ d.session.committed = e.session.committed /\ e.session.received <= d.session.received
    BY DEF TakesTo
  <2>7. TakesTo(e, q, r)
    BY <1>3, <1>4, <1>6, <2>3, <2>4, <2>5, <2>6 DEF TakesTo
  <2> QED
    BY <1>1, <1>2, <2>7
<1> QED
  BY <1>3, <1>5, <1>6

LEMMA TakesFirst ==
    ASSUME NEW e \in ServerState, NEW q
    PROVE  TakesTo(e, q, e)
<1>1. e.session.received \in Nat /\ e.log \in Seq(Entry) /\ Len(e.log) \in Nat
  BY LenProperties DEF ServerState, Session, Id
<1>2. Extends(e.log, e.log, q)
  BY <1>1 DEF Extends
<1> QED
  BY <1>1, <1>2 DEF TakesTo

LEMMA PublicationIs ==
    ASSUME NEW e \in ServerState, NEW m, m.ids \in Seq(Id)
    PROVE  Publication(e, m) \in ServerState /\ TakesTo(e, m.ids, Publication(e, m))
<1>1. PICK q \in Seq(Id) : q = m.ids
  OBVIOUS
<1>2. PICK a \in [0 .. Len(q) -> ServerState] :
          /\ a[0] = e
          /\ \A k \in 1 .. Len(q) : a[k] = Take(a[k - 1], q[k])
          /\ FoldLeft(Take, e, q) = a[Len(q)]
  BY FoldTake
<1>3. PICK N \in Nat : N = Len(q)
  BY LenProperties
<1> DEFINE P == {k \in 0 .. N : TakesTo(e, q, a[k])}
<1>4. 0 \in P
  BY <1>2, <1>3, TakesFirst
<1>5. ASSUME NEW k \in 1 .. N, k - 1 \in P
      PROVE  k \in P
  <2>1. PICK d \in ServerState : d = a[k - 1] /\ TakesTo(e, q, d) /\ k \in 1 .. Len(q)
    BY <1>2, <1>3, <1>5
  <2>2. TakesTo(e, q, Take(d, q[k]))
    BY <2>1, TakesOn
  <2> QED
    BY <1>2, <1>3, <2>1, <2>2
<1>6. N \in P
  <2>1. \A k \in 1 .. N : k - 1 \in P => k \in P
    BY <1>5
  <2> HIDE DEF P
  <2> QED
    BY <1>4, <2>1, UpTo, N \in 0 .. N
<1>7. Publication(e, m) = a[N]
  BY <1>1, <1>2, <1>3, Zenon DEF Publication
<1> QED
  BY <1>1, <1>2, <1>3, <1>6, <1>7

\* What client r has reported of what was known to be committed up to id, in state c
Reports(c, id, k, r) ==
    /\ r.next = c.next /\ r.leader = c.leader /\ r.link = c.link
    /\ r.committed = c.committed + k /\ c.sent <= r.sent
    /\ c.committed <= c.sent => r.committed <= r.sent
    /\ FlowFollows(c) => FlowFollows(r)

LEMMA RemoveCommittedIs ==
    ASSUME NEW c \in LockingClient, NEW id \in Id, NEW r, r = RemoveCommitted(c, id)
    PROVE  /\ r \in LockingClient /\ r.next = c.next /\ r.leader = c.leader /\ r.link = c.link
           /\ c.committed <= r.committed
           /\ r.committed = c.committed \/ (r.committed <= id /\ r.committed < c.next)
           /\ id < c.next => r.committed \in {c.committed, id}
           /\ c.sent <= r.sent /\ (c.committed <= c.sent => r.committed <= r.sent)
           /\ FlowFollows(c) => FlowFollows(r)
<1>1. c.committed \in Nat /\ c.sent \in Nat /\ c.next \in Nat /\ id \in Nat /\ c.committed \in Id
  BY PublishSessionAssumption DEF LockingClient, Client, Id
<1>2. PICK m \in Int : m = Min({id, c.next - 1})
  BY <1>1, MinOfTwo
<1>3. m <= id /\ m <= c.next - 1 /\ m \in {id, c.next - 1}
  BY <1>1, <1>2, MinOfTwo
<1>4. PICK b \in Nat : b = c.committed
  BY <1>1
<1>5. PICK N \in Nat : N = IF m > b THEN m - b ELSE 0
  BY <1>4
<1>6. PICK q : q = [i \in 1 .. N |-> b + i]
  OBVIOUS
<1>7. q \in Seq(Id) /\ Len(q) = N /\ \A i \in 1 .. N : q[i] = b + i
  <2>1. \A i \in 1 .. N : b + i \in Id
    <3>1. m <= MaxMessage /\ MaxMessage \in Nat
      BY <1>1, <1>3, PublishSessionAssumption DEF Id
    <3> QED
      BY <1>5, <3>1 DEF Id
  <2>2. q \in [1 .. N -> Id]
    BY <1>6, <2>1
  <2>3. q \in Seq(Id)
    BY <2>2
  <2> QED
    BY <1>6, <2>2, <2>3, LenProperties
<1>8. r = FoldLeft(ReportFirst, c, q)
  <2>1. 1 .. (Min({id, c.next - 1}) - c.committed) = 1 .. N
    BY <1>2, <1>4, <1>5
  <2>2. [i \in 1 .. Min({id, c.next - 1}) - c.committed |-> c.committed + i] = q
    BY <1>4, <1>6, <2>1
  <2> QED
    BY <2>2, Zenon DEF RemoveCommitted
<1>9. PICK a \in [0 .. Len(q) -> LockingClient] :
          /\ a[0] = c
          /\ \A k \in 1 .. Len(q) : a[k] = ReportFirst(a[k - 1], q[k])
          /\ FoldLeft(ReportFirst, c, q) = a[Len(q)]
  BY <1>7, FoldReport
<1> DEFINE P == {k \in 0 .. N : Reports(c, id, k, a[k])}
<1>10. 0 \in P
  BY <1>1, <1>9 DEF Reports
<1>11. ASSUME NEW k \in 1 .. N, k - 1 \in P
       PROVE  k \in P
  <2>1. PICK d \in LockingClient : d = a[k - 1] /\ Reports(c, id, k - 1, d)
    BY <1>7, <1>9, <1>11
  <2>2. d.sent \in Nat /\ d.committed \in Nat /\ d \in Client /\ q[k] \in Id /\ q[k] = b + k
    <3>1. q[k] \in Id
      BY <1>7, ElementOfSeq
    <3> QED
      BY <1>7, <3>1 DEF LockingClient, Client, Id
  <2>3. PICK s \in Id : s = Max({d.sent, q[k]}) /\ d.sent <= s /\ q[k] <= s
    <3>1. d.sent \in Id /\ q[k] \in Nat
      BY <2>2 DEF Id, LockingClient, Client
    <3> QED
      BY <2>2, <3>1, MaxOfTwo DEF Id
  <2>4. PICK f : f = [d EXCEPT !.committed = q[k], !.sent = s]
    OBVIOUS
  <2>5. /\ f \in LockingClient /\ f.committed = b + k /\ f.sent = s
        /\ f.next = d.next /\ f.leader = d.leader /\ f.link = d.link
    BY <2>2, <2>4 DEF LockingClient, Client
  <2>6. a[k] = CheckFlow(f)
    BY <1>7, <1>9, <2>1, <2>3, <2>4 DEF ReportFirst
  <2>7. /\ FlowFollows(a[k])
        /\ \A g \in {"next", "sent", "committed", "leader", "link"} : a[k][g] = f[g]
    BY <2>5, <2>6, CheckFlowFollows
  <2>8. /\ a[k].next = f.next /\ a[k].sent = f.sent /\ a[k].committed = f.committed
        /\ a[k].leader = f.leader /\ a[k].link = f.link
    BY <2>7
  <2>9. Reports(c, id, k, a[k])
    <3>1. /\ d.next = c.next /\ d.leader = c.leader /\ d.link = c.link /\ c.sent <= d.sent
      BY <2>1 DEF Reports
    <3>2. c.sent <= s /\ b + k <= s /\ s \in Nat
      BY <1>1, <2>2, <2>3, <3>1 DEF Id
    <3> QED
      BY <1>4, <2>5, <2>7, <2>8, <3>1, <3>2 DEF Reports
  <2> QED
    BY <2>9
<1>12. N \in P
  <2>1. \A k \in 1 .. N : k - 1 \in P => k \in P
    BY <1>11
  <2>2. N \in 0 .. N /\ N \in Nat
    OBVIOUS
  <2> HIDE DEF P
  <2>3. \A k \in 0 .. N : k \in P
    BY <1>10, <2>1, <2>2, UpTo
  <2> QED
    BY <2>2, <2>3
<1>13. r \in LockingClient /\ Reports(c, id, N, r)
  BY <1>7, <1>8, <1>9, <1>12
<1>14. /\ r.next = c.next /\ r.leader = c.leader /\ r.link = c.link
       /\ r.committed = b + N /\ c.sent <= r.sent
       /\ c.committed <= c.sent => r.committed <= r.sent
       /\ FlowFollows(c) => FlowFollows(r)
  BY <1>4, <1>13 DEF Reports
<1>15. N = 0 \/ (b + N <= id /\ b + N < c.next)
  BY <1>1, <1>3, <1>5
<1>16. id < c.next => b + N \in {b, id}
  BY <1>1, <1>3, <1>5
<1> QED
  BY <1>4, <1>13, <1>14, <1>15, <1>16

\* What a new leader takes over from its voters
LEMMA TransientIs ==
    ASSUME NEW e \in ServerState, NEW voters \in SUBSET ServerState,
           NEW r, r = ApplyTransientState(e, voters)
    PROVE  /\ r \in ServerState /\ r.leads = e.leads /\ r.term = e.term /\ r.leader = e.leader
           /\ r.log = e.log /\ r.commit = e.commit
           /\ \E v \in voters \cup {e} : r.session.committed = v.session.committed
           /\ e.session.committed <= r.session.committed
           /\ \E least \in Nat : least <= e.commit /\
                 \/ /\ \A i \in least + 1 .. Len(e.log) : e.log[i].id = 0
                    /\ e.session.received <= r.session.received
                    /\ \/ r.session.received = e.session.received
                       \/ r.session.received = r.session.committed
                 \/ \E j \in least + 1 .. Len(e.log) :
                       /\ e.log[j].id # 0 /\ r.session.received = e.log[j].id
                       /\ \A i \in j + 1 .. Len(e.log) : e.log[i].id = 0
<1>1. /\ e.session \in Session /\ e.log \in Seq(Entry) /\ e.commit \in Nat /\ Len(e.log) \in Nat
      /\ e.session.committed \in Nat /\ e.session.received \in Nat
      /\ \A i \in 1 .. Len(e.log) : e.log[i].id \in Id
      /\ MaxMessage \in Nat /\ Id = 0 .. MaxMessage
  <2>1. \A i \in 1 .. Len(e.log) : e.log[i] \in Entry
    BY ElementOfSeq, LenProperties DEF ServerState
  <2>2. e.session \in Session /\ e.log \in Seq(Entry) /\ e.commit \in Nat /\ Len(e.log) \in Nat
    BY LenProperties DEF ServerState
  <2>3. MaxMessage \in Nat /\ Id = 0 .. MaxMessage
    BY PublishSessionAssumption DEF Id
  <2>4. e.session.committed \in Nat /\ e.session.received \in Nat
    BY <2>2, <2>3 DEF Session
  <2>5. \A i \in 1 .. Len(e.log) : e.log[i].id \in Id
    BY <2>1 DEF Entry
  <2> QED
    BY <2>2, <2>3, <2>4, <2>5
<1>2. \A v \in voters \cup {e} : v \in ServerState /\ v.session.committed \in Id /\ v.commit \in Nat
  BY DEF ServerState, Session
<1>3. PICK known \in Id : /\ known = Max({v.session.committed : v \in voters \cup {e}})
                          /\ known \in {v.session.committed : v \in voters \cup {e}}
                          /\ e.session.committed <= known
  <2> DEFINE S == {v.session.committed : v \in voters \cup {e}}
  <2>1. S \in SUBSET (0 .. MaxMessage) /\ e.session.committed \in S
    BY <1>1, <1>2
  <2>2. Max(S) \in S /\ \A y \in S : Max(S) >= y
    <3> HIDE DEF S
    <3> QED
      BY <1>1, <2>1, MaxIsReached
  <2>3. PICK m \in S : m = Max(S) /\ \A y \in S : m >= y
    BY <2>2
  <2> QED
    BY <1>1, <2>1, <2>3
<1>4. PICK least \in Nat : /\ least = Min({v.commit : v \in voters \cup {e}})
                           /\ least <= e.commit
  <2> DEFINE S == {v.commit : v \in voters \cup {e}}
  <2>1. S \in SUBSET Nat /\ e.commit \in S
    BY <1>2
  <2>2. Min(S) \in S /\ \A y \in S : Min(S) <= y
    <3> HIDE DEF S
    <3> QED
      BY <2>1, MinIsReached
  <2> QED
    BY <2>1, <2>2
<1>5. PICK raised : raised = RaiseCommitted(e, voters)
  OBVIOUS
<1>6. /\ raised \in ServerState /\ raised.leads = e.leads /\ raised.term = e.term
      /\ raised.leader = e.leader /\ raised.log = e.log /\ raised.commit = e.commit
      /\ raised.session.committed = known /\ e.session.received <= raised.session.received
      /\ \/ raised.session.received = e.session.received
         \/ raised.session.received = known
  <2>1. CASE e.session.committed < known
    <3>1. raised = [e EXCEPT !.session = CommitId(e.session, known)]
      BY <1>3, <1>5, <2>1, Zenon DEF RaiseCommitted
    <3>2. Max({e.session.committed, known}) = known
      BY <1>1, <2>1, MaxOfTwo
    <3>3. PICK z : z = CommitId(e.session, known)
      OBVIOUS
    <3>4. z = IF e.session.received < known
              THEN [received |-> known, committed |-> known, outOfOrder |-> FALSE]
              ELSE [e.session EXCEPT !.committed = known]
      BY <3>2, <3>3 DEF CommitId
    <3>5. /\ z \in Session /\ z.committed = known /\ e.session.received <= z.received
          /\ z.received = e.session.received \/ z.received = known
      BY <1>1, <3>4 DEF Session
    <3>6. raised = [e EXCEPT !.session = z]
      BY <3>1, <3>3
    <3> QED
      BY <3>5, <3>6 DEF ServerState
  <2>2. CASE ~(e.session.committed < known)
    <3>1. raised = e
      BY <1>3, <1>5, <2>2, Zenon DEF RaiseCommitted
    <3> QED
      BY <1>1, <1>3, <2>2, <3>1
  <2> QED
    BY <2>1, <2>2
<1>7. PICK after : after = {i \in least + 1 .. Len(e.log) : e.log[i].id # 0}
  OBVIOUS
<1>8. CASE after = {}
  <2>1. r = raised
    BY <1>4, <1>5, <1>7, <1>8, Zenon DEF ApplyTransientState
  <2>2. \A i \in least + 1 .. Len(e.log) : e.log[i].id = 0
    BY <1>7, <1>8
  <2> QED
    BY <1>3, <1>4, <1>6, <2>1, <2>2
<1>9. CASE after # {}
  <2>1. PICK j \in after : j = Max(after) /\ \A i \in after : j >= i
    <3>1. after \in SUBSET (0 .. Len(e.log))
      <4>1. \A i \in after : i \in least + 1 .. Len(e.log)
        BY <1>7
      <4>2. PICK N \in Nat : N = Len(e.log)
        BY <1>1
      <4>3. \A i \in least + 1 .. N : i \in 0 .. N
        OBVIOUS
      <4> QED
        BY <4>1, <4>2, <4>3
    <3>2. Max(after) \in after /\ \A i \in after : Max(after) >= i
      BY <1>1, <1>9, <3>1, MaxIsReached
    <3> QED
      BY <3>2
  <2>2. r = [raised EXCEPT !.session.received = e.log[j].id]
    BY <1>4, <1>5, <1>7, <1>9, <2>1, Zenon DEF ApplyTransientState
  <2>3. j \in least + 1 .. Len(e.log) /\ j \in 1 .. Len(e.log) /\ e.log[j].id # 0 /\ e.log[j].id \in Id
    BY <1>1, <1>7
  <2>4. \A i \in j + 1 .. Len(e.log) : e.log[i].id = 0
    <3> SUFFICES ASSUME NEW i \in j + 1 .. Len(e.log), e.log[i].id # 0
                 PROVE  FALSE
      OBVIOUS
    <3>1. i \in after /\ i > j
      BY <1>1, <1>7, <2>3
    <3> QED
      BY <1>1, <2>1, <2>3, <3>1
  <2>5. /\ r \in ServerState /\ r.leads = e.leads /\ r.term = e.term
        /\ r.leader = e.leader /\ r.log = e.log /\ r.commit = e.commit
        /\ r.session.committed = known /\ r.session.received = e.log[j].id
    BY <1>6, <2>2, <2>3 DEF ServerState, Session
  <2> QED
    BY <1>3, <1>4, <2>3, <2>4, <2>5
<1> QED
  BY <1>8, <1>9

-----------------------------------------------------------------------------
(* Types, and the flow of the client. *)

\* A client with a message sender knows whom it sends to.
Linked(c) == c.link = "down" \/ c.leader \in Server

TypeInv == TypeOK /\ FlowFollowsQueue /\ Linked(client)

LEMMA ClientLocks == TypeInv => client \in LockingClient /\ FlowFollows(client)
  BY DEF TypeInv, TypeOK, FlowFollowsQueue, LockingClient, FlowFollows

\* The new state of the leader that an election makes
NewLeader(s, Q, t) ==
    LET e == ApplyTransientState([srv[s] EXCEPT !.leads = TRUE, !.term = t, !.leader = s],
                                 {srv[q] : q \in Q \ {s}})
    IN  IF e.commit = 0 THEN [e EXCEPT !.log = Append(e.log, [term |-> t, id |-> 0])] ELSE e

LEMMA ElectIs ==
    ASSUME TypeOK, NEW s \in Server, NEW Q \in SUBSET Server, Elect(s, Q)
    PROVE  \E t \in Term :
              /\ srv' = [q \in Server |-> IF q = s THEN NewLeader(s, Q, t)
                                          ELSE IF q \in Q THEN [srv[q] EXCEPT !.leads = FALSE, !.term = t]
                                          ELSE srv[q]]
              /\ [srv[s] EXCEPT !.leads = TRUE, !.term = t, !.leader = s] \in ServerState
              /\ NewLeader(s, Q, t) \in ServerState /\ NewLeader(s, Q, t).leads
              /\ ~srv[s].leads /\ UNCHANGED <<client, net, faults>>
<1> DEFINE T == {srv[q].term : q \in Q}
           t == 1 + Max(T)
<1>1. t \in Term
  <2>1. T \in SUBSET (0 .. MaxTerm) /\ srv[s].term \in T /\ MaxTerm \in Nat
    <3>1. \A q \in Server : srv[q].term \in 0 .. MaxTerm
      BY DEF TypeOK, ServerState, Term
    <3>2. s \in Q
      BY DEF Elect
    <3> QED
      BY <3>1, <3>2, PublishSessionAssumption
  <2>2. Max(T) \in T /\ \A y \in T : Max(T) >= y
    <3> HIDE DEF T
    <3> QED
      BY <2>1, MaxIsReached
  <2>3. t <= MaxTerm
    BY DEF Elect
  <2>4. PICK m \in 0 .. MaxTerm : m = Max(T)
    BY <2>1, <2>2
  <2> QED
    BY <2>1, <2>3, <2>4 DEF Term
<1>2. PICK u \in Term : u = t
  BY <1>1
<1>3. /\ srv' = [q \in Server |-> IF q = s THEN NewLeader(s, Q, u)
                                  ELSE IF q \in Q THEN [srv[q] EXCEPT !.leads = FALSE, !.term = u]
                                  ELSE srv[q]]
      /\ ~srv[s].leads /\ UNCHANGED <<client, net, faults>>
  BY <1>2, Zenon DEF Elect, NewLeader
<1>4. PICK b : b = [srv[s] EXCEPT !.leads = TRUE, !.term = u, !.leader = s]
  OBVIOUS
<1>5. b \in ServerState /\ b.leads = TRUE
  BY <1>4 DEF TypeOK, ServerState
<1>6. {srv[q] : q \in Q \ {s}} \in SUBSET ServerState
  BY DEF TypeOK
<1>7. PICK e : e = ApplyTransientState(b, {srv[q] : q \in Q \ {s}})
  OBVIOUS
<1>8. e \in ServerState /\ e.leads = b.leads
  BY <1>5, <1>6, <1>7, TransientIs
<1>9. NewLeader(s, Q, u) = IF e.commit = 0 THEN [e EXCEPT !.log = Append(e.log, [term |-> u, id |-> 0])]
                           ELSE e
  BY <1>4, <1>7, Zenon DEF NewLeader
<1>10. [term |-> u, id |-> 0] \in Entry
  BY PublishSessionAssumption DEF Entry, Id
<1>11. Append(e.log, [term |-> u, id |-> 0]) \in Seq(Entry)
  BY <1>8, <1>10 DEF ServerState
<1>12. NewLeader(s, Q, u) \in ServerState /\ NewLeader(s, Q, u).leads
  BY <1>5, <1>8, <1>9, <1>11 DEF ServerState
<1> QED
  BY <1>3, <1>4, <1>5, <1>12

LEMMA InitTypes == Init => TypeInv
<1> SUFFICES ASSUME Init
             PROVE  TypeInv
  OBVIOUS
<1>1. /\ MaxMessage \in Nat /\ MaxTerm \in Nat /\ MaxFaults \in Nat /\ LockCapacity \in Nat
      /\ UnlockCapacity \in Nat /\ LockCapacity > 0
  BY PublishSessionAssumption
<1>2. <<>> \in Seq(Entry) /\ NewSession \in Session
  BY <1>1 DEF NewSession, Session, Id
<1>3. srv \in [Server -> ServerState]
  BY <1>1, <1>2 DEF Init, ServerState, Term
<1>4. client \in Client
  BY <1>1 DEF Init, Client, Id
<1>5. FlowFollowsQueue
  BY <1>1 DEF Init, FlowFollowsQueue, QueueLen
<1>6. net \subseteq (Request \cup Response) /\ faults \in 0 .. MaxFaults /\ Linked(client)
  BY <1>1 DEF Init, Linked
<1> QED
  BY <1>3, <1>4, <1>5, <1>6 DEF TypeInv, TypeOK

\* A step of the servers leaves the client alone.
LEMMA FlowStays ==
    ASSUME FlowFollowsQueue, Linked(client), UNCHANGED client
    PROVE  FlowFollowsQueue' /\ Linked(client)'
  BY DEF FlowFollowsQueue, QueueLen, Linked

LEMMA GroupStepTypes ==
    ASSUME TypeInv, NEW s \in Server,
           \/ \E Q \in SUBSET Server : Elect(s, Q)
           \/ \E f \in Server : Replicate(s, f)
           \/ Commit(s) \/ StepDown(s) \/ SessionTimesOut(s)
    PROVE  TypeInv'
<1>1. TypeOK /\ FlowFollowsQueue /\ Linked(client) /\ srv \in [Server -> ServerState]
  BY DEF TypeInv, TypeOK
<1>2. \A q \in Server : /\ srv[q] \in ServerState /\ srv[q].log \in Seq(Entry) /\ srv[q].commit \in Nat
                        /\ srv[q].term \in Term
  BY <1>1 DEF ServerState
<1>3. ASSUME NEW Q \in SUBSET Server, Elect(s, Q)
      PROVE  TypeInv'
  <2>1. PICK t \in Term :
              /\ srv' = [q \in Server |-> IF q = s THEN NewLeader(s, Q, t)
                                          ELSE IF q \in Q THEN [srv[q] EXCEPT !.leads = FALSE, !.term = t]
                                          ELSE srv[q]]
              /\ NewLeader(s, Q, t) \in ServerState
              /\ UNCHANGED <<client, net, faults>>
    <3>1. \E t \in Term :
              /\ srv' = [q \in Server |-> IF q = s THEN NewLeader(s, Q, t)
                                          ELSE IF q \in Q THEN [srv[q] EXCEPT !.leads = FALSE, !.term = t]
                                          ELSE srv[q]]
              /\ [srv[s] EXCEPT !.leads = TRUE, !.term = t, !.leader = s] \in ServerState
              /\ NewLeader(s, Q, t) \in ServerState /\ NewLeader(s, Q, t).leads
              /\ ~srv[s].leads /\ UNCHANGED <<client, net, faults>>
      BY <1>1, <1>3, ElectIs, Zenon
    <3> QED
      BY <3>1, Zenon
  <2>2. \A q \in Server : [srv[q] EXCEPT !.leads = FALSE, !.term = t] \in ServerState
    BY <1>2 DEF ServerState
  <2>3. srv' \in [Server -> ServerState]
    BY <1>2, <2>1, <2>2
  <2> QED
    BY <1>1, <2>1, <2>3, FlowStays DEF TypeInv, TypeOK
<1>4. ASSUME NEW f \in Server, Replicate(s, f)
      PROVE  TypeInv'
  <2>1. PICK e : e = [srv[f] EXCEPT !.leads = FALSE, !.term = srv[s].term, !.leader = s, !.log = srv[s].log]
    OBVIOUS
  <2>2. e \in ServerState
    BY <1>2, <2>1 DEF ServerState
  <2>3. srv' = [srv EXCEPT ![f] = LocalCommit(e, srv[s].commit)] /\ UNCHANGED <<client, net, faults>>
    BY <1>4, <2>1, Zenon DEF Replicate
  <2>4. PICK z : z = LocalCommit(e, srv[s].commit)
    OBVIOUS
  <2>5. z \in ServerState
    BY <1>2, <2>2, <2>4, LocalCommitIs
  <2>6. srv' \in [Server -> ServerState]
    BY <1>1, <2>3, <2>4, <2>5
  <2> QED
    BY <1>1, <2>3, <2>6, FlowStays DEF TypeInv, TypeOK
<1>5. ASSUME Commit(s)
      PROVE  TypeInv'
  <2>1. PICK i \in srv[s].commit + 1 .. Len(srv[s].log) :
            srv' = [srv EXCEPT ![s] = LocalCommit(srv[s], i)]
    BY <1>5 DEF Commit
  <2>2. i \in Nat
    BY <1>2, LenProperties
  <2>3. PICK z : z = LocalCommit(srv[s], i)
    OBVIOUS
  <2>4. z \in ServerState
    BY <1>2, <2>2, <2>3, LocalCommitIs
  <2>5. srv' \in [Server -> ServerState] /\ UNCHANGED <<client, net, faults>>
    BY <1>1, <1>5, <2>1, <2>3, <2>4 DEF Commit
  <2> QED
    BY <1>1, <2>5, FlowStays DEF TypeInv, TypeOK
<1>6. CASE StepDown(s)
  <2>1. srv' \in [Server -> ServerState] /\ UNCHANGED <<client, net>>
    BY <1>1, <1>2, <1>6 DEF StepDown, ServerState
  <2>2. faults' \in 0 .. MaxFaults
    BY <1>1, <1>6, PublishSessionAssumption DEF StepDown, TypeOK
  <2> QED
    BY <1>1, <2>1, <2>2, FlowStays DEF TypeInv, TypeOK
<1>7. CASE SessionTimesOut(s)
  <2>1. NewSession \in Session
    BY PublishSessionAssumption DEF NewSession, Session, Id
  <2>2. srv' \in [Server -> ServerState] /\ UNCHANGED <<client, net>>
    BY <1>1, <1>2, <1>7, <2>1 DEF SessionTimesOut, ServerState
  <2>3. faults' \in 0 .. MaxFaults
    BY <1>1, <1>7, PublishSessionAssumption DEF SessionTimesOut, TypeOK
  <2> QED
    BY <1>1, <2>2, <2>3, FlowStays DEF TypeInv, TypeOK
<1> QED
  BY <1>3, <1>4, <1>5, <1>6, <1>7

LEMMA AnswerTyped ==
    ASSUME NEW s \in Server, NEW e \in ServerState, NEW accepted \in BOOLEAN
    PROVE  Answer(s, e, accepted) \in Response
<1>1. NewSession \in Session
  BY PublishSessionAssumption DEF NewSession, Session, Id
<1> QED
  BY <1>1 DEF Answer, Response, ServerState

LEMMA NetMember ==
    ASSUME TypeOK, NEW m \in net
    PROVE  /\ m.type \in {"Publish", "Restart"} => m \in Request
           /\ m.type = "Response" => m \in Response
  BY DEF TypeOK, Request, Response

LEMMA RequestStepTypes ==
    ASSUME TypeInv, NEW m \in net, HandleRequest(m)
    PROVE  TypeInv'
<1>1. TypeOK /\ FlowFollowsQueue /\ Linked(client) /\ srv \in [Server -> ServerState]
  BY DEF TypeInv, TypeOK
<1>2. m \in Request /\ m.type \in {"Publish", "Restart"}
  BY <1>1, NetMember DEF HandleRequest
<1>3. PICK s \in Server : s = m.to
  BY <1>2 DEF Request
<1>4. m.ids \in Seq(Id) /\ m.sent \in Id /\ srv[s] \in ServerState
  BY <1>1, <1>2 DEF Request
<1>5. PICK e : e = IF m.type = "Publish" THEN Publication(srv[s], m) ELSE Restart(srv[s], m)
  OBVIOUS
<1>6. e \in ServerState
  <2>1. CASE m.type = "Publish"
    BY <1>4, <1>5, <2>1, PublicationIs
  <2>2. CASE m.type # "Publish"
    <3>1. e = [srv[s] EXCEPT !.session.received = m.sent, !.session.outOfOrder = FALSE]
      BY <1>5, <2>2 DEF Restart
    <3> QED
      BY <1>4, <3>1 DEF ServerState, Session
  <2> QED
    BY <2>1, <2>2
<1>7. /\ IF srv[s].leads
         THEN srv' = [srv EXCEPT ![s] = e] /\ net' = (net \ {m}) \cup {Answer(s, e, TRUE)}
         ELSE net' = (net \ {m}) \cup {Answer(s, srv[s], FALSE)} /\ UNCHANGED srv
      /\ UNCHANGED <<client, faults>>
  BY <1>3, <1>5, Zenon DEF HandleRequest
<1>8. Answer(s, e, TRUE) \in Response /\ Answer(s, srv[s], FALSE) \in Response
  BY <1>4, <1>6, AnswerTyped
<1>9. srv' \in [Server -> ServerState] /\ net' \subseteq (Request \cup Response)
  BY <1>1, <1>6, <1>7, <1>8 DEF TypeOK
<1> QED
  BY <1>1, <1>7, <1>9, FlowStays DEF TypeInv, TypeOK

\* A client with the same queue and lock
SameFlow(c, d) ==
    /\ d.next = c.next /\ d.committed = c.committed /\ d.locked = c.locked /\ d.lock = c.lock

LEMMA SameFlowFollows ==
    ASSUME NEW c, NEW d, SameFlow(c, d), FlowFollows(c)
    PROVE  FlowFollows(d)
  BY DEF SameFlow, FlowFollows, QueueLen

LEMMA LockingIs ==
    ASSUME NEW c
    PROVE  /\ c \in Client /\ FlowFollows(c) => c \in LockingClient
           /\ c \in LockingClient => c \in Client
  BY DEF LockingClient, FlowFollows

LEMMA ClientHelpers ==
    ASSUME NEW c \in Client, NEW s \in Server
    PROVE  /\ Disconnected(c) \in Client /\ SameFlow(c, Disconnected(c))
           /\ Connected(c, s) \in Client /\ SameFlow(c, Connected(c, s))
           /\ Connected(c, s).sent = c.sent
           /\ Disconnected(c).sent \in {c.sent, c.committed}
           /\ Linked(c) => Disconnected(c).link = "down"
           /\ Linked(c) => Linked(Connected(c, s))
<1>1. /\ Disconnected(c) = IF c.leader = NoServer THEN c
                           ELSE [c EXCEPT !.leader = NoServer, !.link = "down", !.sent = c.committed]
      /\ Connected(c, s) = IF c.link = "down" THEN [c EXCEPT !.leader = s, !.link = "busy"]
                           ELSE [c EXCEPT !.link = "busy"]
  BY DEF Disconnected, Connected
<1>2. /\ Disconnected(c) \in Client /\ SameFlow(c, Disconnected(c))
      /\ Disconnected(c).sent \in {c.sent, c.committed}
  <2>1. CASE c.leader = NoServer
    BY <1>1, <2>1 DEF SameFlow
  <2>2. CASE c.leader # NoServer
    <3>1. PICK d : d = [c EXCEPT !.leader = NoServer, !.link = "down", !.sent = c.committed]
      OBVIOUS
    <3>2. d \in Client /\ SameFlow(c, d) /\ d.sent = c.committed
      BY <3>1 DEF Client, SameFlow
    <3> QED
      BY <1>1, <2>2, <3>1, <3>2
  <2> QED
    BY <2>1, <2>2
<1>3. /\ Connected(c, s) \in Client /\ SameFlow(c, Connected(c, s))
      /\ Connected(c, s).sent = c.sent
  <2>1. PICK d : d = [c EXCEPT !.leader = s, !.link = "busy"]
    OBVIOUS
  <2>2. d \in Client /\ SameFlow(c, d) /\ d.sent = c.sent
    BY <2>1 DEF Client, SameFlow
  <2>3. PICK g : g = [c EXCEPT !.link = "busy"]
    OBVIOUS
  <2>4. g \in Client /\ SameFlow(c, g) /\ g.sent = c.sent
    BY <2>3 DEF Client, SameFlow
  <2>5. Connected(c, s) = IF c.link = "down" THEN d ELSE g
    BY <1>1, <2>1, <2>3
  <2> QED
    BY <2>2, <2>4, <2>5
<1>4. Linked(c) => Disconnected(c).link = "down"
  BY <1>1, PublishSessionAssumption DEF Client, Linked
<1>5. Linked(c) => Linked(Connected(c, s))
  BY <1>1 DEF Client, Linked
<1> QED
  BY <1>2, <1>3, <1>4, <1>5

LEMMA BatchIs ==
    ASSUME NEW c \in Client
    PROVE  /\ Batch(c) \in Seq(Id)
           /\ \A i \in 1 .. Len(Batch(c)) : c.sent < Batch(c)[i] /\ Batch(c)[i] < c.next
<1>1. /\ c.sent \in Nat /\ c.next \in Nat /\ c.next <= MaxMessage + 1 /\ MaxMessage \in Nat
      /\ MaxBatch \in Nat
  BY PublishSessionAssumption DEF Client, Id
<1>2. PICK m \in Int : m = Min({MaxBatch, c.next - 1 - c.sent}) /\ m <= c.next - 1 - c.sent
  BY <1>1, MinOfTwo
<1>3. PICK b \in Nat : b = c.sent
  BY <1>1
<1>4. PICK N \in Nat : N = IF m > 0 THEN m ELSE 0
  BY <1>2
<1>5. 1 .. m = 1 .. N
  BY <1>2, <1>4
<1>6. PICK q : q = [i \in 1 .. N |-> b + i]
  OBVIOUS
<1>7. Batch(c) = q
  BY <1>2, <1>3, <1>5, <1>6 DEF Batch
<1>8. \A i \in 1 .. N : b + i \in Id /\ b < b + i /\ b + i < c.next
  BY <1>1, <1>2, <1>3, <1>4 DEF Id
<1>9. q \in [1 .. N -> Id] /\ \A i \in 1 .. N : q[i] = b + i
  BY <1>6, <1>8
<1>10. q \in Seq(Id) /\ Len(q) = N
  BY <1>6, <1>9
<1> QED
  BY <1>3, <1>7, <1>8, <1>9, <1>10

\* What the client sends is a request.
LEMMA SentTyped ==
    ASSUME NEW s \in Server, NEW q \in Seq(Id), NEW n \in Id
    PROVE  /\ PublishRequest(s, q) \in Request
           /\ [type |-> "Restart", to |-> s, ids |-> <<>>, sent |-> n] \in Request
<1>1. 0 \in Id /\ <<>> \in Seq(Id)
  BY PublishSessionAssumption DEF Id
<1> QED
  BY <1>1 DEF PublishRequest, Request

\* The client of a step keeps its types and follows its queue.
LEMMA ClientFollows ==
    ASSUME client' \in Client, FlowFollows(client'), Linked(client'), UNCHANGED srv,
           TypeOK, net' \subseteq (Request \cup Response), faults' \in 0 .. MaxFaults
    PROVE  TypeInv'
<1>1. FlowFollowsQueue' /\ Linked(client)'
  BY DEF FlowFollows, FlowFollowsQueue, QueueLen, Linked
<1> QED
  BY <1>1 DEF TypeInv, TypeOK

\* A client in a state of the same flow follows too.
LEMMA SameFlowOk ==
    ASSUME TypeInv, NEW d \in Client, SameFlow(client, d), Linked(d), client' = d, UNCHANGED srv,
           net' \subseteq (Request \cup Response), faults' \in 0 .. MaxFaults
    PROVE  TypeInv'
<1>1. TypeOK /\ FlowFollows(client)
  BY ClientLocks DEF TypeInv
<1>2. FlowFollows(d)
  BY <1>1, SameFlowFollows
<1> QED
  BY <1>1, <1>2, ClientFollows

LEMMA ClientStepTypes ==
    ASSUME TypeInv, Publish \/ Process \/ Heartbeat \/ LoseConnection \/ LeaderTimeout
    PROVE  TypeInv'
<1>1. /\ TypeOK /\ FlowFollows(client) /\ client \in Client /\ client \in LockingClient
      /\ net \subseteq (Request \cup Response) /\ Linked(client) /\ faults \in 0 .. MaxFaults
  BY ClientLocks DEF TypeInv, TypeOK
<1>2. ASSUME Publish
      PROVE  TypeInv'
  <2>1. PICK c : c = [client EXCEPT !.next = client.next + 1]
    OBVIOUS
  <2>2. client.next \in Id \cup {MaxMessage + 1} /\ client.next <= MaxMessage
    BY <1>1, <1>2 DEF Client, Publish
  <2>3. client.next + 1 \in Id \cup {MaxMessage + 1}
    BY <2>2, PublishSessionAssumption DEF Id
  <2>4. c \in LockingClient /\ Linked(c)
    BY <1>1, <2>1, <2>3 DEF LockingClient, Client, Linked
  <2>5. client' = CheckFlow(c) /\ UNCHANGED <<srv, net, faults>>
    BY <1>2, <2>1 DEF Publish
  <2>6. client' \in Client /\ FlowFollows(client') /\ Linked(client')
    <3>1. PICK d : d = CheckFlow(c)
      OBVIOUS
    <3>2. d \in LockingClient /\ FlowFollows(d) /\ d.leader = c.leader /\ d.link = c.link
      <4>1. /\ d \in LockingClient /\ FlowFollows(d)
            /\ \A f \in {"next", "sent", "committed", "leader", "link"} : d[f] = c[f]
        BY <2>4, <3>1, CheckFlowFollows
      <4> QED
        BY <4>1
    <3>3. d \in Client /\ Linked(d)
      BY <2>4, <3>2, LockingIs DEF Linked
    <3> QED
      BY <2>5, <3>1, <3>2, <3>3
  <2> QED
    BY <1>1, <2>5, <2>6, ClientFollows
<1>3. ASSUME Process
      PROVE  TypeInv'
  <2>1. client.leader \in Server /\ client.link = "idle"
    BY <1>1, <1>3 DEF Process, Linked
  <2>2. PICK d : d = [client EXCEPT !.link = "busy"]
    OBVIOUS
  <2>3. d \in Client /\ SameFlow(client, d) /\ Linked(d)
    BY <1>1, <2>1, <2>2 DEF Client, SameFlow, Linked
  <2>4. PublishRequest(client.leader, Batch(client)) \in Request
    <3>1. Batch(client) \in Seq(Id) /\ 0 \in Id
      BY <1>1, BatchIs, PublishSessionAssumption DEF Id
    <3> QED
      BY <2>1, <3>1, SentTyped
  <2>5. client' = d /\ net' \subseteq (Request \cup Response) /\ UNCHANGED <<srv, faults>>
    BY <1>1, <1>3, <2>2, <2>4 DEF Process
  <2> QED
    BY <1>1, <2>3, <2>5, SameFlowOk
<1>4. ASSUME Heartbeat
      PROVE  TypeInv'
  <2>1. PICK s \in Candidates(client) :
            client' = Connected(client, s) /\ net' = net \cup {PublishRequest(s, <<>>)}
    BY <1>4 DEF Heartbeat
  <2>2. s \in Server
    BY <1>1, <2>1 DEF Candidates, Client
  <2>3. PICK d : d = Connected(client, s)
    OBVIOUS
  <2>4. d \in Client /\ SameFlow(client, d) /\ Linked(d)
    BY <1>1, <2>2, <2>3, ClientHelpers
  <2>5. PublishRequest(s, <<>>) \in Request
    <3>1. <<>> \in Seq(Id) /\ 0 \in Id
      BY PublishSessionAssumption DEF Id
    <3> QED
      BY <2>2, <3>1, SentTyped
  <2>6. client' = d /\ net' \subseteq (Request \cup Response) /\ UNCHANGED <<srv, faults>>
    BY <1>1, <1>4, <2>1, <2>3, <2>5 DEF Heartbeat
  <2> QED
    BY <1>1, <2>4, <2>6, SameFlowOk
<1>5. ASSUME LoseConnection \/ LeaderTimeout
      PROVE  TypeInv'
  <2>1. PICK d : d = Disconnected(client)
    OBVIOUS
  <2>2. d \in Client /\ SameFlow(client, d) /\ Linked(d)
    <3>1. Server # {}
      BY PublishSessionAssumption
    <3> QED
      BY <1>1, <2>1, <3>1, ClientHelpers DEF Linked
  <2>3. client' = d /\ net' \subseteq net /\ UNCHANGED srv
    BY <1>5, <2>1 DEF LoseConnection, LeaderTimeout
  <2>4. faults' \in 0 .. MaxFaults
    BY <1>1, <1>5, PublishSessionAssumption DEF LoseConnection, LeaderTimeout
  <2> QED
    BY <1>1, <2>2, <2>3, <2>4, SameFlowOk
<1> QED
  BY <1>2, <1>3, <1>4, <1>5

\* What a response makes of the client, apart from what it reports
LEMMA AfterResponseIs ==
    ASSUME TypeInv
    PROVE  /\ AfterResponse \in Client /\ SameFlow(client, AfterResponse) /\ Linked(AfterResponse)
           /\ AfterResponse.sent = client.sent /\ AfterResponse.leader = client.leader
  BY DEF TypeInv, TypeOK, AfterResponse, Client, SameFlow, Linked

LEMMA ReportedTypes ==
    ASSUME TypeInv, NEW c \in Client, SameFlow(client, c), Linked(c), NEW id \in Id,
           client' = RemoveCommitted(c, id), UNCHANGED <<srv, faults>>,
           net' \subseteq (Request \cup Response)
    PROVE  TypeInv'
<1>1. FlowFollows(client) /\ TypeOK /\ faults \in 0 .. MaxFaults
  BY ClientLocks DEF TypeInv, TypeOK
<1>2. FlowFollows(c) /\ c \in LockingClient
  BY <1>1, SameFlowFollows, LockingIs
<1>3. PICK r : r = RemoveCommitted(c, id)
  OBVIOUS
<1>4. r \in LockingClient /\ FlowFollows(r) /\ r.leader = c.leader /\ r.link = c.link
  BY <1>2, <1>3, RemoveCommittedIs
<1>5. r \in Client /\ Linked(r)
  BY <1>4, LockingIs DEF Linked
<1> QED
  BY <1>1, <1>3, <1>4, <1>5, ClientFollows

LEMMA ResponseStepTypes ==
    ASSUME TypeInv, NEW m \in net, HandleResponse(m)
    PROVE  TypeInv'
<1>1. /\ TypeOK /\ client \in Client /\ Linked(client) /\ net \subseteq (Request \cup Response)
      /\ faults \in 0 .. MaxFaults /\ UNCHANGED <<srv, faults>>
  BY DEF TypeInv, TypeOK, HandleResponse
<1>2. /\ AfterResponse \in Client /\ SameFlow(client, AfterResponse) /\ Linked(AfterResponse)
      /\ AfterResponse.leader = client.leader
  BY AfterResponseIs
<1>3. /\ m \in Response /\ m.session.committed \in Id /\ m.session.received \in Id
      /\ m.from \in Server /\ m.leader \in Server \cup {NoServer}
  BY <1>1, NetMember DEF HandleResponse, Response, Session
<1>4. CASE IgnoredResponse(m)
  <2>1. client' = AfterResponse /\ net' \subseteq (Request \cup Response)
    BY <1>1, <1>4 DEF IgnoredResponse
  <2> QED
    BY <1>1, <1>2, <2>1, SameFlowOk
<1>5. CASE RejectedResponse(m)
  <2>1. PICK c : c = Disconnected(AfterResponse)
    OBVIOUS
  <2>2. c \in Client /\ SameFlow(AfterResponse, c) /\ c.link = "down"
    BY <1>2, <1>3, <2>1, ClientHelpers
  <2>3. PICK d : d = IF m.leader = client.leader THEN AfterResponse ELSE [c EXCEPT !.leader = m.leader]
    OBVIOUS
  <2>4. d \in Client /\ SameFlow(client, d) /\ Linked(d)
    <3>1. CASE m.leader = client.leader
      BY <1>2, <2>3, <3>1
    <3>2. CASE m.leader # client.leader
      <4>1. d = [c EXCEPT !.leader = m.leader]
        BY <2>3, <3>2
      <4> QED
        BY <1>2, <1>3, <2>2, <4>1 DEF Client, SameFlow, Linked
    <3> QED
      BY <3>1, <3>2
  <2>5. client' = d /\ net' \subseteq (Request \cup Response)
    BY <1>1, <1>5, <2>1, <2>3 DEF RejectedResponse
  <2> QED
    BY <1>1, <2>4, <2>5, SameFlowOk
<1>6. CASE RestartResponse(m)
  <2>1. PICK c : c = Connected(AfterResponse, m.from)
    OBVIOUS
  <2>2. c \in Client /\ SameFlow(client, c) /\ Linked(c)
    BY <1>2, <1>3, <2>1, ClientHelpers DEF SameFlow
  <2>3. [type |-> "Restart", to |-> m.from, ids |-> <<>>, sent |-> c.sent] \in Request
    <3>1. c.sent \in Id /\ <<>> \in Seq(Id)
      BY <2>2 DEF Client
    <3> QED
      BY <1>3, <3>1, SentTyped
  <2>4. /\ client' = RemoveCommitted(c, m.session.committed)
        /\ net' \subseteq (Request \cup Response)
    BY <1>1, <1>6, <2>1, <2>3, Zenon DEF RestartResponse
  <2> QED
    BY <1>1, <1>3, <2>2, <2>4, ReportedTypes
<1>7. CASE AcceptedResponse(m)
  <2>1. PICK c : c = IF m.session.outOfOrder THEN [AfterResponse EXCEPT !.sent = m.session.received]
                     ELSE AfterResponse
    OBVIOUS
  <2>2. c \in Client /\ SameFlow(client, c) /\ Linked(c)
    BY <1>2, <1>3, <2>1 DEF Client, SameFlow, Linked
  <2>3. /\ client' = RemoveCommitted(c, m.session.committed)
        /\ net' \subseteq (Request \cup Response)
    BY <1>1, <1>7, <2>1, Zenon DEF AcceptedResponse
  <2> QED
    BY <1>1, <1>3, <2>2, <2>3, ReportedTypes
<1> QED
  BY <1>4, <1>5, <1>6, <1>7 DEF HandleResponse

LEMMA StutterTypes == TypeInv /\ UNCHANGED vars => TypeInv'
  BY DEF TypeInv, TypeOK, FlowFollowsQueue, QueueLen, Linked, vars

LEMMA NextTypes == TypeInv /\ [Next]_vars => TypeInv'
<1> SUFFICES ASSUME TypeInv, Next
             PROVE  TypeInv'
  BY StutterTypes
<1>1. CASE \E s \in Server : \/ \E Q \in SUBSET Server : Elect(s, Q)
                             \/ \E f \in Server : Replicate(s, f)
                             \/ Commit(s) \/ StepDown(s) \/ SessionTimesOut(s)
  BY <1>1, GroupStepTypes
<1>2. CASE \E m \in net : HandleRequest(m) \/ HandleResponse(m)
  BY <1>2, RequestStepTypes, ResponseStepTypes
<1>3. CASE Publish \/ Process \/ Heartbeat \/ LoseConnection \/ LeaderTimeout
  BY <1>3, ClientStepTypes
<1> QED
  BY <1>1, <1>2, <1>3 DEF Next

(***************************************************************************)
(* Every variable keeps its type: no handler takes an id, a term or an     *)
(* index out of its range.  (publish.rs, session.rs)                       *)
(***************************************************************************)
THEOREM TypeCorrect == Spec => []TypeOK
<1>1. TypeInv => TypeOK
  BY DEF TypeInv
<1> QED
  BY <1>1, InitTypes, NextTypes, PTL DEF Spec

(***************************************************************************)
(* The lock on the flow is held once or not at all, and follows the queue, *)
(* in every interleaving of publications and answers (check_flow).         *)
(***************************************************************************)
THEOREM FlowCorrect == Spec => []FlowFollowsQueue
<1>1. TypeInv => FlowFollowsQueue
  BY DEF TypeInv
<1> QED
  BY <1>1, InitTypes, NextTypes, PTL DEF Spec

-----------------------------------------------------------------------------
(* The order of the messages in a log, and the session that goes with it. *)

LEMMA EntryIds ==
    ASSUME NEW l \in Seq(Entry)
    PROVE  /\ Len(l) \in Nat
           /\ \A i \in 1 .. Len(l) : l[i] \in Entry /\ l[i].id \in Id /\ l[i].id \in Nat
<1>1. Len(l) \in Nat /\ \A i \in 1 .. Len(l) : l[i] \in Entry
  BY ElementOfSeq, LenProperties
<1> QED
  BY <1>1, PublishSessionAssumption DEF Entry, Id

LEMMA StateTypes ==
    ASSUME NEW e \in ServerState
    PROVE  /\ e.log \in Seq(Entry) /\ Len(e.log) \in Nat /\ e.commit \in Nat
           /\ e.session.committed \in Nat /\ e.session.received \in Nat
<1>1. e.log \in Seq(Entry) /\ e.commit \in Nat /\ e.session \in Session
  BY DEF ServerState
<1>2. e.session.committed \in Nat /\ e.session.received \in Nat
  BY <1>1, PublishSessionAssumption DEF Session, Id
<1> QED
  BY <1>1, <1>2, LenProperties

LEMMA LastIdIs ==
    ASSUME NEW l \in Seq(Entry)
    PROVE  LastId(l) \in Nat /\ IsLast(l, LastId(l))
<1> DEFINE S == {0} \cup {l[i].id : i \in DOMAIN l}
<1>1. DOMAIN l = 1 .. Len(l) /\ MaxMessage \in Nat
  BY LenProperties, PublishSessionAssumption
<1>2. S \in SUBSET (0 .. MaxMessage) /\ S # {}
  BY <1>1, EntryIds DEF Id
<1>3. Max(S) \in S /\ \A y \in S : Max(S) >= y
  <2> HIDE DEF S
  <2> QED
    BY <1>1, <1>2, MaxIsReached
<1>4. PICK m \in S : m = Max(S) /\ \A y \in S : m >= y
  BY <1>3
<1>5. m \in Nat /\ m = LastId(l)
  BY <1>2, <1>4 DEF LastId
<1>6. IsLast(l, m)
  BY <1>1, <1>4 DEF IsLast
<1> QED
  BY <1>5, <1>6

LEMMA LastIsOne ==
    ASSUME NEW l \in Seq(Entry), NEW n \in Nat, NEW m \in Nat, IsLast(l, n), IsLast(l, m)
    PROVE  n = m
  BY EntryIds DEF IsLast

\* The entry of a configuration changes nothing.
LEMMA AppendNone ==
    ASSUME NEW l \in Seq(Entry), NEW x \in Entry, x.id = 0, InOrder(l), NEW n \in Nat
    PROVE  InOrder(Append(l, x)) /\ (IsLast(l, n) => IsLast(Append(l, x), n))
<1>1. PICK r, N : r = Append(l, x) /\ N = Len(l)
  OBVIOUS
<1>2. /\ N \in Nat /\ Len(r) = N + 1 /\ r[N + 1] = x /\ \A i \in 1 .. N : r[i] = l[i]
  BY <1>1, LenProperties, AppendProperties
<1>3. InOrder(r)
  <2>1. ASSUME NEW i \in 1 .. N + 1, r[i].id # 0
        PROVE  /\ \A j \in 1 .. i - 1 : r[j].id < r[i].id
               /\ r[i].id = 1 \/ \E j \in 1 .. i - 1 : r[j].id = r[i].id - 1
    <3>1. i \in 1 .. N
      BY <1>2, <2>1
    <3>2. r[i] = l[i] /\ \A j \in 1 .. i - 1 : j \in 1 .. N /\ r[j] = l[j]
      BY <1>2, <3>1
    <3> QED
      BY <1>1, <2>1, <3>1, <3>2 DEF InOrder
  <2> QED
    BY <1>2, <2>1 DEF InOrder
<1>4. IsLast(l, n) => IsLast(r, n)
  <2> HAVE IsLast(l, n)
  <2>1. \A i \in 1 .. N + 1 : r[i].id <= n
    <3> TAKE i \in 1 .. N + 1
    <3>1. CASE i = N + 1
      BY <1>2, <3>1
    <3>2. CASE i # N + 1
      <4>1. i \in 1 .. N
        BY <1>2, <3>2
      <4> QED
        BY <1>1, <1>2, <4>1 DEF IsLast
    <3> QED
      BY <3>1, <3>2
  <2>2. n = 0 \/ \E i \in 1 .. N + 1 : r[i].id = n
    <3>1. n = 0 \/ \E i \in 1 .. N : l[i].id = n
      BY <1>1 DEF IsLast
    <3>2. \A i \in 1 .. N : i \in 1 .. N + 1 /\ r[i] = l[i]
      BY <1>2
    <3> QED
      BY <3>1, <3>2
  <2> QED
    BY <1>2, <2>1, <2>2 DEF IsLast
<1> QED
  BY <1>1, <1>3, <1>4

\* The session of a server knows all of its committed messages.
Covers(e) == \A i \in 1 .. e.commit : e.log[i].id <= e.session.committed

\* What holds of the state of a server
Kept(e) ==
    /\ e.commit <= Len(e.log) /\ InOrder(e.log)
    /\ e.session.committed <= e.session.received
    /\ e.session.committed = 0 \/ Covers(e)

NoneAfter(e) == \A i \in e.commit + 1 .. Len(e.log) : e.log[i].id = 0

LEMMA LocalCommitKeeps ==
    ASSUME NEW e \in ServerState, NEW n \in Nat, NEW r, r = LocalCommit(e, n), Kept(e)
    PROVE  /\ Kept(r) /\ e.commit <= r.commit /\ r.log = e.log /\ r.leads = e.leads
           /\ IsLast(e.log, e.session.received) => IsLast(r.log, r.session.received)
           /\ NoneAfter(e) => r.session = e.session /\ NoneAfter(r)
           /\ \/ r.session.committed = e.session.committed
              \/ \E i \in 1 .. r.commit : r.log[i].id = r.session.committed
<1>1. /\ r \in ServerState /\ r.log = e.log /\ r.leads = e.leads
      /\ e.commit <= r.commit /\ (r.commit = e.commit \/ (r.commit <= n /\ r.commit <= Len(e.log)))
      /\ e.session.committed <= r.session.committed
      /\ \A i \in e.commit + 1 .. r.commit : e.log[i].id <= r.session.committed
      /\ \/ r.session.committed = e.session.committed
         \/ \E i \in e.commit + 1 .. r.commit : e.log[i].id # 0 /\ e.log[i].id = r.session.committed
      /\ e.session.received <= r.session.received
      /\ r.session.received = e.session.received \/ r.session.received = r.session.committed
      /\ r.session.committed = e.session.committed \/ r.session.committed <= r.session.received
      /\ (\A i \in e.commit + 1 .. r.commit : e.log[i].id = 0) => r.session = e.session
  BY LocalCommitIs
<1>2. PICK l \in Seq(Entry), N \in Nat, a \in Nat, b \in Nat, c \in Nat, d \in Nat, g \in Nat, h \in Nat :
          /\ l = e.log /\ N = Len(l) /\ a = e.commit /\ b = r.commit
          /\ c = e.session.committed /\ d = r.session.committed
          /\ g = e.session.received /\ h = r.session.received
  BY <1>1, StateTypes
<1>3. /\ a <= b /\ b <= N /\ c <= d /\ g <= h /\ c <= g
      /\ \A i \in a + 1 .. b : l[i].id <= d
      /\ d = c \/ \E i \in a + 1 .. b : l[i].id # 0 /\ l[i].id = d
      /\ h = g \/ h = d
      /\ d = c \/ d <= h
      /\ c = 0 \/ \A i \in 1 .. a : l[i].id <= c
      /\ InOrder(l)
  BY <1>1, <1>2 DEF Kept, Covers
<1>4. \A i \in 1 .. N : l[i].id \in Nat
  BY <1>2, EntryIds
<1>5. d <= h
  BY <1>3
<1>6. d = 0 \/ \A i \in 1 .. b : l[i].id <= d
  <2> SUFFICES ASSUME d # 0, NEW i \in 1 .. b
               PROVE  l[i].id <= d
    OBVIOUS
  <2>1. i \in 1 .. a \/ i \in a + 1 .. b
    OBVIOUS
  <2>2. CASE i \in a + 1 .. b
    BY <1>3, <2>2
  <2>3. CASE i \in 1 .. a
    <3>1. CASE c # 0
      BY <1>3, <1>4, <2>3, <3>1
    <3>2. CASE c = 0
      <4>1. PICK j \in a + 1 .. b : l[j].id # 0 /\ l[j].id = d
        BY <1>3, <3>2
      <4>2. j \in 1 .. Len(l) /\ i \in 1 .. j - 1
        BY <1>2, <1>3, <2>3, <4>1
      <4>3. l[i].id < l[j].id
        BY <1>3, <4>1, <4>2 DEF InOrder
      <4>4. i \in 1 .. N /\ j \in 1 .. N
        BY <1>3, <2>3, <4>1
      <4>5. l[i].id \in Nat /\ l[j].id = d
        BY <1>4, <4>1, <4>4
      <4> QED
        BY <4>3, <4>5
    <3> QED
      BY <3>1, <3>2
  <2> QED
    BY <2>1, <2>2, <2>3
<1>7. Kept(r)
  BY <1>1, <1>2, <1>3, <1>5, <1>6 DEF Kept, Covers
<1>8. IsLast(l, g) => IsLast(l, h)
  <2> HAVE IsLast(l, g)
  <2>1. \A i \in 1 .. N : l[i].id <= g
    BY <1>2 DEF IsLast
  <2>2. d <= g
    BY <1>3, <2>1
  <2>3. h = g
    BY <1>3, <2>2
  <2> QED
    BY <2>3
<1>9. NoneAfter(e) => r.session = e.session /\ NoneAfter(r)
  <2> HAVE NoneAfter(e)
  <2>1. \A i \in a + 1 .. N : l[i].id = 0
    BY <1>2 DEF NoneAfter
  <2>2. (\A i \in a + 1 .. b : l[i].id = 0) /\ \A i \in b + 1 .. N : l[i].id = 0
    BY <1>3, <2>1
  <2> QED
    BY <1>1, <1>2, <2>2 DEF NoneAfter
<1>10. d = c \/ \E i \in 1 .. b : l[i].id = d
  BY <1>3
<1> QED
  BY <1>1, <1>2, <1>7, <1>8, <1>9, <1>10

\* A new leader whose session fits its log takes messages where it ends.
LEMMA TransientKeeps ==
    ASSUME NEW e \in ServerState, NEW voters \in SUBSET ServerState,
           NEW r, r = ApplyTransientState(e, voters), Kept(e), SessionFitsLog(e),
           \A v \in voters : v.session.committed <= LastId(e.log)
    PROVE  Kept(r) /\ IsLast(r.log, r.session.received)
<1>1. /\ r \in ServerState /\ r.log = e.log /\ r.commit = e.commit
      /\ \E v \in voters \cup {e} : r.session.committed = v.session.committed
      /\ e.session.committed <= r.session.committed
      /\ \E least \in Nat : least <= e.commit /\
            \/ /\ \A i \in least + 1 .. Len(e.log) : e.log[i].id = 0
               /\ e.session.received <= r.session.received
               /\ \/ r.session.received = e.session.received
                  \/ r.session.received = r.session.committed
            \/ \E j \in least + 1 .. Len(e.log) :
                  /\ e.log[j].id # 0 /\ r.session.received = e.log[j].id
                  /\ \A i \in j + 1 .. Len(e.log) : e.log[i].id = 0
  BY TransientIs
<1>2. PICK l \in Seq(Entry), N \in Nat, a \in Nat, c \in Nat, d \in Nat, g \in Nat, h \in Nat, L \in Nat :
          /\ l = e.log /\ N = Len(l) /\ a = e.commit /\ L = LastId(l)
          /\ c = e.session.committed /\ d = r.session.committed
          /\ g = e.session.received /\ h = r.session.received
  <2>1. e.log \in Seq(Entry) /\ LastId(e.log) \in Nat
    BY StateTypes, LastIdIs
  <2> QED
    BY <1>1, <2>1, StateTypes
<1>3. /\ IsLast(l, L) /\ g <= L /\ c <= g /\ c <= d /\ a <= N /\ InOrder(l)
      /\ \A i \in 1 .. a : l[i].id <= c
  BY <1>1, <1>2, LastIdIs DEF Kept, SessionFitsLog
<1>4. d <= L
  <2>1. e.session.committed <= L
    BY <1>2, <1>3
  <2> QED
    BY <1>1, <1>2, <2>1
<1>5. /\ \A i \in 1 .. N : l[i].id \in Nat /\ l[i].id <= L
      /\ L = 0 \/ \E i \in 1 .. N : l[i].id = L
  BY <1>2, <1>3, EntryIds DEF IsLast
<1>6. h = L
  <2>1. PICK least \in Nat : least <= a /\
            \/ /\ \A i \in least + 1 .. N : l[i].id = 0
               /\ g <= h /\ (h = g \/ h = d)
            \/ \E j \in least + 1 .. N :
                  /\ l[j].id # 0 /\ h = l[j].id
                  /\ \A i \in j + 1 .. N : l[i].id = 0
    BY <1>1, <1>2
  <2>2. CASE (\A i \in least + 1 .. N : l[i].id = 0) /\ g <= h /\ (h = g \/ h = d)
    <3>1. h <= L
      BY <1>3, <1>4, <2>2
    <3>2. \A i \in 1 .. N : l[i].id <= h
      <4> TAKE i \in 1 .. N
      <4>1. i \in 1 .. a \/ i \in least + 1 .. N
        BY <2>1
      <4> QED
        BY <1>3, <1>5, <2>2, <4>1
    <3> QED
      BY <1>5, <3>1, <3>2
  <2>3. ASSUME NEW j \in least + 1 .. N, l[j].id # 0, h = l[j].id,
               \A i \in j + 1 .. N : l[i].id = 0
        PROVE  h = L
    <3>1. j \in 1 .. Len(l) /\ \A i \in 1 .. j - 1 : l[i].id < l[j].id
      BY <1>2, <1>3, <2>3 DEF InOrder
    <3>2. \A i \in 1 .. N : l[i].id <= h
      <4> TAKE i \in 1 .. N
      <4>1. i \in 1 .. j - 1 \/ i = j \/ i \in j + 1 .. N
        BY <1>2, <3>1
      <4> QED
        BY <1>2, <1>5, <2>3, <3>1, <4>1
    <3> QED
      BY <1>2, <1>5, <2>3, <3>1, <3>2
  <2> QED
    BY <2>1, <2>2, <2>3
<1>7. IsLast(r.log, r.session.received)
  BY <1>1, <1>2, <1>3, <1>6
<1>8. Kept(r)
  <2>1. \A i \in 1 .. a : l[i].id <= d
    BY <1>3, <1>5
  <2> QED
    BY <1>1, <1>2, <1>3, <1>4, <1>6, <2>1 DEF Kept, Covers
<1> QED
  BY <1>7, <1>8

-----------------------------------------------------------------------------
(* The invariant that every calm step keeps. *)

\* A message is committed at a server of group S, or there is none.
CommittedIn(S, n) == n = 0 \/ \E s \in Server : \E i \in 1 .. S[s].commit : S[s].log[i].id = n

\* The state e of a server, when the first message is reported (if f) and the next one is n
Fits(e, f, n) ==
    /\ Kept(e)
    /\ \A i \in 1 .. Len(e.log) : e.log[i].id < n
    /\ e.leads => \/ IsLast(e.log, e.session.received)
                  \/ e.session.received = 0 /\ f /\ NoneAfter(e)

ServersFit ==
    \A s \in Server : /\ Fits(srv[s], FirstReported, client.next)
                      /\ CommittedIn(srv, srv[s].session.committed)

NetFits ==
    \A m \in net : /\ m.type = "Response" => CommittedIn(srv, m.session.committed)
                   /\ m.type = "Publish" => \A i \in 1 .. Len(m.ids) : m.ids[i] < client.next

ClientFits ==
    /\ CommittedIn(srv, client.committed)
    /\ client.committed < client.next /\ client.committed <= client.sent

DeliveryInv == TypeInv /\ CommittedAgrees /\ ServersFit /\ NetFits /\ ClientFits

\* A step keeps what is committed.
Keeps == \A n : CommittedIn(srv, n) => CommittedIn(srv', n)

LEMMA CommitFits ==
    ASSUME NEW e \in ServerState, NEW n \in Nat, NEW r, r = LocalCommit(e, n),
           NEW f, NEW x, Fits(e, f, x)
    PROVE  /\ r \in ServerState /\ Fits(r, f, x) /\ e.commit <= r.commit
           /\ \/ r.session.committed = e.session.committed
              \/ \E i \in 1 .. r.commit : r.log[i].id = r.session.committed
<1>1. Kept(e)
  BY DEF Fits
<1>2. /\ Kept(r) /\ e.commit <= r.commit /\ r.log = e.log /\ r.leads = e.leads
      /\ IsLast(e.log, e.session.received) => IsLast(r.log, r.session.received)
      /\ NoneAfter(e) => r.session = e.session /\ NoneAfter(r)
      /\ \/ r.session.committed = e.session.committed
         \/ \E i \in 1 .. r.commit : r.log[i].id = r.session.committed
  BY <1>1, LocalCommitKeeps
<1>3. r \in ServerState
  BY LocalCommitIs
<1>4. r.leads => \/ IsLast(r.log, r.session.received)
                 \/ r.session.received = 0 /\ f /\ NoneAfter(r)
  BY <1>2 DEF Fits
<1> QED
  BY <1>2, <1>3, <1>4 DEF Fits

\* A server that follows has nothing to fit but its log and session.
LEMMA FollowerFits ==
    ASSUME NEW e \in ServerState, NEW r \in ServerState, r.log = e.log, r.commit = e.commit,
           r.session = e.session, ~r.leads, NEW f, NEW x, Fits(e, f, x)
    PROVE  Fits(r, f, x)
  BY DEF Fits, Kept, Covers

LEMMA CopyFits ==
    ASSUME NEW e \in ServerState, NEW l \in ServerState, NEW r \in ServerState,
           r.log = l.log, r.commit = e.commit, r.session = e.session, ~r.leads,
           e.commit <= Len(l.log), \A i \in 1 .. e.commit : l.log[i] = e.log[i],
           NEW f, NEW x, Fits(e, f, x), Fits(l, f, x)
    PROVE  Fits(r, f, x)
  BY DEF Fits, Kept, Covers

\* A session that has timed out
LEMMA NewSessionFits ==
    ASSUME NEW e \in ServerState, NEW r, r = [e EXCEPT !.session = NewSession],
           NEW f, NEW x, Fits(e, f, x), e.leads => f /\ NoneAfter(e)
    PROVE  Fits(r, f, x)
<1>1. /\ r.log = e.log /\ r.commit = e.commit /\ r.leads = e.leads
      /\ r.session.received = 0 /\ r.session.committed = 0
  BY DEF ServerState, NewSession
<1> QED
  BY <1>1 DEF Fits, Kept, NoneAfter

\* A session that starts again where the log ends
LEMMA RestartFits ==
    ASSUME NEW e \in ServerState, NEW m, m.sent \in Id, NEW r, r = Restart(e, m),
           NEW f, NEW x, Fits(e, f, x), e.leads, m.sent = LastId(e.log)
    PROVE  Fits(r, f, x) /\ r.commit = e.commit /\ r.log = e.log
           /\ r.session.committed = e.session.committed
<1>1. /\ r.log = e.log /\ r.commit = e.commit /\ r.leads = e.leads
      /\ r.session.received = m.sent /\ r.session.committed = e.session.committed
  BY DEF Restart, ServerState, Session
<1>2. e.log \in Seq(Entry) /\ e.session.committed \in Nat /\ e.session.received \in Nat
  BY StateTypes
<1>3. IsLast(e.log, m.sent) /\ m.sent \in Nat
  BY <1>2, LastIdIs
<1>4. e.session.committed <= m.sent
  <2>1. CASE IsLast(e.log, e.session.received)
    <3>1. e.session.received = m.sent
      BY <1>2, <1>3, <2>1, LastIsOne
    <3> QED
      BY <3>1 DEF Fits, Kept
  <2>2. CASE e.session.received = 0
    BY <1>2, <1>3, <2>2 DEF Fits, Kept
  <2> QED
    BY <2>1, <2>2 DEF Fits
<1> QED
  BY <1>1, <1>3, <1>4 DEF Fits, Kept, Covers

LEMMA PublicationFits ==
    ASSUME NEW e \in ServerState, NEW m, m.ids \in Seq(Id), NEW r, r = Publication(e, m),
           NEW f, NEW x, Fits(e, f, x), e.leads,
           \A k \in 1 .. Len(m.ids) : m.ids[k] < x, f => \A k \in 1 .. Len(m.ids) : m.ids[k] # 1
    PROVE  /\ Fits(r, f, x) /\ r.commit = e.commit /\ r.session.committed = e.session.committed
           /\ \A i \in 1 .. e.commit : r.log[i] = e.log[i]
<1>1. r \in ServerState /\ TakesTo(e, m.ids, r)
  BY PublicationIs
<1>2. /\ r.leads = e.leads /\ r.commit = e.commit
      /\ r.session.committed = e.session.committed /\ e.session.received <= r.session.received
      /\ Extends(r.log, e.log, m.ids)
      /\ (InOrder(e.log) /\ IsLast(e.log, e.session.received))
            => InOrder(r.log) /\ IsLast(r.log, r.session.received)
      /\ (e.session.received = 0 /\ \A k \in 1 .. Len(m.ids) : m.ids[k] # 1)
            => r.session.received = 0 /\ r.log = e.log
  BY <1>1 DEF TakesTo
<1>3. PICK N \in Nat, M \in Nat, a \in Nat : N = Len(e.log) /\ M = Len(r.log) /\ a = e.commit
  BY <1>1, StateTypes
<1>4. /\ N <= M /\ a <= N /\ \A i \in 1 .. N : r.log[i] = e.log[i]
      /\ \A i \in N + 1 .. M : \E k \in 1 .. Len(m.ids) : r.log[i].id = m.ids[k]
  BY <1>2, <1>3 DEF Extends, Fits, Kept
<1>5. \A i \in 1 .. M : r.log[i].id < x
  <2> TAKE i \in 1 .. M
  <2>1. i \in 1 .. N \/ i \in N + 1 .. M
    OBVIOUS
  <2>2. CASE i \in 1 .. N
    BY <1>3, <1>4, <2>2 DEF Fits
  <2>3. CASE i \in N + 1 .. M
    BY <1>4, <2>3
  <2> QED
    BY <2>1, <2>2, <2>3
<1>6. \A i \in 1 .. a : r.log[i] = e.log[i]
  BY <1>4
<1>7. a <= M /\ (e.session.committed = 0 \/ Covers(r))
  <2>1. a <= M
    BY <1>4
  <2>2. ASSUME e.session.committed # 0
        PROVE  \A i \in 1 .. a : e.log[i].id <= e.session.committed
    BY <1>3, <2>2 DEF Fits, Kept, Covers
  <2>3. r.commit = a /\ r.session.committed = e.session.committed
    BY <1>2, <1>3
  <2> QED
    BY <1>6, <2>1, <2>2, <2>3 DEF Covers
<1>8. e.session.committed <= r.session.received
  <2>1. e.session.committed <= e.session.received
    BY DEF Fits, Kept
  <2> QED
    BY <1>1, <1>2, <2>1, StateTypes
<1>9. InOrder(r.log) /\ (\/ IsLast(r.log, r.session.received)
                         \/ r.session.received = 0 /\ f /\ NoneAfter(r))
  <2>1. CASE IsLast(e.log, e.session.received)
    BY <1>2, <2>1 DEF Fits, Kept
  <2>2. CASE e.session.received = 0 /\ f /\ NoneAfter(e)
    <3>1. r.session.received = 0 /\ r.log = e.log
      BY <1>2, <2>2
    <3> QED
      BY <1>2, <2>2, <3>1 DEF NoneAfter, Fits, Kept
  <2> QED
    BY <2>1, <2>2 DEF Fits
<1> QED
  BY <1>2, <1>3, <1>5, <1>6, <1>7, <1>8, <1>9 DEF Fits, Kept

\* The state r of a server s that voters Q have elected
LeadsFrom(s, Q, r) ==
    /\ r.commit = srv[s].commit
    /\ \E q \in Q \cup {s} : r.session.committed = srv[q].session.committed

\* A new leader
LEMMA NewLeaderFits ==
    ASSUME TypeOK, NEW s \in Server, NEW Q \in SUBSET Server, NEW t \in Term,
           NEW f, NEW x \in Nat, 0 < x, Fits(srv[s], f, x), SessionFitsLog(srv[s]),
           \A q \in Q : srv[q].session.committed <= LastId(srv[s].log),
           NEW r, r = NewLeader(s, Q, t)
    PROVE  Fits(r, f, x) /\ LeadsFrom(s, Q, r)
<1>1. PICK b \in ServerState : b = [srv[s] EXCEPT !.leads = TRUE, !.term = t, !.leader = s]
  BY DEF TypeOK, ServerState
<1>2. PICK p \in ServerState : p = srv[s]
  BY DEF TypeOK
<1>3. b.log = p.log /\ b.commit = p.commit /\ b.session = p.session
  BY <1>1, <1>2 DEF ServerState
<1>4. PICK voters \in SUBSET ServerState : voters = {srv[q] : q \in Q \ {s}}
  BY DEF TypeOK
<1>5. PICK e : e = ApplyTransientState(b, voters)
  OBVIOUS
<1>6. Kept(b) /\ SessionFitsLog(b) /\ \A v \in voters : v.session.committed <= LastId(b.log)
  <2>1. Kept(p) /\ SessionFitsLog(p)
    BY <1>2 DEF Fits
  <2>2. Kept(b) /\ SessionFitsLog(b)
    BY <1>3, <2>1 DEF Kept, SessionFitsLog, Covers
  <2> QED
    BY <1>2, <1>3, <1>4, <2>2
<1>7. Kept(e) /\ IsLast(e.log, e.session.received)
  BY <1>5, <1>6, TransientKeeps
<1>8. /\ e \in ServerState /\ e.log = b.log /\ e.commit = b.commit
      /\ \E v \in voters \cup {b} : e.session.committed = v.session.committed
  BY <1>5, TransientIs
<1>9. r = IF e.commit = 0 THEN [e EXCEPT !.log = Append(e.log, [term |-> t, id |-> 0])] ELSE e
  BY <1>1, <1>4, <1>5, Zenon DEF NewLeader
<1>10. \E q \in Q \cup {s} : e.session.committed = srv[q].session.committed
  BY <1>2, <1>3, <1>4, <1>8
<1>11. \A i \in 1 .. Len(p.log) : p.log[i].id < x
  BY <1>2 DEF Fits
<1>12. CASE e.commit # 0
  <2>1. r = e
    BY <1>9, <1>12
  <2>2. Fits(e, f, x)
    BY <1>3, <1>7, <1>8, <1>11 DEF Fits
  <2> QED
    BY <1>2, <1>3, <1>8, <1>10, <2>1, <2>2 DEF LeadsFrom
<1>13. CASE e.commit = 0
  <2>1. PICK y \in Entry : y = [term |-> t, id |-> 0]
    <3>1. [term |-> t, id |-> 0] \in Entry
      BY PublishSessionAssumption DEF Entry, Id
    <3> QED
      BY <3>1
  <2>2. /\ r.log = Append(e.log, y) /\ r.commit = 0 /\ r.session = e.session
    BY <1>8, <1>9, <1>13, <2>1 DEF ServerState
  <2>3. e.log \in Seq(Entry) /\ e.session.received \in Nat
    BY <1>8, StateTypes
  <2>4. InOrder(Append(e.log, y)) /\ IsLast(Append(e.log, y), e.session.received)
    BY <1>7, <2>1, <2>3, AppendNone DEF Kept
  <2>5. /\ Len(Append(e.log, y)) \in Nat
        /\ \A i \in 1 .. Len(Append(e.log, y)) : Append(e.log, y)[i].id < x
    <3>1. PICK l \in Seq(Entry), N \in Nat : l = e.log /\ N = Len(l)
      BY <2>3, LenProperties
    <3>2. /\ Len(Append(l, y)) = N + 1 /\ Append(l, y)[N + 1] = y
          /\ \A i \in 1 .. N : Append(l, y)[i] = l[i]
      BY <3>1, AppendProperties
    <3>3. \A i \in 1 .. N : l[i].id < x
      BY <1>3, <1>8, <1>11, <3>1
    <3>4. \A i \in 1 .. N + 1 : Append(l, y)[i].id < x
      <4> TAKE i \in 1 .. N + 1
      <4>1. i \in 1 .. N \/ i = N + 1
        OBVIOUS
      <4> QED
        BY <2>1, <3>2, <3>3, <4>1
    <3> QED
      BY <3>1, <3>2, <3>4
  <2>6. Fits(r, f, x)
    BY <1>7, <2>2, <2>4, <2>5 DEF Fits, Kept, Covers
  <2> QED
    BY <1>2, <1>3, <1>8, <1>10, <1>13, <2>2, <2>6 DEF LeadsFrom
<1> QED
  BY <1>12, <1>13

LEMMA FitsOn ==
    ASSUME NEW e \in ServerState, NEW f, NEW g, f => g, NEW x \in Nat, NEW y \in Nat, x <= y,
           Fits(e, f, x)
    PROVE  Fits(e, g, y)
<1>1. \A i \in 1 .. Len(e.log) : e.log[i].id \in Nat
  BY StateTypes, EntryIds
<1> QED
  BY <1>1 DEF Fits

LEMMA CommittedStaysIn ==
    ASSUME TypeOK, CommittedStays, \A s \in Server : srv[s].commit <= srv'[s].commit,
           \A s \in Server : srv'[s].commit \in Nat, NEW n, CommittedIn(srv, n)
    PROVE  CommittedIn(srv', n)
<1>1. CASE n = 0
  BY <1>1 DEF CommittedIn
<1>2. CASE \E s \in Server : \E i \in 1 .. srv[s].commit : srv[s].log[i].id = n
  <2>0. PICK s \in Server : \E i \in 1 .. srv[s].commit : srv[s].log[i].id = n
    BY <1>2
  <2>1. PICK i \in 1 .. srv[s].commit : srv[s].log[i].id = n
    BY <2>0
  <2>2. srv'[s].log[i] = srv[s].log[i]
    BY <2>1 DEF CommittedStays
  <2>3. i \in 1 .. srv'[s].commit
    BY StateTypes DEF TypeOK
  <2> QED
    BY <2>1, <2>2, <2>3 DEF CommittedIn
<1> QED
  BY <1>1, <1>2 DEF CommittedIn

LEMMA InvTypes ==
    ASSUME DeliveryInv
    PROVE  /\ TypeOK /\ TypeInv /\ client \in Client /\ client.next \in Nat /\ 0 < client.next
           /\ client.sent \in Nat /\ client.committed \in Nat /\ client.committed <= client.sent
           /\ \A s \in Server : srv[s] \in ServerState
           /\ \A m \in net : m.type = "Publish" => m.ids \in Seq(Id)
<1>1. TypeOK /\ TypeInv /\ client \in Client
  BY DEF DeliveryInv, TypeInv, TypeOK
<1>2. client.next \in Nat /\ client.sent \in Nat /\ client.committed \in Nat
  BY <1>1, PublishSessionAssumption DEF Client, Id
<1>3. client.committed < client.next /\ client.committed <= client.sent
  BY DEF DeliveryInv, ClientFits
<1>4. \A m \in net : m.type = "Publish" => m.ids \in Seq(Id)
  BY <1>1, NetMember DEF Request
<1> QED
  BY <1>1, <1>2, <1>3, <1>4 DEF TypeOK

\* A step of the servers
LEMMA GroupKeeps ==
    ASSUME DeliveryInv, TypeInv', CommittedAgrees', CommittedStays, UNCHANGED client,
           \A s \in Server : srv[s].commit <= srv'[s].commit,
           \A s \in Server : Fits(srv'[s], FirstReported, client.next),
           \A s \in Server :
              \/ srv'[s].session.committed = 0
              \/ \E q \in Server : srv'[s].session.committed = srv[q].session.committed
              \/ \E i \in 1 .. srv'[s].commit : srv'[s].log[i].id = srv'[s].session.committed,
           \A m \in net' : \/ m \in net
                           \/ /\ m.type = "Response"
                              /\ \/ m.session.committed = 0
                                 \/ \E q \in Server : m.session.committed = srv[q].session.committed
    PROVE  DeliveryInv' /\ Keeps /\ UNCHANGED client
<1>1. /\ TypeOK /\ client.next \in Nat
      /\ \A s \in Server : srv'[s] \in ServerState /\ srv'[s].commit \in Nat
  BY InvTypes, StateTypes DEF TypeInv, TypeOK
<1>2. \A n : CommittedIn(srv, n) => CommittedIn(srv', n)
  BY <1>1, CommittedStaysIn
<1>3. \A s \in Server : CommittedIn(srv, srv[s].session.committed)
  BY DEF DeliveryInv, ServersFit
<1>4. FirstReported => FirstReported'
  BY DEF FirstReported
<1>5. ServersFit'
  <2>1. \A s \in Server : Fits(srv'[s], FirstReported', client.next)
    <3> TAKE s \in Server
    <3>1. PICK e \in ServerState : e = srv'[s]
      BY <1>1
    <3>2. Fits(e, FirstReported, client.next) /\ client.next <= client.next
      BY <1>1, <3>1
    <3>3. Fits(e, FirstReported', client.next)
      BY <1>1, <1>4, <3>2, FitsOn
    <3> QED
      BY <3>1, <3>3
  <2>2. \A s \in Server : CommittedIn(srv', srv'[s].session.committed)
    <3> TAKE s \in Server
    <3>1. CASE srv'[s].session.committed = 0
      BY <3>1 DEF CommittedIn
    <3>2. CASE \E q \in Server : srv'[s].session.committed = srv[q].session.committed
      BY <1>2, <1>3, <3>2
    <3>3. CASE \E i \in 1 .. srv'[s].commit : srv'[s].log[i].id = srv'[s].session.committed
      BY <3>3 DEF CommittedIn
    <3> QED
      BY <3>1, <3>2, <3>3
  <2> QED
    BY <2>1, <2>2 DEF ServersFit
<1>6. NetFits'
  <2> SUFFICES ASSUME NEW m \in net'
               PROVE  /\ m.type = "Response" => CommittedIn(srv', m.session.committed)
                      /\ m.type = "Publish" => \A i \in 1 .. Len(m.ids) : m.ids[i] < client.next
    BY DEF NetFits
  <2>1. CASE m \in net
    BY <1>2, <2>1 DEF DeliveryInv, NetFits
  <2>2. CASE /\ m.type = "Response"
             /\ \/ m.session.committed = 0
                \/ \E q \in Server : m.session.committed = srv[q].session.committed
    <3>1. CommittedIn(srv, m.session.committed)
      BY <1>3, <2>2 DEF CommittedIn
    <3> QED
      BY <1>2, <2>2, <3>1
  <2> QED
    BY <2>1, <2>2
<1>7. ClientFits'
  BY <1>2 DEF DeliveryInv, ClientFits
<1> QED
  BY <1>2, <1>5, <1>6, <1>7 DEF DeliveryInv, Keeps

\* A step of the client
LEMMA ClientKeeps ==
    ASSUME DeliveryInv, TypeInv', UNCHANGED srv, client.next <= client'.next,
           client.committed <= client'.committed, client'.committed < client'.next,
           client'.committed <= client'.sent, CommittedIn(srv, client'.committed),
           \A m \in net' :
              \/ m \in net \/ m.type = "Restart"
              \/ /\ m.type = "Publish"
                 /\ \A i \in 1 .. Len(m.ids) : client.sent < m.ids[i] /\ m.ids[i] < client'.next
    PROVE  DeliveryInv'
<1>1. /\ TypeOK /\ client.next \in Nat /\ client.committed \in Nat /\ client.sent \in Nat
      /\ client.committed <= client.sent
      /\ \A s \in Server : srv[s] \in ServerState
      /\ \A m \in net : m.type = "Publish" => m.ids \in Seq(Id)
  BY InvTypes
<1>2. /\ client'.next \in Nat /\ client'.committed \in Nat
      /\ \A m \in net' : m.type = "Publish" => m.ids \in Seq(Id)
  <2>1. TypeOK' /\ client' \in Client
    BY DEF TypeInv, TypeOK
  <2>2. client'.next \in Nat /\ client'.committed \in Nat
    BY <2>1, PublishSessionAssumption DEF Client, Id
  <2>3. net' \subseteq (Request \cup Response)
    BY <2>1 DEF TypeOK
  <2> QED
    BY <2>2, <2>3 DEF Request, Response
<1>3. FirstReported => FirstReported'
  <2> HAVE FirstReported
  <2>1. client'.committed > 0
    BY <1>1, <1>2 DEF FirstReported
  <2>2. ASSUME NEW m \in net', m.type = "Publish", NEW i \in DOMAIN m.ids
        PROVE  m.ids[i] # 1
    <3>1. CASE m \in net
      BY <2>2, <3>1 DEF FirstReported
    <3>2. CASE \A j \in 1 .. Len(m.ids) : client.sent < m.ids[j] /\ m.ids[j] < client'.next
      <4>1. m.ids \in Seq(Id) /\ DOMAIN m.ids = 1 .. Len(m.ids)
        BY <1>2, <2>2, LenProperties
      <4>2. client.sent < m.ids[i] /\ client.committed > 0
        BY <2>2, <3>2, <4>1 DEF FirstReported
      <4> QED
        BY <1>1, <4>2
    <3> QED
      BY <2>2, <3>1, <3>2
  <2> QED
    BY <2>1, <2>2 DEF FirstReported
<1>4. ServersFit'
  <2>1. \A s \in Server : /\ Fits(srv[s], FirstReported, client.next)
                          /\ CommittedIn(srv, srv[s].session.committed)
    BY DEF DeliveryInv, ServersFit
  <2>2. \A s \in Server : Fits(srv[s], FirstReported', client'.next)
    BY <1>1, <1>2, <1>3, <2>1, FitsOn
  <2> QED
    BY <2>1, <2>2 DEF ServersFit
<1>5. NetFits'
  <2> SUFFICES ASSUME NEW m \in net'
               PROVE  /\ m.type = "Response" => CommittedIn(srv, m.session.committed)
                      /\ m.type = "Publish" => \A i \in 1 .. Len(m.ids) : m.ids[i] < client'.next
    BY DEF NetFits
  <2>1. CASE m \in net
    <3>1. m.type = "Response" => CommittedIn(srv, m.session.committed)
      BY <2>1 DEF DeliveryInv, NetFits
    <3>2. ASSUME m.type = "Publish", NEW i \in 1 .. Len(m.ids)
          PROVE  m.ids[i] < client'.next
      <4>1. m.ids[i] < client.next /\ m.ids[i] \in Id
        BY <1>1, <2>1, <3>2, ElementOfSeq DEF DeliveryInv, NetFits
      <4> QED
        BY <1>1, <1>2, <4>1 DEF Id
    <3> QED
      BY <3>1, <3>2
  <2>2. CASE m \notin net
    BY <2>2
  <2> QED
    BY <2>1, <2>2
<1>6. ClientFits'
  BY DEF ClientFits
<1>7. CommittedAgrees'
  BY DEF DeliveryInv, CommittedAgrees
<1> QED
  BY <1>4, <1>5, <1>6, <1>7 DEF DeliveryInv

LEMMA InitDelivers == Init => DeliveryInv
<1> SUFFICES ASSUME Init
             PROVE  DeliveryInv
  OBVIOUS
<1>1. TypeInv
  BY InitTypes
<1>2. /\ \A s \in Server : /\ srv[s].log = <<>> /\ srv[s].commit = 0 /\ ~srv[s].leads
                           /\ srv[s].session.received = 0 /\ srv[s].session.committed = 0
      /\ net = {} /\ client.committed = 0 /\ client.next = 1 /\ client.sent = 0
  BY DEF Init, NewSession
<1>3. Len(<<>>) = 0 /\ 1 .. 0 = {}
  OBVIOUS
<1>4. ServersFit
  BY <1>2, <1>3 DEF ServersFit, Fits, Kept, InOrder, Covers, CommittedIn
<1> QED
  BY <1>1, <1>2, <1>3, <1>4 DEF DeliveryInv, NetFits, ClientFits, CommittedIn, CommittedAgrees

\* What is committed and known is in the log of a server that is elected.
LEMMA ElectedKnows ==
    ASSUME DeliveryInv, ElectedHasCommitted, NEW s \in Server, Elected(s)
    PROVE  \A q \in Server : srv[q].session.committed <= LastId(srv[s].log)
<1>1. PICK l \in Seq(Entry) : l = srv[s].log
  BY InvTypes, StateTypes
<1>2. LastId(l) \in Nat /\ IsLast(l, LastId(l))
  BY LastIdIs
<1> TAKE q \in Server
<1>3. CommittedIn(srv, srv[q].session.committed)
  BY DEF DeliveryInv, ServersFit
<1>4. CASE srv[q].session.committed = 0
  BY <1>1, <1>2, <1>4
<1>5. CASE \E u \in Server : \E i \in 1 .. srv[u].commit : srv[u].log[i].id = srv[q].session.committed
  <2>1. PICK u \in Server : \E i \in 1 .. srv[u].commit : srv[u].log[i].id = srv[q].session.committed
    BY <1>5
  <2>2. PICK i \in 1 .. srv[u].commit : srv[u].log[i].id = srv[q].session.committed
    BY <2>1
  <2>3. srv[u].commit \in Nat
    BY InvTypes, StateTypes
  <2>4. i <= Len(l) /\ l[i] = srv[u].log[i]
    BY <1>1, <2>2 DEF ElectedHasCommitted
  <2>5. i \in 1 .. Len(l)
    BY <1>1, <2>3, <2>4, EntryIds
  <2> QED
    BY <1>1, <1>2, <2>2, <2>4, <2>5 DEF IsLast
<1> QED
  BY <1>3, <1>4, <1>5 DEF CommittedIn

LEMMA ElectKeeps ==
    ASSUME DeliveryInv, TypeInv', Calm, NEW s \in Server, NEW Q \in SUBSET Server, Elect(s, Q)
    PROVE  DeliveryInv' /\ Keeps /\ UNCHANGED client
<1>1. /\ TypeOK /\ client.next \in Nat /\ 0 < client.next
      /\ \A q \in Server : srv[q] \in ServerState
      /\ \A q \in Server : srv'[q] \in ServerState
  BY InvTypes DEF TypeInv, TypeOK
<1>2. PICK t \in Term :
          /\ srv' = [q \in Server |-> IF q = s THEN NewLeader(s, Q, t)
                                      ELSE IF q \in Q THEN [srv[q] EXCEPT !.leads = FALSE, !.term = t]
                                      ELSE srv[q]]
          /\ [srv[s] EXCEPT !.leads = TRUE, !.term = t, !.leader = s] \in ServerState
          /\ NewLeader(s, Q, t) \in ServerState /\ NewLeader(s, Q, t).leads
          /\ ~srv[s].leads /\ UNCHANGED <<client, net, faults>>
  BY <1>1, ElectIs
<1>3. PICK r \in ServerState : r = NewLeader(s, Q, t)
  BY <1>2
<1>4. srv'[s] = r /\ Elected(s)
  BY <1>2, <1>3 DEF Elected
<1>5. \A q \in Server : srv[q].session.committed <= LastId(srv[s].log)
  BY <1>4, ElectedKnows DEF Calm, ReplicationKeeps
<1>6. \A q \in Server : Fits(srv[q], FirstReported, client.next)
  BY DEF DeliveryInv, ServersFit
<1>7. SessionFitsLog(srv[s])
  BY <1>4 DEF Calm, ElectedFit
<1>8. /\ Fits(r, FirstReported, client.next) /\ r.commit = srv[s].commit
      /\ \E q \in Q \cup {s} : r.session.committed = srv[q].session.committed
  <2>1. Fits(srv[s], FirstReported, client.next) /\ \A q \in Q : srv[q].session.committed <= LastId(srv[s].log)
    BY <1>5, <1>6
  <2>2. /\ TypeOK /\ client.next \in Nat /\ 0 < client.next
        /\ Fits(srv[s], FirstReported, client.next) /\ SessionFitsLog(srv[s]) /\ r = NewLeader(s, Q, t)
        /\ \A q \in Q : srv[q].session.committed <= LastId(srv[s].log)
        /\ s \in Server /\ Q \in SUBSET Server /\ t \in Term
    BY <1>1, <1>2, <1>3, <1>7, <2>1, Zenon
  <2>3. Fits(r, FirstReported, client.next) /\ LeadsFrom(s, Q, r)
    BY <2>2, NewLeaderFits
  <2> QED
    BY <2>3 DEF LeadsFrom
<1>9. ASSUME NEW q \in Server, q # s
      PROVE  /\ Fits(srv'[q], FirstReported, client.next) /\ srv'[q].commit = srv[q].commit
             /\ srv'[q].session.committed = srv[q].session.committed
  <2>1. CASE q \in Q
    <3>1. PICK e \in ServerState, d \in ServerState :
              e = srv[q] /\ d = srv'[q] /\ d = [e EXCEPT !.leads = FALSE, !.term = t]
      BY <1>1, <1>2, <1>9, <2>1
    <3>2. d.log = e.log /\ d.commit = e.commit /\ d.session = e.session /\ ~d.leads
      BY <3>1 DEF ServerState
    <3>3. Fits(e, FirstReported, client.next)
      BY <1>6, <3>1
    <3>4. Fits(d, FirstReported, client.next)
      BY <3>2, <3>3, FollowerFits
    <3> QED
      BY <3>1, <3>2, <3>4
  <2>2. CASE q \notin Q
    BY <1>2, <1>6, <1>9, <2>2
  <2> QED
    BY <2>1, <2>2
<1>10. \A q \in Server : srv[q].commit <= srv'[q].commit
  BY <1>1, <1>4, <1>8, <1>9, StateTypes
<1>11. \A q \in Server : Fits(srv'[q], FirstReported, client.next)
  BY <1>4, <1>8, <1>9
<1>12. \A q \in Server : \E u \in Server : srv'[q].session.committed = srv[u].session.committed
  BY <1>4, <1>8, <1>9
<1>13. UNCHANGED client /\ net' = net /\ CommittedAgrees' /\ CommittedStays
  BY <1>2 DEF Calm, ReplicationKeeps
<1> QED
  BY <1>10, <1>11, <1>12, <1>13, GroupKeeps

\* A step of one server, from e to r
LEMMA ServerKeeps ==
    ASSUME DeliveryInv, TypeInv', Calm, UNCHANGED client, NEW s \in Server, NEW r,
           srv' = [srv EXCEPT ![s] = r], Fits(r, FirstReported, client.next),
           srv[s].commit <= r.commit,
           \/ r.session.committed = 0 \/ r.session.committed = srv[s].session.committed
           \/ \E i \in 1 .. r.commit : r.log[i].id = r.session.committed,
           \A m \in net' : \/ m \in net
                           \/ /\ m.type = "Response"
                              /\ \/ m.session.committed = 0
                                 \/ \E q \in Server : m.session.committed = srv[q].session.committed
    PROVE  DeliveryInv' /\ Keeps /\ UNCHANGED client
<1>1. /\ srv'[s] = r /\ \A q \in Server \ {s} : srv'[q] = srv[q]
      /\ \A q \in Server : srv[q].commit \in Nat
  BY InvTypes, StateTypes DEF TypeOK
<1>2. \A q \in Server : Fits(srv[q], FirstReported, client.next)
  BY DEF DeliveryInv, ServersFit
<1>3. CommittedAgrees' /\ CommittedStays
  BY DEF Calm, ReplicationKeeps
<1>4. \A q \in Server : srv[q].commit <= srv'[q].commit
  BY <1>1
<1>5. \A q \in Server : Fits(srv'[q], FirstReported, client.next)
  BY <1>1, <1>2
<1>6. \A q \in Server :
         \/ srv'[q].session.committed = 0
         \/ \E u \in Server : srv'[q].session.committed = srv[u].session.committed
         \/ \E i \in 1 .. srv'[q].commit : srv'[q].log[i].id = srv'[q].session.committed
  BY <1>1
<1> QED
  BY <1>3, <1>4, <1>5, <1>6, GroupKeeps

LEMMA ReplicateKeeps ==
    ASSUME DeliveryInv, TypeInv', Calm, NEW s \in Server, NEW f \in Server, Replicate(s, f)
    PROVE  DeliveryInv' /\ Keeps /\ UNCHANGED client
<1>1. PICK p \in ServerState, l \in ServerState : p = srv[f] /\ l = srv[s]
  BY InvTypes
<1>2. PICK e : e = [p EXCEPT !.leads = FALSE, !.term = l.term, !.leader = s, !.log = l.log]
  OBVIOUS
<1>3. PICK n \in Nat : n = l.commit
  BY StateTypes
<1>4. PICK r : r = LocalCommit(e, n)
  OBVIOUS
<1>5. srv' = [srv EXCEPT ![f] = r] /\ UNCHANGED <<client, net, faults>>
  BY <1>1, <1>2, <1>3, <1>4, Zenon DEF Replicate
<1>6. /\ e \in ServerState /\ e.log = l.log /\ e.commit = p.commit /\ e.session = p.session /\ ~e.leads
  BY <1>2 DEF ServerState
<1>7. r.log = e.log /\ srv'[f] = r /\ r.commit \in Nat
  <2>1. r \in ServerState /\ r.log = e.log
    BY <1>4, <1>6, LocalCommitIs
  <2> QED
    BY <1>5, <2>1, StateTypes, InvTypes DEF TypeOK
<1>8. \A i \in 1 .. p.commit : i <= Len(l.log) /\ l.log[i] = p.log[i]
  BY <1>1, <1>6, <1>7 DEF Calm, ReplicationKeeps, CommittedStays
<1>9. p.commit <= Len(l.log)
  <2>1. PICK a \in Nat, b \in Nat : a = p.commit /\ b = Len(l.log)
    BY StateTypes
  <2>2. \A i \in 1 .. a : i <= b
    BY <1>8, <2>1
  <2>3. a = 0 \/ a \in 1 .. a
    BY <2>1
  <2> QED
    BY <2>1, <2>2, <2>3
<1>10. Fits(p, FirstReported, client.next) /\ Fits(l, FirstReported, client.next)
  BY <1>1 DEF DeliveryInv, ServersFit
<1>11. Fits(e, FirstReported, client.next)
  BY <1>6, <1>8, <1>9, <1>10, CopyFits
<1>12. /\ Fits(r, FirstReported, client.next) /\ e.commit <= r.commit
       /\ \/ r.session.committed = e.session.committed
          \/ \E i \in 1 .. r.commit : r.log[i].id = r.session.committed
  BY <1>4, <1>6, <1>11, CommitFits
<1>13. /\ \/ r.session.committed = srv[f].session.committed
          \/ \E i \in 1 .. r.commit : r.log[i].id = r.session.committed
       /\ srv[f].commit <= r.commit /\ UNCHANGED client /\ net' = net
  BY <1>1, <1>5, <1>6, <1>12
<1> QED
  BY <1>5, <1>12, <1>13, ServerKeeps

LEMMA CommitKeeps ==
    ASSUME DeliveryInv, TypeInv', Calm, NEW s \in Server, Commit(s)
    PROVE  DeliveryInv' /\ Keeps /\ UNCHANGED client
<1>1. PICK e \in ServerState : e = srv[s] /\ Fits(e, FirstReported, client.next)
  BY InvTypes DEF DeliveryInv, ServersFit
<1>2. PICK n \in e.commit + 1 .. Len(e.log) : srv' = [srv EXCEPT ![s] = LocalCommit(e, n)]
  BY <1>1, Zenon DEF Commit
<1>3. n \in Nat /\ UNCHANGED client /\ net' = net
  BY <1>2, StateTypes DEF Commit
<1>4. PICK r : r = LocalCommit(e, n) /\ srv' = [srv EXCEPT ![s] = r]
  BY <1>2
<1>5. /\ Fits(r, FirstReported, client.next) /\ e.commit <= r.commit
      /\ \/ r.session.committed = e.session.committed
         \/ \E i \in 1 .. r.commit : r.log[i].id = r.session.committed
  BY <1>1, <1>3, <1>4, CommitFits
<1> QED
  BY <1>1, <1>3, <1>4, <1>5, ServerKeeps

LEMMA StepDownKeeps ==
    ASSUME DeliveryInv, TypeInv', Calm, NEW s \in Server, StepDown(s)
    PROVE  DeliveryInv' /\ Keeps /\ UNCHANGED client
<1>1. PICK e \in ServerState : e = srv[s] /\ Fits(e, FirstReported, client.next)
  BY InvTypes DEF DeliveryInv, ServersFit
<1>2. PICK r : r = [e EXCEPT !.leads = FALSE]
  OBVIOUS
<1>3. /\ r \in ServerState /\ r.log = e.log /\ r.commit = e.commit /\ r.session = e.session /\ ~r.leads
      /\ e.commit \in Nat
  BY <1>2, StateTypes DEF ServerState
<1>4. Fits(r, FirstReported, client.next)
  BY <1>1, <1>3, FollowerFits
<1>5. srv' = [srv EXCEPT ![s] = r] /\ UNCHANGED client /\ net' = net
  BY <1>1, <1>2 DEF StepDown
<1> QED
  <2>1. /\ srv[s].commit <= r.commit /\ \A m \in net' : m \in net
        /\ r.session.committed = srv[s].session.committed
    BY <1>1, <1>3, <1>5
  <2> QED
    BY <1>4, <1>5, <2>1, ServerKeeps

LEMMA TimeoutKeeps ==
    ASSUME DeliveryInv, TypeInv', Calm, NEW s \in Server, SessionTimesOut(s)
    PROVE  DeliveryInv' /\ Keeps /\ UNCHANGED client
<1>1. PICK e \in ServerState : e = srv[s] /\ Fits(e, FirstReported, client.next)
  BY InvTypes DEF DeliveryInv, ServersFit
<1>2. PICK r : r = [e EXCEPT !.session = NewSession]
  OBVIOUS
<1>3. r.commit = e.commit /\ e.commit \in Nat /\ r.session.committed = 0
  BY <1>2, StateTypes DEF ServerState, NewSession
<1>4. e.leads => FirstReported /\ NoneAfter(e)
  BY <1>1, Zenon DEF Calm, TimeoutsAreLate, NoneAfter
<1>5. Fits(r, FirstReported, client.next)
  BY <1>1, <1>2, <1>4, NewSessionFits
<1>6. srv' = [srv EXCEPT ![s] = r] /\ UNCHANGED client /\ net' = net
  BY <1>1, <1>2 DEF SessionTimesOut
<1> QED
  <2>1. srv[s].commit <= r.commit /\ \A m \in net' : m \in net
    BY <1>1, <1>3, <1>6
  <2> QED
    BY <1>3, <1>5, <1>6, <2>1, ServerKeeps

LEMMA RequestKeeps ==
    ASSUME DeliveryInv, TypeInv', Calm, NEW m \in net, HandleRequest(m)
    PROVE  DeliveryInv' /\ Keeps /\ UNCHANGED client
<1>1. /\ TypeOK /\ srv \in [Server -> ServerState]
  BY InvTypes DEF TypeOK
<1>2. m \in Request /\ m.type \in {"Publish", "Restart"}
  BY <1>1, NetMember DEF HandleRequest
<1>3. PICK s \in Server, e \in ServerState : s = m.to /\ e = srv[s] /\ Fits(e, FirstReported, client.next)
  BY <1>1, <1>2 DEF Request, DeliveryInv, ServersFit
<1>4. m.ids \in Seq(Id) /\ m.sent \in Id /\ e.commit \in Nat
  BY <1>2, StateTypes DEF Request
<1>5. PICK r : r = IF m.type = "Publish" THEN Publication(e, m) ELSE Restart(e, m)
  OBVIOUS
<1>6. /\ IF e.leads
         THEN srv' = [srv EXCEPT ![s] = r] /\ net' = (net \ {m}) \cup {Answer(s, r, TRUE)}
         ELSE net' = (net \ {m}) \cup {Answer(s, e, FALSE)} /\ UNCHANGED srv
      /\ UNCHANGED client
  BY <1>3, <1>5, Zenon DEF HandleRequest
<1>7. CASE e.leads
  <2>1. /\ Fits(r, FirstReported, client.next) /\ r.commit = e.commit
        /\ r.session.committed = e.session.committed
    <3>1. CASE m.type = "Publish"
      <4>1. r = Publication(e, m)
        BY <1>5, <3>1
      <4>2. \A k \in 1 .. Len(m.ids) : m.ids[k] < client.next
        BY <3>1 DEF DeliveryInv, NetFits
      <4>3. FirstReported => \A k \in 1 .. Len(m.ids) : m.ids[k] # 1
        BY <1>4, <3>1, LenProperties DEF FirstReported
      <4> QED
        BY <1>3, <1>4, <1>7, <4>1, <4>2, <4>3, PublicationFits
    <3>2. CASE m.type = "Restart"
      <4>1. r = Restart(e, m)
        BY <1>5, <3>2
      <4>2. m.sent = LastId(e.log)
        BY <1>3, <1>7, <3>2 DEF Calm, RestartsGoOn
      <4> QED
        BY <1>3, <1>4, <1>7, <4>1, <4>2, RestartFits
    <3> QED
      BY <1>2, <3>1, <3>2
  <2>2. PICK a : a = Answer(s, r, TRUE)
    OBVIOUS
  <2>3. a.type = "Response" /\ a.session.committed = srv[s].session.committed
    BY <1>3, <2>1, <2>2 DEF Answer
  <2>4. \A x \in net' : x \in net \/ x = a
    BY <1>6, <1>7, <2>2
  <2>5. \A x \in net' : \/ x \in net
                        \/ /\ x.type = "Response"
                           /\ \/ x.session.committed = 0
                              \/ \E q \in Server : x.session.committed = srv[q].session.committed
    BY <2>3, <2>4
  <2>6. /\ srv' = [srv EXCEPT ![s] = r] /\ UNCHANGED client /\ srv[s].commit <= r.commit
        /\ r.session.committed = srv[s].session.committed
    BY <1>3, <1>4, <1>6, <1>7, <2>1
  <2> QED
    BY <2>1, <2>5, <2>6, ServerKeeps
<1>8. CASE ~e.leads
  <2>1. PICK a : a = Answer(s, e, FALSE)
    OBVIOUS
  <2>2. a.type = "Response" /\ a.session.committed = 0
    BY <2>1 DEF Answer, NewSession
  <2>3. \A x \in net' : x \in net \/ x = a
    BY <1>6, <1>8, <2>1
  <2>4. \A x \in net' : \/ x \in net
                        \/ /\ x.type = "Response"
                           /\ \/ x.session.committed = 0
                              \/ \E q \in Server : x.session.committed = srv[q].session.committed
    BY <2>2, <2>3
  <2>5. /\ srv' = [srv EXCEPT ![s] = e] /\ UNCHANGED client /\ srv[s].commit <= e.commit
        /\ e.session.committed = srv[s].session.committed
    BY <1>1, <1>3, <1>4, <1>6, <1>8
  <2> QED
    BY <1>3, <2>4, <2>5, ServerKeeps
<1> QED
  BY <1>7, <1>8

\* A step that leaves the queue of the client as it is
LEMMA SameFlowKeeps ==
    ASSUME DeliveryInv, TypeInv', UNCHANGED srv, NEW d, client' = d, SameFlow(client, d),
           client.committed <= d.sent,
           \A m \in net' :
              \/ m \in net \/ m.type = "Restart"
              \/ /\ m.type = "Publish"
                 /\ \A i \in 1 .. Len(m.ids) : client.sent < m.ids[i] /\ m.ids[i] < client.next
    PROVE  DeliveryInv' /\ client'.next = client.next /\ client'.committed = client.committed
<1>1. client.next \in Nat /\ client.committed \in Nat /\ client.committed < client.next
  BY InvTypes DEF DeliveryInv, ClientFits
<1>2. d.next = client.next /\ d.committed = client.committed
  BY DEF SameFlow
<1>3. CommittedIn(srv, client.committed)
  BY DEF DeliveryInv, ClientFits
<1>4. /\ client.next <= client'.next /\ client.committed <= client'.committed
      /\ client'.committed < client'.next /\ client'.committed <= client'.sent
      /\ CommittedIn(srv, client'.committed)
  BY <1>1, <1>2, <1>3
<1>5. \A m \in net' :
         \/ m \in net \/ m.type = "Restart"
         \/ /\ m.type = "Publish"
            /\ \A i \in 1 .. Len(m.ids) : client.sent < m.ids[i] /\ m.ids[i] < client'.next
  BY <1>2
<1> QED
  BY <1>2, <1>4, <1>5, ClientKeeps

LEMMA ClientStepKeeps ==
    ASSUME DeliveryInv, TypeInv', Publish \/ Process \/ Heartbeat \/ LoseConnection \/ LeaderTimeout
    PROVE  /\ DeliveryInv' /\ UNCHANGED srv /\ client'.committed = client.committed
           /\ client'.next \in {client.next, client.next + 1}
<1>1. /\ TypeOK /\ FlowFollows(client) /\ client \in Client /\ client \in LockingClient
      /\ client.next \in Nat /\ client.committed \in Nat /\ client.sent \in Nat
      /\ client.committed <= client.sent /\ client.committed < client.next
      /\ CommittedIn(srv, client.committed)
  BY InvTypes, ClientLocks DEF DeliveryInv, ClientFits
<1>2. ASSUME Publish
      PROVE  /\ DeliveryInv' /\ UNCHANGED srv /\ client'.committed = client.committed
             /\ client'.next \in {client.next, client.next + 1}
  <2>1. PICK c : c = [client EXCEPT !.next = client.next + 1]
    OBVIOUS
  <2>2. client.next \in Id \cup {MaxMessage + 1} /\ client.next <= MaxMessage
    BY <1>1, <1>2 DEF Client, Publish
  <2>3. client.next + 1 \in Id \cup {MaxMessage + 1}
    BY <2>2, PublishSessionAssumption DEF Id
  <2>4. /\ c \in LockingClient /\ c.next = client.next + 1 /\ c.committed = client.committed
        /\ c.sent = client.sent
    BY <1>1, <2>1, <2>3 DEF LockingClient, Client
  <2>5. client' = CheckFlow(c) /\ UNCHANGED <<srv, net, faults>>
    BY <1>2, <2>1 DEF Publish
  <2>6. PICK d : d = CheckFlow(c)
    OBVIOUS
  <2>7. \A f \in {"next", "sent", "committed", "leader", "link"} : d[f] = c[f]
    BY <2>4, <2>6, CheckFlowFollows
  <2>8. d.next = c.next /\ d.sent = c.sent /\ d.committed = c.committed
    BY <2>7
  <2>9. /\ client.next <= client'.next /\ client.committed <= client'.committed
        /\ client'.committed < client'.next /\ client'.committed <= client'.sent
        /\ CommittedIn(srv, client'.committed) /\ \A m \in net' : m \in net
        /\ client'.next = client.next + 1 /\ client'.committed = client.committed
    BY <1>1, <2>4, <2>5, <2>6, <2>8
  <2> QED
    BY <2>5, <2>9, ClientKeeps
<1>3. ASSUME Process
      PROVE  /\ DeliveryInv' /\ UNCHANGED srv /\ client'.committed = client.committed
             /\ client'.next \in {client.next, client.next + 1}
  <2>1. PICK d, q : d = [client EXCEPT !.link = "busy"] /\ q = PublishRequest(client.leader, Batch(client))
    OBVIOUS
  <2>2. SameFlow(client, d) /\ d.sent = client.sent
    BY <1>1, <2>1 DEF Client, SameFlow
  <2>3. q.type = "Publish" /\ \A i \in 1 .. Len(q.ids) : client.sent < q.ids[i] /\ q.ids[i] < client.next
    BY <1>1, <2>1, BatchIs DEF PublishRequest
  <2>4. client' = d /\ UNCHANGED srv /\ \A m \in net' : m \in net \/ m = q
    BY <1>3, <2>1 DEF Process
  <2>5. \A m \in net' :
           \/ m \in net \/ m.type = "Restart"
           \/ /\ m.type = "Publish"
              /\ \A i \in 1 .. Len(m.ids) : client.sent < m.ids[i] /\ m.ids[i] < client.next
    BY <2>3, <2>4
  <2> QED
    BY <1>1, <2>2, <2>4, <2>5, SameFlowKeeps
<1>4. ASSUME Heartbeat
      PROVE  /\ DeliveryInv' /\ UNCHANGED srv /\ client'.committed = client.committed
             /\ client'.next \in {client.next, client.next + 1}
  <2>1. PICK s \in Candidates(client) :
            client' = Connected(client, s) /\ net' = net \cup {PublishRequest(s, <<>>)}
    BY <1>4 DEF Heartbeat
  <2>2. s \in Server
    BY <1>1, <2>1 DEF Candidates, Client
  <2>3. PICK d, q : d = Connected(client, s) /\ q = PublishRequest(s, <<>>)
    OBVIOUS
  <2>4. SameFlow(client, d) /\ d.sent = client.sent
    BY <1>1, <2>2, <2>3, ClientHelpers
  <2>5. q.type = "Publish" /\ 1 .. Len(q.ids) = {}
    BY <2>3 DEF PublishRequest
  <2>6. client' = d /\ UNCHANGED srv /\ \A m \in net' : m \in net \/ m = q
    BY <1>4, <2>1, <2>3 DEF Heartbeat
  <2>7. \A m \in net' :
           \/ m \in net \/ m.type = "Restart"
           \/ /\ m.type = "Publish"
              /\ \A i \in 1 .. Len(m.ids) : client.sent < m.ids[i] /\ m.ids[i] < client.next
    BY <2>5, <2>6
  <2> QED
    BY <1>1, <2>4, <2>6, <2>7, SameFlowKeeps
<1>5. ASSUME LoseConnection \/ LeaderTimeout
      PROVE  /\ DeliveryInv' /\ UNCHANGED srv /\ client'.committed = client.committed
             /\ client'.next \in {client.next, client.next + 1}
  <2>1. PICK d : d = Disconnected(client)
    OBVIOUS
  <2>2. SameFlow(client, d) /\ d.sent \in {client.sent, client.committed}
    BY <1>1, <2>1, ClientHelpers, PublishSessionAssumption
  <2>3. client' = d /\ UNCHANGED srv /\ \A m \in net' : m \in net
    BY <1>5, <2>1 DEF LoseConnection, LeaderTimeout
  <2> QED
    BY <1>1, <2>2, <2>3, SameFlowKeeps
<1> QED
  BY <1>2, <1>3, <1>4, <1>5

\* What is committed at a server is a message that the client has published.
LEMMA CommittedPublished ==
    ASSUME DeliveryInv, NEW n \in Nat, CommittedIn(srv, n)
    PROVE  n < client.next
<1>1. CASE n = 0
  BY <1>1, InvTypes
<1>2. CASE \E s \in Server : \E i \in 1 .. srv[s].commit : srv[s].log[i].id = n
  <2>1. PICK s \in Server : \E i \in 1 .. srv[s].commit : srv[s].log[i].id = n
    BY <1>2
  <2>2. PICK i \in 1 .. srv[s].commit : srv[s].log[i].id = n
    BY <2>1
  <2>3. srv[s].commit <= Len(srv[s].log) /\ \A j \in 1 .. Len(srv[s].log) : srv[s].log[j].id < client.next
    BY DEF DeliveryInv, ServersFit, Fits, Kept
  <2>4. srv[s].commit \in Nat /\ Len(srv[s].log) \in Nat
    BY InvTypes, StateTypes
  <2> QED
    BY <2>2, <2>3, <2>4
<1> QED
  BY <1>1, <1>2 DEF CommittedIn

\* What the client reports when an answer says that id is committed
LEMMA ReportKeeps ==
    ASSUME DeliveryInv, TypeInv', UNCHANGED srv, NEW c \in Client, SameFlow(client, c),
           client.committed <= c.sent, NEW id \in Id, CommittedIn(srv, id),
           client' = RemoveCommitted(c, id), \A m \in net' : m \in net \/ m.type = "Restart"
    PROVE  DeliveryInv' /\ client'.committed \in {client.committed, id} /\ client'.next = client.next
                        /\ client.committed <= client'.committed
<1>1. /\ FlowFollows(client) /\ client.next \in Nat /\ client.committed \in Nat
      /\ CommittedIn(srv, client.committed) /\ client.committed < client.next
  BY InvTypes, ClientLocks DEF DeliveryInv, ClientFits
<1>2. c \in LockingClient /\ c.next = client.next /\ c.committed = client.committed
  BY <1>1, SameFlowFollows, LockingIs DEF SameFlow
<1>3. id < c.next
  <2>1. id \in Nat
    BY PublishSessionAssumption DEF Id
  <2> QED
    BY <1>2, <2>1, CommittedPublished
<1>4. PICK r : r = RemoveCommitted(c, id)
  OBVIOUS
<1>5. /\ r.next = c.next /\ r.committed \in {c.committed, id} /\ c.committed <= r.committed
      /\ r.committed <= r.sent
  BY <1>2, <1>3, <1>4, RemoveCommittedIs
<1>6. /\ client'.next = client.next /\ client.next <= client'.next
      /\ client.committed <= client'.committed /\ client'.committed \in {client.committed, id}
      /\ client'.committed < client'.next /\ client'.committed <= client'.sent
      /\ CommittedIn(srv, client'.committed)
  BY <1>1, <1>2, <1>3, <1>4, <1>5
<1>7. DeliveryInv'
  BY <1>6, ClientKeeps
<1> QED
  BY <1>6, <1>7

LEMMA ResponseKeeps ==
    ASSUME DeliveryInv, TypeInv', NEW m \in net, HandleResponse(m)
    PROVE  /\ DeliveryInv' /\ client'.next = client.next /\ UNCHANGED srv
           /\ client.committed <= client'.committed
           /\ client'.committed # client.committed => CommittedIn(srv, client'.committed)
<1>1. /\ TypeOK /\ TypeInv /\ client \in Client /\ UNCHANGED srv
      /\ client.committed \in Nat /\ client.sent \in Nat /\ client.committed <= client.sent
  BY InvTypes DEF HandleResponse
<1>2. /\ AfterResponse \in Client /\ SameFlow(client, AfterResponse) /\ Linked(AfterResponse)
      /\ AfterResponse.sent = client.sent
  BY <1>1, AfterResponseIs
<1>3. /\ m \in Response /\ m.session.committed \in Id /\ m.session.received \in Id
      /\ m.from \in Server
  BY <1>1, NetMember DEF HandleResponse, Response, Session
<1>4. CommittedIn(srv, m.session.committed)
  BY DEF DeliveryInv, NetFits, HandleResponse
<1>5. CASE IgnoredResponse(m)
  <2>1. PICK d : d = AfterResponse /\ client' = d /\ \A x \in net' : x \in net
    BY <1>5 DEF IgnoredResponse
  <2>2. SameFlow(client, d) /\ client.committed <= d.sent
    BY <1>1, <1>2, <2>1
  <2>3. DeliveryInv'
    BY <1>1, <2>1, <2>2, SameFlowKeeps
  <2> QED
    BY <1>1, <2>1, <2>2, <2>3 DEF SameFlow
<1>6. CASE RejectedResponse(m)
  <2>1. PICK c : c = Disconnected(AfterResponse)
    OBVIOUS
  <2>2. c \in Client /\ SameFlow(AfterResponse, c) /\ c.sent \in {AfterResponse.sent, AfterResponse.committed}
    BY <1>2, <1>3, <2>1, ClientHelpers
  <2>3. PICK d : d = IF m.leader = client.leader THEN AfterResponse ELSE [c EXCEPT !.leader = m.leader]
    OBVIOUS
  <2>4. SameFlow(client, d) /\ client.committed <= d.sent
    <3>1. CASE m.leader = client.leader
      BY <1>1, <1>2, <2>3, <3>1
    <3>2. CASE m.leader # client.leader
      <4>1. d = [c EXCEPT !.leader = m.leader]
        BY <2>3, <3>2
      <4>2. SameFlow(c, d) /\ d.sent = c.sent
        BY <2>2, <4>1 DEF Client, SameFlow
      <4> QED
        BY <1>1, <1>2, <2>2, <4>2 DEF SameFlow
    <3> QED
      BY <3>1, <3>2
  <2>5. client' = d /\ \A x \in net' : x \in net
    BY <1>6, <2>1, <2>3 DEF RejectedResponse
  <2>6. DeliveryInv'
    BY <1>1, <2>4, <2>5, SameFlowKeeps
  <2> QED
    BY <1>1, <2>4, <2>5, <2>6 DEF SameFlow
<1>7. ASSUME NEW c \in Client, SameFlow(client, c), client.committed <= c.sent,
             client' = RemoveCommitted(c, m.session.committed),
             \A x \in net' : x \in net \/ x.type = "Restart"
      PROVE  /\ DeliveryInv' /\ client'.next = client.next /\ UNCHANGED srv
             /\ client.committed <= client'.committed
             /\ client'.committed # client.committed => CommittedIn(srv, client'.committed)
  BY <1>1, <1>3, <1>4, <1>7, ReportKeeps
<1>8. CASE RestartResponse(m)
  <2>1. PICK c : c = Connected(AfterResponse, m.from)
    OBVIOUS
  <2>2. c \in Client /\ SameFlow(client, c) /\ client.committed <= c.sent
    BY <1>1, <1>2, <1>3, <2>1, ClientHelpers DEF SameFlow
  <2>3. /\ client' = RemoveCommitted(c, m.session.committed)
        /\ \A x \in net' : x \in net \/ x.type = "Restart"
    BY <1>8, <2>1 DEF RestartResponse
  <2> QED
    BY <1>7, <2>2, <2>3
<1>9. CASE AcceptedResponse(m)
  <2>1. PICK c : c = IF m.session.outOfOrder THEN [AfterResponse EXCEPT !.sent = m.session.received]
                     ELSE AfterResponse
    OBVIOUS
  <2>2. m.session.outOfOrder => m.session.received >= client.committed
    BY <1>9 DEF AcceptedResponse
  <2>3. c \in Client /\ SameFlow(client, c) /\ client.committed <= c.sent
    <3>1. CASE m.session.outOfOrder
      <4>1. c = [AfterResponse EXCEPT !.sent = m.session.received]
        BY <2>1, <3>1
      <4>2. c \in Client /\ SameFlow(AfterResponse, c) /\ c.sent = m.session.received
        BY <1>2, <1>3, <4>1 DEF Client, SameFlow
      <4>3. m.session.received \in Nat
        BY <1>3, PublishSessionAssumption DEF Id
      <4> QED
        BY <1>1, <1>2, <2>2, <3>1, <4>2, <4>3 DEF SameFlow
    <3>2. CASE ~m.session.outOfOrder
      BY <1>1, <1>2, <2>1, <3>2
    <3> QED
      BY <3>1, <3>2
  <2>4. /\ client' = RemoveCommitted(c, m.session.committed)
        /\ \A x \in net' : x \in net \/ x.type = "Restart"
    BY <1>9, <2>1, Zenon DEF AcceptedResponse
  <2> QED
    BY <1>7, <2>3, <2>4
<1> QED
  BY <1>5, <1>6, <1>8, <1>9 DEF HandleResponse

-----------------------------------------------------------------------------
(* The committed messages, as the abstract specification sees them. *)

\* 1, 2, ... n
CountTo(n) == [i \in 1 .. n |-> i]

LEMMA CountOn ==
    ASSUME NEW n \in Nat
    PROVE  CountTo(n) \in Seq(Nat) /\ Len(CountTo(n)) = n /\ Append(CountTo(n), n + 1) = CountTo(n + 1)
<1>1. PICK p : p = CountTo(n)
  OBVIOUS
<1>2. p \in Seq(Nat) /\ Len(p) = n /\ \A i \in 1 .. n : p[i] = i
  BY <1>1 DEF CountTo
<1>3. PICK r : r = Append(p, n + 1)
  OBVIOUS
<1>4. r \in Seq(Nat) /\ Len(r) = n + 1 /\ r[n + 1] = n + 1 /\ \A i \in 1 .. n : r[i] = i
  BY <1>2, <1>3, AppendProperties
<1>5. r = [i \in 1 .. n + 1 |-> r[i]]
  BY <1>4
<1>6. \A i \in 1 .. n + 1 : r[i] = i
  <2> TAKE i \in 1 .. n + 1
  <2>1. i \in 1 .. n \/ i = n + 1
    OBVIOUS
  <2> QED
    BY <1>4, <2>1
<1>7. r = CountTo(n + 1)
  BY <1>5, <1>6 DEF CountTo
<1> QED
  BY <1>1, <1>2, <1>3, <1>7

\* K[n]: the last message among the first n entries
LEMMA LastsExist ==
    ASSUME NEW l \in Seq(Entry), InOrder(l)
    PROVE  \E K \in [0 .. Len(l) -> Nat] :
              /\ K[0] = 0 /\ IsLast(l, K[Len(l)])
              /\ \A n \in 1 .. Len(l) :
                    /\ l[n].id = 0 => K[n] = K[n - 1]
                    /\ l[n].id # 0 => l[n].id = K[n - 1] + 1 /\ K[n] = K[n - 1] + 1
<1>1. PICK N \in Nat : N = Len(l)
  BY EntryIds
<1> DEFINE S(n) == {0} \cup {l[i].id : i \in 1 .. n}
           K == [n \in 0 .. N |-> Max(S(n))]
<1>2. \A i \in 1 .. N : l[i].id \in Id /\ l[i].id \in Nat
  BY <1>1, EntryIds
<1>3. ASSUME NEW n \in 0 .. N
      PROVE  K[n] \in Nat /\ K[n] \in S(n) /\ \A y \in S(n) : y <= K[n]
  <2>1. MaxMessage \in Nat /\ S(n) \in SUBSET (0 .. MaxMessage) /\ S(n) # {}
    BY <1>2, PublishSessionAssumption DEF Id
  <2>2. PICK T \in SUBSET (0 .. MaxMessage) : T = S(n) /\ T # {}
    BY <2>1
  <2>3. Max(T) \in T /\ \A y \in T : Max(T) >= y
    BY <2>1, <2>2, MaxIsReached
  <2>4. K[n] = Max(T)
    BY <2>2
  <2> HIDE DEF S, K
  <2>5. PICK k \in T : k = K[n] /\ k \in Nat /\ \A y \in T : k >= y
    <3>1. PICK k \in T : k = Max(T) /\ \A y \in T : k >= y
      BY <2>3
    <3>2. k \in Nat
      BY <2>1, <2>2, <3>1
    <3> QED
      BY <2>4, <3>1, <3>2
  <2>6. \A y \in T : y <= k
    BY <2>1, <2>2, <2>5
  <2> QED
    BY <2>2, <2>5, <2>6
<1>4. K \in [0 .. N -> Nat]
  <2>1. K = [n \in 0 .. N |-> K[n]]
    OBVIOUS
  <2> HIDE DEF K, S
  <2> QED
    BY <1>3, <2>1
<1>5. /\ S(0) = {0}
      /\ \A n \in 1 .. N : S(n) = S(n - 1) \cup {l[n].id}
  <2>1. \A n \in 1 .. N : 1 .. n = 1 .. n - 1 \cup {n}
    OBVIOUS
  <2> QED
    BY <2>1
<1>6. \A n \in 0 .. N : \A y \in S(n) : y = 0 \/ \E i \in 1 .. n : l[i].id = y
  OBVIOUS
<1>7. \A n \in 0 .. N : 0 \in S(n) /\ \A i \in 1 .. n : l[i].id \in S(n)
  OBVIOUS
<1> HIDE DEF S, K
<1>8. K[0] = 0
  BY <1>3, <1>5
<1>9. IsLast(l, K[N])
  BY <1>1, <1>3, <1>6, <1>7, N \in 0 .. N DEF IsLast
<1>10. ASSUME NEW n \in 1 .. N
       PROVE  /\ l[n].id = 0 => K[n] = K[n - 1]
              /\ l[n].id # 0 => l[n].id = K[n - 1] + 1 /\ K[n] = K[n - 1] + 1
  <2>1. n \in 0 .. N /\ n - 1 \in 0 .. N /\ n \in 1 .. n
    OBVIOUS
  <2>2. PICK a \in Nat, b \in Nat, x \in Nat : a = K[n - 1] /\ b = K[n] /\ x = l[n].id
    BY <1>2, <1>3, <2>1
  <2>3. /\ a \in S(n - 1) /\ \A y \in S(n - 1) : y <= a
        /\ b \in S(n) /\ \A y \in S(n) : y <= b
        /\ S(n) = S(n - 1) \cup {x}
    BY <1>3, <1>5, <2>1, <2>2
  <2>4. b = IF x > a THEN x ELSE a
    BY <2>2, <2>3
  <2>5. ASSUME x # 0
        PROVE  x = a + 1
    <3>1. /\ \A j \in 1 .. n - 1 : l[j].id < x
          /\ x = 1 \/ \E j \in 1 .. n - 1 : l[j].id = x - 1
      BY <1>1, <2>2, <2>5 DEF InOrder
    <3>2. a < x
      <4>1. a = 0 \/ \E i \in 1 .. n - 1 : l[i].id = a
        BY <1>6, <2>1, <2>3
      <4> QED
        BY <2>2, <2>5, <3>1, <4>1
    <3>3. x - 1 <= a
      <4>1. x - 1 \in S(n - 1)
        <5>1. CASE x = 1
          BY <1>7, <2>1, <5>1
        <5>2. CASE \E j \in 1 .. n - 1 : l[j].id = x - 1
          BY <1>7, <2>1, <5>2
        <5> QED
          BY <3>1, <5>1, <5>2
      <4> QED
        BY <2>3, <4>1
    <3> QED
      BY <2>2, <3>2, <3>3
  <2> QED
    BY <2>2, <2>4, <2>5
<1> QED
  BY <1>1, <1>4, <1>8, <1>9, <1>10

\* The ids of a log in order count up to its last message.
LEMMA IdsOfIs ==
    ASSUME NEW l \in Seq(Entry), InOrder(l)
    PROVE  \E n \in Nat : IsLast(l, n) /\ IdsOf(l) = CountTo(n)
<1>1. PICK N \in Nat : N = Len(l)
  BY EntryIds
<1>2. PICK K \in [0 .. N -> Nat] :
          /\ K[0] = 0 /\ IsLast(l, K[N])
          /\ \A n \in 1 .. N :
                /\ l[n].id = 0 => K[n] = K[n - 1]
                /\ l[n].id # 0 => l[n].id = K[n - 1] + 1 /\ K[n] = K[n - 1] + 1
  BY <1>1, LastsExist
<1> DEFINE Ids(f) == f = [n \in 0 .. N |-> IF n = 0 THEN <<>>
                                           ELSE IF l[n].id = 0 THEN f[n - 1]
                                           ELSE Append(f[n - 1], l[n].id)]
           g == [n \in 0 .. N |-> CountTo(K[n])]
           c == CHOOSE f : Ids(f)
<1>3. ASSUME NEW n \in 1 .. N
      PROVE  g[n] = IF l[n].id = 0 THEN g[n - 1] ELSE Append(g[n - 1], l[n].id)
  <2>1. PICK k \in Nat : k = K[n - 1] /\ g[n - 1] = CountTo(k)
    OBVIOUS
  <2>2. g[n] = CountTo(K[n])
    OBVIOUS
  <2> HIDE DEF g
  <2> QED
    BY <1>2, <2>1, <2>2, CountOn
<1>4. g[0] = <<>>
  <2>1. g[0] = CountTo(0)
    BY <1>2
  <2>2. CountTo(0) = <<>>
    <3>1. CountTo(0) \in Seq(Nat) /\ Len(CountTo(0)) = 0
      BY CountOn
    <3> QED
      BY <3>1, EmptySeq
  <2> QED
    BY <2>1, <2>2
<1>5. Ids(g)
  <2>1. g = [n \in 0 .. N |-> g[n]]
    OBVIOUS
  <2>2. \A n \in 0 .. N : g[n] = IF n = 0 THEN <<>> ELSE IF l[n].id = 0 THEN g[n - 1]
                                 ELSE Append(g[n - 1], l[n].id)
    <3> HIDE DEF g
    <3> TAKE n \in 0 .. N
    <3>1. n = 0 \/ (n # 0 /\ n \in 1 .. N)
      OBVIOUS
    <3> QED
      BY <1>3, <1>4, <3>1
  <2> HIDE DEF g
  <2> QED
    BY <2>1, <2>2
<1>6. Ids(c)
  <2> HIDE DEF Ids, g
  <2> QED
    BY <1>5
<1>7. IdsOf(l) = c[N]
  BY <1>1 DEF IdsOf
<1>8. /\ c[0] = <<>>
      /\ \A n \in 1 .. N : c[n] = IF l[n].id = 0 THEN c[n - 1] ELSE Append(c[n - 1], l[n].id)
  <2> HIDE DEF c
  <2>1. /\ 0 \in 0 .. N
        /\ \A n \in 0 .. N : c[n] = IF n = 0 THEN <<>> ELSE IF l[n].id = 0 THEN c[n - 1]
                                     ELSE Append(c[n - 1], l[n].id)
    <3> DEFINE h == [n \in 0 .. N |-> IF n = 0 THEN <<>> ELSE IF l[n].id = 0 THEN c[n - 1]
                                      ELSE Append(c[n - 1], l[n].id)]
    <3>1. c = h
      BY <1>6
    <3>2. \A n \in 0 .. N : h[n] = IF n = 0 THEN <<>> ELSE IF l[n].id = 0 THEN c[n - 1]
                                    ELSE Append(c[n - 1], l[n].id)
      OBVIOUS
    <3> HIDE DEF h
    <3> QED
      BY <3>1, <3>2
  <2>2. \A n \in 1 .. N : n \in 0 .. N /\ n # 0
    OBVIOUS
  <2> HIDE DEF Ids
  <2> QED
    BY <2>1, <2>2
<1> HIDE DEF c, g
<1> DEFINE P == {n \in 0 .. N : c[n] = g[n]}
<1>9. \A n \in 0 .. N : n \in P
  <2>1. 0 \in P
    BY <1>4, <1>8
  <2>2. ASSUME NEW k \in 1 .. N, k - 1 \in P
        PROVE  k \in P
    <3>1. c[k - 1] = g[k - 1] /\ k \in 0 .. N
      BY <2>2
    <3>2. c[k] = IF l[k].id = 0 THEN c[k - 1] ELSE Append(c[k - 1], l[k].id)
      BY <1>8
    <3>3. g[k] = IF l[k].id = 0 THEN g[k - 1] ELSE Append(g[k - 1], l[k].id)
      BY <1>3
    <3> QED
      BY <3>1, <3>2, <3>3
  <2>3. \A k \in 1 .. N : k - 1 \in P => k \in P
    BY <2>2
  <2> HIDE DEF P
  <2> QED
    BY <2>1, <2>3, UpTo
<1>10. c[N] = CountTo(K[N])
  BY <1>9 DEF g
<1> QED
  BY <1>1, <1>2, <1>7, <1>10

\* Some server has committed most.
LEMMA MostCommitted ==
    ASSUME NEW S \in [Server -> ServerState]
    PROVE  \E s \in Server : \A q \in Server : S[q].commit <= S[s].commit
<1>1. IsFiniteSet(Server) /\ Server # {}
  BY PublishSessionAssumption
<1>2. PICK N \in Nat : ExistsBijection(1 .. N, Server)
  BY <1>1, FS_CardinalityType
<1>3. PICK b \in [1 .. N -> Server] : \A s \in Server : \E k \in 1 .. N : b[k] = s
  BY <1>2 DEF ExistsBijection, Bijection, Surjection
<1>4. N # 0
  BY <1>1, <1>3
<1>5. \A s \in Server : S[s].commit \in Nat
  BY StateTypes
<1> DEFINE P == {k \in 0 .. N : k = 0 \/ \E j \in 1 .. k : \A i \in 1 .. k : S[b[i]].commit <= S[b[j]].commit}
<1>6. ASSUME NEW k \in 1 .. N, k - 1 \in P
      PROVE  k \in P
  <2>1. \A i \in 1 .. k : i \in 1 .. k - 1 \/ i = k
    OBVIOUS
  <2>2. \A i \in 1 .. k : S[b[i]].commit \in Nat
    BY <1>3, <1>5
  <2>3. CASE k - 1 = 0
    <3>1. k = 1 /\ 1 .. k = {k}
      BY <2>3
    <3>2. \A i \in 1 .. k : S[b[i]].commit <= S[b[k]].commit
      BY <2>2, <3>1
    <3> QED
      BY <3>1, <3>2
  <2>4. CASE \E j \in 1 .. k - 1 : \A i \in 1 .. k - 1 : S[b[i]].commit <= S[b[j]].commit
    <3>1. PICK j \in 1 .. k - 1 : \A i \in 1 .. k - 1 : S[b[i]].commit <= S[b[j]].commit
      BY <2>4
    <3>2. j \in 1 .. k /\ k \in 1 .. k
      OBVIOUS
    <3>3. CASE S[b[k]].commit <= S[b[j]].commit
      BY <2>1, <3>1, <3>2, <3>3
    <3>4. CASE S[b[j]].commit < S[b[k]].commit
      <4>1. \A i \in 1 .. k : S[b[i]].commit <= S[b[k]].commit
        BY <2>1, <2>2, <3>1, <3>2, <3>4
      <4> QED
        BY <3>2, <4>1
    <3> QED
      BY <2>2, <3>2, <3>3, <3>4
  <2> QED
    BY <1>6, <2>3, <2>4
<1>7. N \in P
  <2>1. 0 \in P /\ \A k \in 1 .. N : k - 1 \in P => k \in P
    BY <1>6
  <2> HIDE DEF P
  <2> QED
    BY <2>1, UpTo
<1>8. PICK j \in 1 .. N : \A i \in 1 .. N : S[b[i]].commit <= S[b[j]].commit
  BY <1>4, <1>7
<1> QED
  BY <1>3, <1>8

\* Delivered, of the servers in states S
DeliveredIn(S) ==
    LET s == CHOOSE s \in Server : \A q \in Server : S[q].commit <= S[s].commit
    IN  IdsOf(SubSeq(S[s].log, 1, S[s].commit))

\* n messages are committed, of less than x that are published.
DeliversTo(S, n, x) ==
    /\ DeliveredIn(S) = CountTo(n) /\ CommittedIn(S, n) /\ n < x
    /\ \A m \in Nat : CommittedIn(S, m) => m <= n

LEMMA DeliveredIs ==
    ASSUME NEW S \in [Server -> ServerState], NEW f, NEW x \in Nat, 0 < x,
           \A s \in Server : Fits(S[s], f, x),
           \A s, q \in Server : \A i \in 1 .. S[s].commit \cap 1 .. S[q].commit : S[s].log[i] = S[q].log[i]
    PROVE  \E n \in Nat : DeliversTo(S, n, x)
<1> DEFINE s == CHOOSE s \in Server : \A q \in Server : S[q].commit <= S[s].commit
<1>1. s \in Server /\ \A q \in Server : S[q].commit <= S[s].commit
  BY MostCommitted
<1>2. DeliveredIn(S) = IdsOf(SubSeq(S[s].log, 1, S[s].commit))
  BY DEF DeliveredIn
<1> HIDE DEF s
<1>3. PICK l \in Seq(Entry), k \in Nat, L \in Nat : l = S[s].log /\ k = S[s].commit /\ L = Len(l) /\ k <= L
  <2>1. S[s].log \in Seq(Entry) /\ Len(S[s].log) \in Nat /\ S[s].commit \in Nat
    BY <1>1, StateTypes
  <2>2. S[s].commit <= Len(S[s].log)
    BY <1>1 DEF Fits, Kept
  <2> QED
    BY <2>1, <2>2
<1>4. InOrder(l) /\ \A i \in 1 .. L : l[i].id < x
  BY <1>1, <1>3 DEF Fits, Kept
<1>5. PICK p : p = SubSeq(l, 1, k)
  OBVIOUS
<1>6. p \in Seq(Entry) /\ Len(p) = k /\ \A i \in 1 .. k : p[i] = l[i]
  <2>1. 1 \in 1 .. L + 1 /\ k \in 0 .. L
    BY <1>3
  <2> QED
    BY <1>3, <1>5, <2>1, SubSeqProperties
<1>7. InOrder(p)
  <2> SUFFICES ASSUME NEW i \in 1 .. k, p[i].id # 0
               PROVE  /\ \A j \in 1 .. i - 1 : p[j].id < p[i].id
                      /\ p[i].id = 1 \/ \E j \in 1 .. i - 1 : p[j].id = p[i].id - 1
    BY <1>6 DEF InOrder
  <2>1. i \in 1 .. L /\ p[i] = l[i] /\ \A j \in 1 .. i - 1 : j \in 1 .. k /\ p[j] = l[j]
    BY <1>3, <1>6
  <2>2. /\ \A j \in 1 .. i - 1 : l[j].id < l[i].id
        /\ l[i].id = 1 \/ \E j \in 1 .. i - 1 : l[j].id = l[i].id - 1
    BY <1>3, <1>4, <2>1 DEF InOrder
  <2> QED
    BY <2>1, <2>2
<1>8. PICK n \in Nat : IsLast(p, n) /\ IdsOf(p) = CountTo(n)
  BY <1>6, <1>7, IdsOfIs
<1>9. (\A i \in 1 .. k : l[i].id <= n) /\ (n = 0 \/ \E i \in 1 .. k : l[i].id = n)
  BY <1>6, <1>8 DEF IsLast
<1>10. CommittedIn(S, n)
  BY <1>1, <1>3, <1>9 DEF CommittedIn
<1>11. n < x
  BY <1>3, <1>4, <1>9
<1>12. ASSUME NEW m \in Nat, CommittedIn(S, m)
       PROVE  m <= n
  <2>1. CASE m = 0
    BY <2>1
  <2>2. CASE \E q \in Server : \E i \in 1 .. S[q].commit : S[q].log[i].id = m
    <3>1. PICK q \in Server : \E i \in 1 .. S[q].commit : S[q].log[i].id = m
      BY <2>2
    <3>2. PICK i \in 1 .. S[q].commit : S[q].log[i].id = m
      BY <3>1
    <3>3. S[q].commit \in Nat /\ S[q].commit <= k
      BY <1>1, <1>3, StateTypes
    <3>4. i \in 1 .. k /\ i \in 1 .. S[q].commit
      BY <3>3
    <3>5. S[q].log[i] = l[i]
      BY <1>1, <1>3, <3>4
    <3> QED
      BY <1>9, <3>2, <3>4, <3>5
  <2> QED
    BY <1>12, <2>1, <2>2 DEF CommittedIn
<1>13. DeliveredIn(S) = CountTo(n)
  BY <1>2, <1>3, <1>5, <1>8
<1> QED
  BY <1>10, <1>11, <1>12, <1>13 DEF DeliversTo

LEMMA DeliveredNow ==
    ASSUME DeliveryInv
    PROVE  \E n \in Nat : DeliversTo(srv, n, client.next)
<1>1. srv \in [Server -> ServerState] /\ client.next \in Nat /\ 0 < client.next
  BY InvTypes DEF TypeOK
<1>2. /\ \A s \in Server : Fits(srv[s], FirstReported, client.next)
      /\ \A s, q \in Server : \A i \in 1 .. srv[s].commit \cap 1 .. srv[q].commit :
            srv[s].log[i] = srv[q].log[i]
  BY DEF DeliveryInv, ServersFit, CommittedAgrees
<1> QED
  BY <1>1, <1>2, DeliveredIs

LEMMA DeliveredNext ==
    ASSUME DeliveryInv'
    PROVE  \E n \in Nat : DeliversTo(srv', n, client'.next)
<1>1. /\ srv' \in [Server -> ServerState] /\ client'.next \in Nat /\ client'.committed \in Nat
      /\ client'.committed < client'.next
  <2>1. srv' \in [Server -> ServerState] /\ client' \in Client
    BY DEF DeliveryInv, TypeInv, TypeOK
  <2> QED
    BY <2>1, PublishSessionAssumption DEF Client, Id, DeliveryInv, ClientFits
<1>2. /\ \A s \in Server : Fits(srv'[s], FirstReported', client'.next)
      /\ \A s, q \in Server : \A i \in 1 .. srv'[s].commit \cap 1 .. srv'[q].commit :
            srv'[s].log[i] = srv'[q].log[i]
  BY DEF DeliveryInv, ServersFit, CommittedAgrees
<1>3. 0 < client'.next
  BY <1>1
<1> QED
  BY <1>1, <1>2, <1>3, DeliveredIs

LEMMA StutterKeeps == DeliveryInv /\ UNCHANGED vars => DeliveryInv'
<1> SUFFICES ASSUME DeliveryInv, UNCHANGED vars
             PROVE  DeliveryInv'
  OBVIOUS
<1>1. TypeInv'
  BY StutterTypes DEF DeliveryInv
<1>2. srv' = srv /\ client' = client /\ net' = net
  BY DEF vars
<1>3. FirstReported' <=> FirstReported
  BY <1>2 DEF FirstReported
<1> QED
  BY <1>1, <1>2, <1>3 DEF DeliveryInv, CommittedAgrees, ServersFit, NetFits, ClientFits

\* What a calm step does: the servers commit, or the client publishes, or reports.
LEMMA StepKeeps ==
    ASSUME DeliveryInv, Next, Calm
    PROVE  /\ DeliveryInv'
           /\ \/ Keeps /\ UNCHANGED client
              \/ UNCHANGED srv /\ client'.next = client.next + 1 /\ client'.committed = client.committed
              \/ /\ UNCHANGED srv /\ client'.next = client.next
                 /\ client.committed <= client'.committed
                 /\ client'.committed # client.committed => CommittedIn(srv, client'.committed)
<1>1. TypeInv'
  BY NextTypes DEF DeliveryInv
<1>2. CASE \E s \in Server : \/ \E Q \in SUBSET Server : Elect(s, Q)
                             \/ \E f \in Server : Replicate(s, f)
                             \/ Commit(s) \/ StepDown(s) \/ SessionTimesOut(s)
  <2>1. PICK s \in Server : \/ \E Q \in SUBSET Server : Elect(s, Q)
                            \/ \E f \in Server : Replicate(s, f)
                            \/ Commit(s) \/ StepDown(s) \/ SessionTimesOut(s)
    BY <1>2
  <2>2. DeliveryInv' /\ Keeps /\ UNCHANGED client
    <3>1. CASE \E Q \in SUBSET Server : Elect(s, Q)
      BY <1>1, <3>1, ElectKeeps
    <3>2. CASE \E f \in Server : Replicate(s, f)
      BY <1>1, <3>2, ReplicateKeeps
    <3>3. CASE Commit(s)
      BY <1>1, <3>3, CommitKeeps
    <3>4. CASE StepDown(s)
      BY <1>1, <3>4, StepDownKeeps
    <3>5. CASE SessionTimesOut(s)
      BY <1>1, <3>5, TimeoutKeeps
    <3> QED
      BY <2>1, <3>1, <3>2, <3>3, <3>4, <3>5
  <2> QED
    BY <2>2
<1>3. CASE \E m \in net : HandleRequest(m)
  <2>1. DeliveryInv' /\ Keeps /\ UNCHANGED client
    BY <1>1, <1>3, RequestKeeps
  <2> QED
    BY <2>1
<1>4. CASE \E m \in net : HandleResponse(m)
  BY <1>1, <1>4, ResponseKeeps
<1>5. CASE Publish \/ Process \/ Heartbeat \/ LoseConnection \/ LeaderTimeout
  <2>1. /\ DeliveryInv' /\ UNCHANGED srv /\ client'.committed = client.committed
        /\ client'.next \in {client.next, client.next + 1}
    BY <1>1, <1>5, ClientStepKeeps
  <2>2. client.committed \in Nat
    BY InvTypes
  <2> QED
    BY <2>1, <2>2
<1> QED
  BY <1>2, <1>3, <1>4, <1>5 DEF Next

LEMMA CalmKeeps == DeliveryInv /\ [Next]_vars /\ [Calm]_vars => DeliveryInv'
  BY StepKeeps, StutterKeeps

LEMMA InitDelivered == Init => Promise!Init
<1> SUFFICES ASSUME Init
             PROVE  Promise!Init
  OBVIOUS
<1>1. DeliveryInv
  BY InitDelivers
<1>2. PICK n \in Nat : DeliversTo(srv, n, client.next)
  BY <1>1, DeliveredNow
<1>3. client.next = 1 /\ client.committed = 0
  BY DEF Init
<1>4. n = 0
  BY <1>2, <1>3 DEF DeliversTo
<1>5. Delivered = CountTo(0)
  BY <1>2, <1>4 DEF DeliversTo, DeliveredIn, Delivered
<1>6. CountTo(0) = <<>>
  <2>1. CountTo(0) \in Seq(Nat) /\ Len(CountTo(0)) = 0
    BY CountOn
  <2> QED
    BY <2>1, EmptySeq
<1> QED
  BY <1>3, <1>5, <1>6 DEF Promise!Init

\* A calm step is a step of the abstract specification, or changes nothing there.
LEMMA StepDelivers ==
    DeliveryInv /\ [Next]_vars /\ [Calm]_vars => [Promise!Next]_(Promise!vars)
<1> SUFFICES ASSUME DeliveryInv, [Next]_vars, [Calm]_vars
             PROVE  [Promise!Next]_(Promise!vars)
  OBVIOUS
<1>1. CASE UNCHANGED vars
  BY <1>1 DEF vars, Promise!vars, Delivered
<1>2. CASE Next /\ Calm
  <2>1. /\ DeliveryInv'
        /\ \/ Keeps /\ UNCHANGED client
           \/ UNCHANGED srv /\ client'.next = client.next + 1 /\ client'.committed = client.committed
           \/ /\ UNCHANGED srv /\ client'.next = client.next
              /\ client.committed <= client'.committed
              /\ client'.committed # client.committed => CommittedIn(srv, client'.committed)
    BY <1>2, StepKeeps
  <2>2. PICK n \in Nat : DeliversTo(srv, n, client.next)
    BY DeliveredNow
  <2>3. PICK k \in Nat : DeliversTo(srv', k, client'.next)
    BY <2>1, DeliveredNext
  <2>4. Delivered = CountTo(n) /\ Delivered' = CountTo(k)
    BY <2>2, <2>3 DEF DeliversTo, DeliveredIn, Delivered
  <2>5. client.next \in Nat /\ client.committed \in Nat /\ Len(Delivered) = n
    BY <2>2, <2>4, InvTypes, CountOn
  <2>6. CASE Keeps /\ UNCHANGED client
    <3>1. n <= k /\ k < client.next
      BY <2>2, <2>3, <2>6 DEF Keeps, DeliversTo
    <3>2. CASE n = k
      BY <2>4, <2>6, <3>2 DEF Promise!vars
    <3>3. CASE n < k
      <4>1. k \in Len(Delivered) + 1 .. client.next - 1
        BY <2>5, <3>1, <3>3
      <4>2. Promise!Deliver
        BY <2>4, <2>6, <4>1 DEF Promise!Deliver, CountTo
      <4> QED
        BY <4>2 DEF Promise!Next
    <3> QED
      BY <3>1, <3>2, <3>3
  <2>7. CASE UNCHANGED srv /\ client'.next = client.next + 1 /\ client'.committed = client.committed
    <3>1. Delivered' = Delivered
      BY <2>7 DEF Delivered
    <3>2. client'.next - 1 = client.next - 1 + 1
      BY <2>5, <2>7
    <3>3. Promise!Publish
      BY <2>7, <3>1, <3>2 DEF Promise!Publish
    <3> QED
      BY <3>3 DEF Promise!Next
  <2>8. CASE /\ UNCHANGED srv /\ client'.next = client.next
             /\ client.committed <= client'.committed
             /\ client'.committed # client.committed => CommittedIn(srv, client'.committed)
    <3>1. Delivered' = Delivered
      BY <2>8 DEF Delivered
    <3>2. CASE client'.committed = client.committed
      BY <2>8, <3>1, <3>2 DEF Promise!vars
    <3>3. CASE client'.committed # client.committed
      <4>1. client'.committed \in Nat
        <5>1. client' \in Client
          BY <2>1 DEF DeliveryInv, TypeInv, TypeOK
        <5> QED
          BY <5>1, PublishSessionAssumption DEF Client, Id
      <4>2. client'.committed <= n
        BY <2>2, <2>8, <3>3, <4>1 DEF DeliversTo
      <4>3. client'.committed \in client.committed + 1 .. Len(Delivered)
        BY <2>5, <2>8, <3>3, <4>1, <4>2
      <4>4. Promise!Report
        BY <2>8, <3>1, <4>3 DEF Promise!Report
      <4> QED
        BY <4>4 DEF Promise!Next
    <3> QED
      BY <3>2, <3>3
  <2> QED
    BY <2>1, <2>6, <2>7, <2>8
<1> QED
  BY <1>1, <1>2

(***************************************************************************)
(* In calm behaviours the messages of the client are committed once each   *)
(* and in their order, none is taken back, and the client is told of a     *)
(* commit only after it: through elections, lost and late requests,        *)
(* sessions that are lost and that start again (publish.rs, session.rs).   *)
(* What a calm step keeps is listed in PublishSession (Calm).              *)
(***************************************************************************)
THEOREM DeliversWhenCalm == Spec /\ [][Calm]_vars => DeliversOnce
<1>1. Init => DeliveryInv
  BY InitDelivers
<1> QED
  BY <1>1, CalmKeeps, InitDelivered, StepDelivers, PTL DEF Spec, DeliversOnce, Promise!Spec

=============================================================================
