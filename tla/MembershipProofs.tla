-------------------------- MODULE MembershipProofs --------------------------
(***************************************************************************)
(* The configurations of a group, for any servers, any logs and all        *)
(* bounds.  The types hold in every behaviour; that a leader makes one     *)
(* change at a time holds in those whose steps keep OnePending and         *)
(* LeadersBelong; that it works with the newest configuration, in those    *)
(* whose steps also keep CommittedKept and UsedKept.                       *)
(*                                                                         *)
(* The argument.  Whatever the handler, a step makes one of seven things   *)
(* of a server (Moves): it keeps log and configuration, it commits, it     *)
(* gets another log, it is elected, it adds a configuration, it leaves, or *)
(* it starts again.  What local_commit and on_leader do to a configuration *)
(* is a fold over entries; its result is that of the last entry that has   *)
(* one (Adopts, Reuses).  A leader with a change pending has changing set  *)
(* (OneChange), so it adds no other; and where the configuration of a      *)
(* server is in its log (Placed) is carried through each of the seven.     *)
(* That a commit leaves a leader with its newest configuration needs       *)
(* OneChange: what it commits is the only one pending.                     *)
(***************************************************************************)
EXTENDS Membership, FiniteSetTheorems, NaturalsInduction, SequenceTheorems, TLAPS

-----------------------------------------------------------------------------
(* Numbers: least and greatest elements, and induction up to a bound. *)

LEMMA MinIsReached ==
    ASSUME NEW S \in SUBSET Nat, S # {}
    PROVE  Min(S) \in S /\ \A y \in S : Min(S) <= y
<1>1. PICK t \in S : \A u \in S : ~(<<u, t>> \in OpToRel(<, Nat))
  BY NatLessThanWellFounded, WFMin, Zenon
<1>2. \A u \in S : t <= u
  <2> TAKE u \in S
  <2>1. u < t => <<u, t>> \in {ss \in Nat \X Nat : ss[1] < ss[2]}
    OBVIOUS
  <2>2. OpToRel(<, Nat) = {ss \in Nat \X Nat : ss[1] < ss[2]}
    BY Zenon DEF OpToRel
  <2>3. ~(u < t)
    BY <1>1, <2>1, <2>2
  <2> QED
    BY <2>3
<1> QED
  BY <1>2 DEF Min

LEMMA MaxIsReached ==
    ASSUME NEW b \in Nat, NEW S \in SUBSET (0 .. b), S # {}
    PROVE  Max(S) \in S /\ \A y \in S : Max(S) >= y
<1> DEFINE T == {n \in 0 .. b : b - n \in S}
<1>1. PICK s \in S : TRUE
  OBVIOUS
<1>2. T \in SUBSET Nat /\ b - s \in T
  OBVIOUS
<1>3. Min(T) \in T /\ \A y \in T : Min(T) <= y
  <2> HIDE DEF T
  <2> QED
    BY <1>2, MinIsReached
<1>4. PICK t \in T : \A y \in T : t <= y
  BY <1>3
<1>5. b - t \in S /\ \A y \in S : b - t >= y
  <2>1. \A y \in S : b - y \in T
    OBVIOUS
  <2> QED
    BY <1>4, <2>1
<1> QED
  BY <1>5 DEF Max

LEMMA MaxOfTwo ==
    ASSUME NEW a \in Int, NEW b \in Int
    PROVE  Max({a, b}) = IF a >= b THEN a ELSE b
<1>1. \A x \in {a, b} : (\A y \in {a, b} : x >= y) <=> x = IF a >= b THEN a ELSE b
  OBVIOUS
<1> QED
  BY <1>1 DEF Max

LEMMA MinOfTwo ==
    ASSUME NEW a \in Int, NEW b \in Int
    PROVE  Min({a, b}) = IF a <= b THEN a ELSE b
<1>1. \A x \in {a, b} : (\A y \in {a, b} : x <= y) <=> x = IF a <= b THEN a ELSE b
  OBVIOUS
<1> QED
  BY <1>1 DEF Min

\* Induction up to N, over the set of the numbers for which it holds.
LEMMA UpTo ==
    ASSUME NEW N \in Nat, NEW P, 0 \in P, \A k \in 1 .. N : k - 1 \in P => k \in P
    PROVE  \A k \in 0 .. N : k \in P
<1> SUFFICES ASSUME NEW j \in 0 .. N, j \notin P
             PROVE  FALSE
  OBVIOUS
<1> DEFINE S == {k \in 0 .. N : k \notin P}
<1>1. S \in SUBSET Nat /\ S # {}
  OBVIOUS
<1>2. PICK m \in S : \A y \in S : m <= y
  <2> HIDE DEF S
  <2> QED
    BY <1>1, MinIsReached
<1>3. m \in 1 .. N /\ m - 1 \notin S
  BY <1>2
<1> QED
  BY <1>3

-----------------------------------------------------------------------------
(* What a fold from the left is: a chain of values, one for each element.  *)
(* FoldLeft is a recursive function on the subsets of the domain, and the  *)
(* first lemma says that there is one.                                     *)

FoldSolution(g, N, base, G) ==
    \A s \in SUBSET (1 .. N) :
        g[s] = IF s = {} THEN base ELSE G[<<g[s \ {Max(s)}], Max(s)>>]

LEMMA FoldExists ==
    ASSUME NEW T, NEW N \in Nat, NEW base \in T, NEW G \in [T \X (1 .. N) -> T]
    PROVE  \E g \in [SUBSET (1 .. N) -> T] : FoldSolution(g, N, base, G)
<1> DEFINE Solves(g, k) == \A s \in SUBSET (1 .. k) :
               g[s] = IF s = {} THEN base ELSE G[<<g[s \ {Max(s)}], Max(s)>>]
           Solutions(k) == {g \in [SUBSET (1 .. N) -> T] : Solves(g, k)}
           P == {k \in 0 .. N : Solutions(k) # {}}
<1>1. 0 \in P
  <2> DEFINE g == [s \in SUBSET (1 .. N) |-> base]
  <2>1. g \in [SUBSET (1 .. N) -> T]
    OBVIOUS
  <2>2. SUBSET (1 .. 0) = {{}} /\ {} \in SUBSET (1 .. N)
    OBVIOUS
  <2>3. Solves(g, 0)
    BY <2>2
  <2>4. g \in Solutions(0)
    BY <2>1, <2>3
  <2> HIDE DEF Solutions, g
  <2> QED
    BY <2>4
<1>2. ASSUME NEW k \in 1 .. N, k - 1 \in P
      PROVE  k \in P
  <2>1. PICK g \in Solutions(k - 1) : TRUE
    <3> HIDE DEF Solutions
    <3> QED
      BY <1>2
  <2> DEFINE h == [s \in SUBSET (1 .. N) |-> IF k \in s THEN G[<<g[s \ {k}], k>>] ELSE g[s]]
  <2>2. h \in [SUBSET (1 .. N) -> T]
    BY <2>1
  <2>3. ASSUME NEW s \in SUBSET (1 .. k)
        PROVE  h[s] = IF s = {} THEN base ELSE G[<<h[s \ {Max(s)}], Max(s)>>]
    <3>1. s \in SUBSET (1 .. N) /\ s \ {k} \in SUBSET (1 .. N)
      OBVIOUS
    <3>2. CASE k \in s
      <4>1. Max(s) = k
        <5>1. k \in Nat /\ s \in SUBSET (0 .. k) /\ s # {}
          BY <3>2
        <5>2. Max(s) \in s /\ \A y \in s : Max(s) >= y
          BY <5>1, MaxIsReached
        <5> QED
          <6> DEFINE m == Max(s)
          <6>1. m \in 0 .. k /\ m >= k
            BY <5>1, <5>2, <3>2
          <6> HIDE DEF m
          <6> QED
            BY <6>1 DEF m
      <4>2. h[s] = G[<<g[s \ {k}], k>>] /\ h[s \ {k}] = g[s \ {k}]
        BY <3>1, <3>2
      <4> HIDE DEF h
      <4> QED
        BY <4>1, <4>2, <3>2
    <3>3. CASE k \notin s
      <4>1. s \in SUBSET (1 .. k - 1)
        BY <3>3
      <4>2. g[s] = IF s = {} THEN base ELSE G[<<g[s \ {Max(s)}], Max(s)>>]
        BY <2>1, <4>1
      <4>3. h[s] = g[s] /\ h[s \ {Max(s)}] = g[s \ {Max(s)}]
        BY <3>1, <3>3
      <4> HIDE DEF h
      <4> QED
        BY <4>2, <4>3
    <3> QED
      BY <3>2, <3>3
  <2>4. h \in Solutions(k)
    <3> HIDE DEF h
    <3> QED
      BY <2>2, <2>3
  <2> HIDE DEF Solutions, h
  <2> QED
    BY <2>4
<1>3. N \in P
  <2> HIDE DEF P
  <2>1. \A k \in 1 .. N : k - 1 \in P => k \in P
    BY <1>2
  <2> QED
    BY <1>1, <2>1, UpTo
<1>4. Solutions(N) # {}
  <2> HIDE DEF Solutions
  <2> QED
    BY <1>3
<1> QED
  BY <1>4 DEF FoldSolution

\* The initial sections of 1 .. k
LEMMA Sections ==
    ASSUME NEW k \in Nat, k # 0
    PROVE  1 .. k # {} /\ Max(1 .. k) = k /\ (1 .. k) \ {k} = 1 .. k - 1
<1>1. k \in Nat /\ 1 .. k \in SUBSET (0 .. k) /\ k \in 1 .. k
  OBVIOUS
<1>2. Max(1 .. k) \in 1 .. k /\ Max(1 .. k) >= k
  BY <1>1, MaxIsReached
<1> QED
  BY <1>1, <1>2

-----------------------------------------------------------------------------
(* What the operators of a server return. *)

LEMMA ReconfigureIs ==
    ASSUME NEW e \in ServerState, NEW s \in Server, NEW config \in SUBSET Server,
           NEW r, r = Reconfigure(e, s, config)
    PROVE  /\ r \in ServerState /\ r.config = config /\ ~r.changing
           /\ r.leads = e.leads /\ r.log = e.log /\ r.commit = e.commit /\ r.saved = e.saved
<1> DEFINE left == s \in e.config \ config /\ ~e.catching
           f == IF left THEN OnLeft(e) ELSE e
<1>1. OnLeft(e) = [e EXCEPT !.attempt = 0, !.told = IF e.attempt > 0 THEN "left" ELSE e.told]
  BY DEF OnLeft
<1>2. /\ OnLeft(e) \in ServerState /\ OnLeft(e).leads = e.leads /\ OnLeft(e).log = e.log
      /\ OnLeft(e).commit = e.commit /\ OnLeft(e).saved = e.saved
  <2>1. 0 \in 0 .. MaxAttempts + 1
    BY MembershipAssumption
  <2>2. (IF e.attempt > 0 THEN "left" ELSE e.told) \in {"nothing", "left", "failed"}
    BY DEF ServerState
  <2> QED
    BY <1>1, <2>1, <2>2 DEF ServerState
<1>3. /\ f \in ServerState /\ f.leads = e.leads /\ f.log = e.log /\ f.commit = e.commit
      /\ f.saved = e.saved
  BY <1>2
<1> HIDE DEF f
<1>4. r = [f EXCEPT !.config = config, !.changing = FALSE]
  BY DEF Reconfigure, f
<1> QED
  BY <1>3, <1>4 DEF ServerState

LEMMA CommitConfigurationIs ==
    ASSUME NEW e \in ServerState, NEW s \in Server, NEW config \in SUBSET Server,
           NEW r, r = CommitConfiguration(e, s, config)
    PROVE  /\ r \in ServerState /\ r.config = config /\ r.saved = config /\ ~r.changing
           /\ r.leads = e.leads /\ r.log = e.log /\ r.commit = e.commit
<1> DEFINE joined == e.catching /\ s \in config
<1>1. PICK f : f = Reconfigure(e, s, config)
  OBVIOUS
<1>2. /\ f \in ServerState /\ f.config = config /\ ~f.changing
      /\ f.leads = e.leads /\ f.log = e.log /\ f.commit = e.commit
  BY <1>1, ReconfigureIs
<1>3. e.catching \in BOOLEAN /\ e.join \in BOOLEAN
  BY DEF ServerState
<1>4. r = [f EXCEPT !.saved = config, !.catching = IF joined THEN FALSE ELSE e.catching,
                    !.join = IF joined THEN FALSE ELSE e.join]
  BY <1>1 DEF CommitConfiguration
<1> QED
  BY <1>2, <1>3, <1>4 DEF ServerState

LEMMA CommitEntryTyped ==
    ASSUME NEW s \in Server, NEW d \in ServerState, NEW x \in Entry
    PROVE  CommitEntry(d, s, x) \in ServerState
<1>1. x.config \in SUBSET Server
  BY DEF Entry
<1> QED
  BY <1>1, CommitConfigurationIs DEF CommitEntry

LEMMA UseEntryTyped ==
    ASSUME NEW s \in Server, NEW d \in ServerState, NEW x \in Entry
    PROVE  UseEntry(d, s, x) \in ServerState
<1>1. x.config \in SUBSET Server
  BY DEF Entry
<1>2. CASE x.config = {}
  BY <1>2 DEF UseEntry
<1>3. CASE x.config # {}
  <2>1. PICK r : r = Reconfigure(d, s, x.config)
    OBVIOUS
  <2>2. r \in ServerState
    BY <1>1, <2>1, ReconfigureIs
  <2>3. UseEntry(d, s, x) = [r EXCEPT !.changing = TRUE]
    BY <1>3, <2>1 DEF UseEntry
  <2> QED
    BY <2>2, <2>3 DEF ServerState
<1> QED
  BY <1>2, <1>3

\* The entries that local_commit commits
LEMMA FoldCommit ==
    ASSUME NEW s \in Server, NEW base \in ServerState, NEW q \in Seq(Entry)
    PROVE  \E a \in [0 .. Len(q) -> ServerState] :
              /\ a[0] = base
              /\ \A k \in 1 .. Len(q) : a[k] = CommitEntry(a[k - 1], s, q[k])
              /\ CommitEntries(base, s, q) = a[Len(q)]
<1> DEFINE N == Len(q)
           G == [p \in ServerState \X (1 .. N) |-> CommitEntry(p[1], s, q[p[2]])]
           Folds(g) == g = [z \in SUBSET DOMAIN q |->
                               IF z = {} THEN base ELSE CommitEntry(g[z \ {Max(z)}], s, q[Max(z)])]
           c == CHOOSE g : Folds(g)
<1>1. N \in Nat /\ DOMAIN q = 1 .. N /\ \A k \in 1 .. N : q[k] \in Entry
  BY LenProperties, ElementOfSeq
<1>2. \A d \in ServerState : \A k \in 1 .. N : CommitEntry(d, s, q[k]) \in ServerState
  BY <1>1, CommitEntryTyped
<1> HIDE DEF N
<1>3. G \in [ServerState \X (1 .. N) -> ServerState]
  BY <1>2
<1>4. PICK g \in [SUBSET (1 .. N) -> ServerState] : FoldSolution(g, N, base, G)
  <2> HIDE DEF G
  <2>1. N \in Nat /\ base \in ServerState
    BY <1>1
  <2> QED
    BY <2>1, <1>3, FoldExists
<1>5. \A z \in SUBSET (1 .. N) : z # {} => Max(z) \in 1 .. N /\ z \ {Max(z)} \in SUBSET (1 .. N)
  <2> TAKE z \in SUBSET (1 .. N)
  <2> HAVE z # {}
  <2>1. z \in SUBSET (0 .. N)
    OBVIOUS
  <2>2. Max(z) \in z
    BY <1>1, <2>1, MaxIsReached
  <2> QED
    BY <2>2
<1>6. Folds(g)
  <2>1. ASSUME NEW z \in SUBSET (1 .. N)
        PROVE  g[z] = IF z = {} THEN base ELSE CommitEntry(g[z \ {Max(z)}], s, q[Max(z)])
    <3>1. CASE z = {}
      BY <1>4, <3>1 DEF FoldSolution
    <3>2. CASE z # {}
      <4>1. PICK m \in 1 .. N : m = Max(z)
        BY <1>5, <3>2
      <4>2. g[z \ {m}] \in ServerState /\ g[z] = G[<<g[z \ {m}], m>>]
        BY <1>4, <1>5, <3>2, <4>1 DEF FoldSolution
      <4>3. PICK d \in ServerState : d = g[z \ {m}]
        BY <4>2
      <4>4. G[<<d, m>>] = CommitEntry(d, s, q[m])
        OBVIOUS
      <4> QED
        BY <4>1, <4>2, <4>3, <4>4, <3>2
    <3> QED
      BY <3>1, <3>2
  <2> QED
    BY <1>1, <1>4, <2>1
<1>7. Folds(c)
  <2> HIDE DEF Folds
  <2> QED
    BY <1>6
<1>8. CommitEntries(base, s, q) = c[1 .. N]
  BY <1>1 DEF CommitEntries, FoldLeft, MapThenFoldSet
<1> HIDE DEF c
<1> DEFINE a == [k \in 0 .. N |-> c[1 .. k]]
<1>9. c[{}] = base
  BY <1>1, <1>7
<1>10. ASSUME NEW k \in 1 .. N
       PROVE  c[1 .. k] = CommitEntry(c[1 .. k - 1], s, q[k])
  <2>1. k \in Nat /\ k # 0 /\ 1 .. k \in SUBSET (1 .. N)
    BY <1>1
  <2>2. 1 .. k # {} /\ Max(1 .. k) = k /\ (1 .. k) \ {k} = 1 .. k - 1
    BY <2>1, Sections
  <2>3. c[1 .. k] = IF 1 .. k = {} THEN base
                     ELSE CommitEntry(c[(1 .. k) \ {Max(1 .. k)}], s, q[Max(1 .. k)])
    BY <1>1, <1>7, <2>1
  <2> QED
    BY <2>2, <2>3
<1> DEFINE P == {k \in 0 .. N : c[1 .. k] \in ServerState}
<1>11. \A k \in 0 .. N : k \in P
  <2>1. 0 \in P
    <3>1. 1 .. 0 = {}
      OBVIOUS
    <3> QED
      BY <1>1, <1>9, <3>1
  <2>2. ASSUME NEW k \in 1 .. N, k - 1 \in P
        PROVE  k \in P
    <3>1. PICK d \in ServerState : d = c[1 .. k - 1]
      BY <2>2
    <3> QED
      BY <1>1, <1>2, <1>10, <3>1
  <2>3. \A k \in 1 .. N : k - 1 \in P => k \in P
    BY <2>2
  <2> HIDE DEF P
  <2> QED
    BY <1>1, <2>1, <2>3, UpTo
<1>12. a \in [0 .. N -> ServerState]
  BY <1>11
<1>13. a[0] = base /\ a[N] = c[1 .. N]
  <2>1. 1 .. 0 = {}
    OBVIOUS
  <2> QED
    BY <1>1, <1>9, <2>1
<1>14. \A k \in 1 .. N : a[k] = CommitEntry(a[k - 1], s, q[k])
  <2> TAKE k \in 1 .. N
  <2>1. a[k] = c[1 .. k] /\ a[k - 1] = c[1 .. k - 1]
    BY <1>1
  <2> HIDE DEF a
  <2> QED
    BY <1>10, <2>1
<1> HIDE DEF a
<1> QED
  BY <1>8, <1>12, <1>13, <1>14 DEF N

\* The entries that on_leader uses
LEMMA FoldUse ==
    ASSUME NEW s \in Server, NEW base \in ServerState, NEW q \in Seq(Entry)
    PROVE  \E a \in [0 .. Len(q) -> ServerState] :
              /\ a[0] = base
              /\ \A k \in 1 .. Len(q) : a[k] = UseEntry(a[k - 1], s, q[k])
              /\ UseEntries(base, s, q) = a[Len(q)]
<1> DEFINE N == Len(q)
           G == [p \in ServerState \X (1 .. N) |-> UseEntry(p[1], s, q[p[2]])]
           Folds(g) == g = [z \in SUBSET DOMAIN q |->
                               IF z = {} THEN base ELSE UseEntry(g[z \ {Max(z)}], s, q[Max(z)])]
           c == CHOOSE g : Folds(g)
<1>1. N \in Nat /\ DOMAIN q = 1 .. N /\ \A k \in 1 .. N : q[k] \in Entry
  BY LenProperties, ElementOfSeq
<1>2. \A d \in ServerState : \A k \in 1 .. N : UseEntry(d, s, q[k]) \in ServerState
  BY <1>1, UseEntryTyped
<1> HIDE DEF N
<1>3. G \in [ServerState \X (1 .. N) -> ServerState]
  BY <1>2
<1>4. PICK g \in [SUBSET (1 .. N) -> ServerState] : FoldSolution(g, N, base, G)
  <2> HIDE DEF G
  <2>1. N \in Nat /\ base \in ServerState
    BY <1>1
  <2> QED
    BY <2>1, <1>3, FoldExists
<1>5. \A z \in SUBSET (1 .. N) : z # {} => Max(z) \in 1 .. N /\ z \ {Max(z)} \in SUBSET (1 .. N)
  <2> TAKE z \in SUBSET (1 .. N)
  <2> HAVE z # {}
  <2>1. z \in SUBSET (0 .. N)
    OBVIOUS
  <2>2. Max(z) \in z
    BY <1>1, <2>1, MaxIsReached
  <2> QED
    BY <2>2
<1>6. Folds(g)
  <2>1. ASSUME NEW z \in SUBSET (1 .. N)
        PROVE  g[z] = IF z = {} THEN base ELSE UseEntry(g[z \ {Max(z)}], s, q[Max(z)])
    <3>1. CASE z = {}
      BY <1>4, <3>1 DEF FoldSolution
    <3>2. CASE z # {}
      <4>1. PICK m \in 1 .. N : m = Max(z)
        BY <1>5, <3>2
      <4>2. g[z \ {m}] \in ServerState /\ g[z] = G[<<g[z \ {m}], m>>]
        BY <1>4, <1>5, <3>2, <4>1 DEF FoldSolution
      <4>3. PICK d \in ServerState : d = g[z \ {m}]
        BY <4>2
      <4>4. G[<<d, m>>] = UseEntry(d, s, q[m])
        OBVIOUS
      <4> QED
        BY <4>1, <4>2, <4>3, <4>4, <3>2
    <3> QED
      BY <3>1, <3>2
  <2> QED
    BY <1>1, <1>4, <2>1
<1>7. Folds(c)
  <2> HIDE DEF Folds
  <2> QED
    BY <1>6
<1>8. UseEntries(base, s, q) = c[1 .. N]
  BY <1>1 DEF UseEntries, FoldLeft, MapThenFoldSet
<1> HIDE DEF c
<1> DEFINE a == [k \in 0 .. N |-> c[1 .. k]]
<1>9. c[{}] = base
  BY <1>1, <1>7
<1>10. ASSUME NEW k \in 1 .. N
       PROVE  c[1 .. k] = UseEntry(c[1 .. k - 1], s, q[k])
  <2>1. k \in Nat /\ k # 0 /\ 1 .. k \in SUBSET (1 .. N)
    BY <1>1
  <2>2. 1 .. k # {} /\ Max(1 .. k) = k /\ (1 .. k) \ {k} = 1 .. k - 1
    BY <2>1, Sections
  <2>3. c[1 .. k] = IF 1 .. k = {} THEN base
                     ELSE UseEntry(c[(1 .. k) \ {Max(1 .. k)}], s, q[Max(1 .. k)])
    BY <1>1, <1>7, <2>1
  <2> QED
    BY <2>2, <2>3
<1> DEFINE P == {k \in 0 .. N : c[1 .. k] \in ServerState}
<1>11. \A k \in 0 .. N : k \in P
  <2>1. 0 \in P
    <3>1. 1 .. 0 = {}
      OBVIOUS
    <3> QED
      BY <1>1, <1>9, <3>1
  <2>2. ASSUME NEW k \in 1 .. N, k - 1 \in P
        PROVE  k \in P
    <3>1. PICK d \in ServerState : d = c[1 .. k - 1]
      BY <2>2
    <3> QED
      BY <1>1, <1>2, <1>10, <3>1
  <2>3. \A k \in 1 .. N : k - 1 \in P => k \in P
    BY <2>2
  <2> HIDE DEF P
  <2> QED
    BY <1>1, <2>1, <2>3, UpTo
<1>12. a \in [0 .. N -> ServerState]
  BY <1>11
<1>13. a[0] = base /\ a[N] = c[1 .. N]
  <2>1. 1 .. 0 = {}
    OBVIOUS
  <2> QED
    BY <1>1, <1>9, <2>1
<1>14. \A k \in 1 .. N : a[k] = UseEntry(a[k - 1], s, q[k])
  <2> TAKE k \in 1 .. N
  <2>1. a[k] = c[1 .. k] /\ a[k - 1] = c[1 .. k - 1]
    BY <1>1
  <2> HIDE DEF a
  <2> QED
    BY <1>10, <2>1
<1> HIDE DEF a
<1> QED
  BY <1>8, <1>12, <1>13, <1>14 DEF N

-----------------------------------------------------------------------------
(* What a server adopts of its log: the last configuration of those that   *)
(* it commits, or uses as a leader.                                        *)

\* r is e after the entries from e.commit + 1 up to n were committed, but for the index.
Adopts(e, r, n) ==
    \/ /\ \A i \in e.commit + 1 .. n : e.log[i].config = {}
       /\ r.config = e.config /\ r.saved = e.saved /\ (r.changing <=> e.changing)
    \/ \E j \in e.commit + 1 .. n :
          /\ e.log[j].config # {} /\ \A i \in j + 1 .. n : e.log[i].config = {}
          /\ r.config = e.log[j].config /\ r.saved = e.log[j].config /\ ~r.changing

\* r differs from e in what a configuration may change only.
SameLog(e, r) == r.log = e.log /\ r.commit = e.commit /\ (r.leads <=> e.leads)

LEMMA CommitEntryDoes ==
    ASSUME NEW s \in Server, NEW d \in ServerState, NEW x \in Entry,
           NEW r, r = CommitEntry(d, s, x)
    PROVE  /\ r \in ServerState /\ SameLog(d, r)
           /\ x.config = {} => r = d
           /\ x.config # {} => r.config = x.config /\ r.saved = x.config /\ ~r.changing
<1>1. x.config \in SUBSET Server
  BY DEF Entry
<1>2. CASE x.config = {}
  BY <1>2 DEF CommitEntry, SameLog
<1>3. CASE x.config # {}
  <2>1. r = CommitConfiguration(d, s, x.config)
    BY <1>3 DEF CommitEntry
  <2> QED
    BY <1>1, <1>3, <2>1, CommitConfigurationIs DEF SameLog
<1> QED
  BY <1>2, <1>3

\* One more entry
LEMMA AdoptsOn ==
    ASSUME NEW s \in Server, NEW e \in ServerState, NEW d \in ServerState, NEW n \in Nat,
           e.commit <= n, n + 1 <= Len(e.log), Adopts(e, d, n), SameLog(e, d),
           NEW r, r = CommitEntry(d, s, e.log[n + 1])
    PROVE  Adopts(e, r, n + 1) /\ SameLog(e, r)
<1>1. e.log \in Seq(Entry) /\ e.commit \in Nat
  BY MembershipAssumption DEF ServerState
<1>2. PICK x \in Entry : x = e.log[n + 1]
  BY <1>1
<1>3. /\ r \in ServerState /\ SameLog(d, r)
      /\ x.config = {} => r = d
      /\ x.config # {} => r.config = x.config /\ r.saved = x.config /\ ~r.changing
  BY <1>2, CommitEntryDoes
<1>4. SameLog(e, r)
  BY <1>3 DEF SameLog
<1>5. CASE x.config = {}
  <2>1. \A j \in Nat : \A i \in j .. n + 1 : i \in j .. n \/ i = n + 1
    OBVIOUS
  <2>2. \A j \in e.commit + 1 .. n : j \in e.commit + 1 .. n + 1 /\ j + 1 \in Nat
    BY <1>1
  <2>3. r = d /\ e.log[n + 1].config = {} /\ e.commit + 1 \in Nat
    BY <1>1, <1>2, <1>3, <1>5
  <2> QED
    BY <1>4, <2>1, <2>2, <2>3 DEF Adopts
<1>6. CASE x.config # {}
  <2>1. n + 1 \in e.commit + 1 .. n + 1 /\ (n + 1) + 1 .. n + 1 = {}
    BY <1>1
  <2> QED
    BY <1>2, <1>3, <1>4, <1>6, <2>1 DEF Adopts
<1> QED
  BY <1>5, <1>6

\* What a server of state e commits
LEMMA CommitFold ==
    ASSUME NEW s \in Server, NEW e \in ServerState, NEW n \in Nat,
           e.commit <= n, n <= Len(e.log),
           NEW r, r = CommitEntries(e, s, SubSeq(e.log, e.commit + 1, n))
    PROVE  r \in ServerState /\ Adopts(e, r, n) /\ SameLog(e, r)
<1>1. e.log \in Seq(Entry) /\ e.commit \in Nat /\ Len(e.log) \in Nat
  BY MembershipAssumption, LenProperties DEF ServerState
<1>2. PICK c \in Nat : c = e.commit
  BY <1>1
<1>3. PICK q : q = SubSeq(e.log, c + 1, n)
  OBVIOUS
<1>4. PICK N \in Nat : N = n - c
  BY <1>2
<1>5. q \in Seq(Entry) /\ Len(q) = N /\ \A k \in 1 .. N : q[k] = e.log[c + k]
  <2>1. c + 1 \in 1 .. Len(e.log) + 1 /\ n \in 0 .. Len(e.log) /\ c <= n
    BY <1>1, <1>2
  <2>2. PICK l \in Seq(Entry) : l = e.log
    BY <1>1
  <2>3. /\ SubSeq(l, c + 1, n) \in Seq(Entry)
        /\ Len(SubSeq(l, c + 1, n)) = IF c + 1 <= n THEN n - (c + 1) + 1 ELSE 0
        /\ \A i \in 1 .. n - (c + 1) + 1 : SubSeq(l, c + 1, n)[i] = l[c + 1 + i - 1]
    BY <2>1, <2>2, SubSeqProperties
  <2>4. (IF c + 1 <= n THEN n - (c + 1) + 1 ELSE 0) = N /\ n - (c + 1) + 1 = N
    BY <1>4, <2>1
  <2>5. \A i \in 1 .. N : c + 1 + i - 1 = c + i
    BY <1>4
  <2> QED
    BY <1>3, <2>2, <2>3, <2>4, <2>5
<1>6. PICK a \in [0 .. Len(q) -> ServerState] :
          /\ a[0] = e
          /\ \A k \in 1 .. Len(q) : a[k] = CommitEntry(a[k - 1], s, q[k])
          /\ CommitEntries(e, s, q) = a[Len(q)]
  BY <1>5, FoldCommit, Zenon
<1>7. r = a[N]
  BY <1>2, <1>3, <1>5, <1>6, Zenon
<1> DEFINE P == {k \in 0 .. N : Adopts(e, a[k], c + k) /\ SameLog(e, a[k])}
<1>8. 0 \in P
  <2>1. e.commit + 1 .. c + 0 = {} /\ 0 \in 0 .. N /\ a[0] = e
    BY <1>2, <1>6
  <2>2. Adopts(e, e, c + 0) /\ SameLog(e, e)
    BY <2>1 DEF Adopts, SameLog
  <2>3. Adopts(e, a[0], c + 0) /\ SameLog(e, a[0])
    BY <2>1, <2>2
  <2> QED
    BY <2>1, <2>3
<1>9. ASSUME NEW k \in 1 .. N, k - 1 \in P
      PROVE  k \in P
  <2>1. PICK b \in ServerState : b = a[k - 1]
    BY <1>5, <1>6
  <2>2. PICK m \in Nat : m = c + (k - 1)
    OBVIOUS
  <2>3. /\ m + 1 = c + k /\ e.commit <= m /\ m + 1 <= Len(e.log)
        /\ Adopts(e, b, m) /\ SameLog(e, b)
    BY <1>1, <1>2, <1>4, <1>9, <2>1, <2>2
  <2>4. a[k] = CommitEntry(b, s, e.log[m + 1])
    BY <1>5, <1>6, <2>1, <2>3
  <2>5. Adopts(e, a[k], m + 1) /\ SameLog(e, a[k])
    BY <2>3, <2>4, AdoptsOn
  <2> QED
    BY <2>3, <2>5
<1>10. N \in P
  <2>1. \A k \in 1 .. N : k - 1 \in P => k \in P
    BY <1>9
  <2> HIDE DEF P
  <2>2. \A k \in 0 .. N : k \in P
    BY <1>8, <2>1, UpTo
  <2> QED
    BY <2>2
<1>11. c + N = n /\ a[N] \in ServerState
  BY <1>4, <1>5, <1>6
<1> QED
  BY <1>7, <1>10, <1>11

LEMMA LocalCommitIs ==
    ASSUME NEW s \in Server, NEW e \in ServerState, Len(e.log) <= MaxLog, NEW n \in Nat,
           NEW r, r = LocalCommit(e, s, n)
    PROVE  /\ r \in ServerState /\ r.log = e.log /\ (r.leads <=> e.leads)
           /\ e.commit <= r.commit /\ Adopts(e, r, r.commit)
           /\ r.commit = e.commit \/ r.commit <= Len(e.log)
           /\ n <= Len(e.log) => n <= r.commit
<1>1. e.commit \in Nat /\ Len(e.log) \in Nat /\ MaxLog \in Nat
  BY MembershipAssumption, LenProperties DEF ServerState
<1>2. PICK last \in Nat : /\ last = Min({n, Len(e.log)}) /\ last <= Len(e.log)
                          /\ n <= Len(e.log) => n = last
  BY <1>1, MinOfTwo
<1>3. CASE last <= e.commit
  <2>1. r = e
    BY <1>2, <1>3 DEF LocalCommit
  <2>2. e.commit + 1 .. e.commit = {}
    BY <1>1
  <2>3. Adopts(e, e, e.commit)
    BY <2>2 DEF Adopts
  <2> QED
    BY <1>1, <1>2, <1>3, <2>1, <2>3
<1>4. CASE ~(last <= e.commit)
  <2>1. PICK f : f = CommitEntries(e, s, SubSeq(e.log, e.commit + 1, last))
    OBVIOUS
  <2>2. e.commit <= last /\ last \in 0 .. MaxLog
    BY <1>1, <1>2, <1>4
  <2>3. f \in ServerState /\ Adopts(e, f, last) /\ SameLog(e, f)
    BY <1>2, <2>1, <2>2, CommitFold
  <2>4. r = [f EXCEPT !.commit = last]
    BY <1>2, <1>4, <2>1 DEF LocalCommit
  <2>5. /\ r \in ServerState /\ r.commit = last /\ r.log = f.log /\ r.leads = f.leads
        /\ r.config = f.config /\ r.saved = f.saved /\ r.changing = f.changing
    BY <2>2, <2>3, <2>4 DEF ServerState
  <2>6. Adopts(e, r, last)
    BY <2>3, <2>5 DEF Adopts
  <2> QED
    BY <1>2, <2>2, <2>3, <2>5, <2>6 DEF SameLog
<1> QED
  BY <1>3, <1>4

-----------------------------------------------------------------------------
(* A new leader *)

\* r is e after the entries from e.commit + 1 up to n are in use.
Reuses(e, r, n) ==
    /\ r.saved = e.saved
    /\ \/ /\ \A i \in e.commit + 1 .. n : e.log[i].config = {}
          /\ r.config = e.config /\ (r.changing <=> e.changing)
       \/ \E j \in e.commit + 1 .. n :
             /\ e.log[j].config # {} /\ \A i \in j + 1 .. n : e.log[i].config = {}
             /\ r.config = e.log[j].config /\ r.changing

LEMMA UseEntryDoes ==
    ASSUME NEW s \in Server, NEW d \in ServerState, NEW x \in Entry,
           NEW r, r = UseEntry(d, s, x)
    PROVE  /\ r \in ServerState /\ SameLog(d, r) /\ r.saved = d.saved
           /\ x.config = {} => r = d
           /\ x.config # {} => r.config = x.config /\ r.changing
<1>1. x.config \in SUBSET Server
  BY DEF Entry
<1>2. CASE x.config = {}
  BY <1>2 DEF UseEntry, SameLog
<1>3. CASE x.config # {}
  <2>1. PICK f : f = Reconfigure(d, s, x.config)
    OBVIOUS
  <2>2. /\ f \in ServerState /\ f.config = x.config /\ f.leads = d.leads /\ f.log = d.log
        /\ f.commit = d.commit /\ f.saved = d.saved
    BY <1>1, <2>1, ReconfigureIs
  <2>3. r = [f EXCEPT !.changing = TRUE]
    BY <1>3, <2>1 DEF UseEntry
  <2> QED
    BY <1>3, <2>2, <2>3 DEF ServerState, SameLog
<1> QED
  BY <1>2, <1>3

\* One more entry
LEMMA ReusesOn ==
    ASSUME NEW s \in Server, NEW e \in ServerState, NEW d \in ServerState, NEW n \in Nat,
           e.commit <= n, n + 1 <= Len(e.log), Reuses(e, d, n), SameLog(e, d),
           NEW r, r = UseEntry(d, s, e.log[n + 1])
    PROVE  Reuses(e, r, n + 1) /\ SameLog(e, r)
<1>1. e.log \in Seq(Entry) /\ e.commit \in Nat
  BY MembershipAssumption DEF ServerState
<1>2. PICK x \in Entry : x = e.log[n + 1]
  BY <1>1
<1>3. /\ r \in ServerState /\ SameLog(d, r) /\ r.saved = d.saved
      /\ x.config = {} => r = d
      /\ x.config # {} => r.config = x.config /\ r.changing
  BY <1>2, UseEntryDoes
<1>4. SameLog(e, r)
  BY <1>3 DEF SameLog
<1>5. CASE x.config = {}
  <2>1. \A j \in Nat : \A i \in j .. n + 1 : i \in j .. n \/ i = n + 1
    OBVIOUS
  <2>2. \A j \in e.commit + 1 .. n : j \in e.commit + 1 .. n + 1 /\ j + 1 \in Nat
    BY <1>1
  <2>3. r = d /\ e.log[n + 1].config = {} /\ e.commit + 1 \in Nat
    BY <1>1, <1>2, <1>3, <1>5
  <2> QED
    BY <1>4, <2>1, <2>2, <2>3 DEF Reuses
<1>6. CASE x.config # {}
  <2>1. n + 1 \in e.commit + 1 .. n + 1 /\ (n + 1) + 1 .. n + 1 = {}
    BY <1>1
  <2> QED
    BY <1>2, <1>3, <1>4, <1>6, <2>1 DEF Reuses
<1> QED
  BY <1>5, <1>6

\* What a leader of state e uses
LEMMA UseFold ==
    ASSUME NEW s \in Server, NEW e \in ServerState, NEW n \in Nat,
           e.commit <= n, n <= Len(e.log),
           NEW r, r = UseEntries(e, s, SubSeq(e.log, e.commit + 1, n))
    PROVE  r \in ServerState /\ Reuses(e, r, n) /\ SameLog(e, r)
<1>1. e.log \in Seq(Entry) /\ e.commit \in Nat /\ Len(e.log) \in Nat
  BY MembershipAssumption, LenProperties DEF ServerState
<1>2. PICK c \in Nat : c = e.commit
  BY <1>1
<1>3. PICK q : q = SubSeq(e.log, c + 1, n)
  OBVIOUS
<1>4. PICK N \in Nat : N = n - c
  BY <1>2
<1>5. q \in Seq(Entry) /\ Len(q) = N /\ \A k \in 1 .. N : q[k] = e.log[c + k]
  <2>1. c + 1 \in 1 .. Len(e.log) + 1 /\ n \in 0 .. Len(e.log) /\ c <= n
    BY <1>1, <1>2
  <2>2. PICK l \in Seq(Entry) : l = e.log
    BY <1>1
  <2>3. /\ SubSeq(l, c + 1, n) \in Seq(Entry)
        /\ Len(SubSeq(l, c + 1, n)) = IF c + 1 <= n THEN n - (c + 1) + 1 ELSE 0
        /\ \A i \in 1 .. n - (c + 1) + 1 : SubSeq(l, c + 1, n)[i] = l[c + 1 + i - 1]
    BY <2>1, <2>2, SubSeqProperties
  <2>4. (IF c + 1 <= n THEN n - (c + 1) + 1 ELSE 0) = N /\ n - (c + 1) + 1 = N
    BY <1>4, <2>1
  <2>5. \A i \in 1 .. N : c + 1 + i - 1 = c + i
    BY <1>4
  <2> QED
    BY <1>3, <2>2, <2>3, <2>4, <2>5
<1>6. PICK a \in [0 .. Len(q) -> ServerState] :
          /\ a[0] = e
          /\ \A k \in 1 .. Len(q) : a[k] = UseEntry(a[k - 1], s, q[k])
          /\ UseEntries(e, s, q) = a[Len(q)]
  BY <1>5, FoldUse, Zenon
<1>7. r = a[N]
  BY <1>2, <1>3, <1>5, <1>6, Zenon
<1> DEFINE P == {k \in 0 .. N : Reuses(e, a[k], c + k) /\ SameLog(e, a[k])}
<1>8. 0 \in P
  <2>1. e.commit + 1 .. c + 0 = {} /\ 0 \in 0 .. N /\ a[0] = e
    BY <1>2, <1>6
  <2>2. Reuses(e, e, c + 0) /\ SameLog(e, e)
    BY <2>1 DEF Reuses, SameLog
  <2>3. Reuses(e, a[0], c + 0) /\ SameLog(e, a[0])
    BY <2>1, <2>2
  <2> QED
    BY <2>1, <2>3
<1>9. ASSUME NEW k \in 1 .. N, k - 1 \in P
      PROVE  k \in P
  <2>1. PICK b \in ServerState : b = a[k - 1]
    BY <1>5, <1>6
  <2>2. PICK m \in Nat : m = c + (k - 1)
    OBVIOUS
  <2>3. /\ m + 1 = c + k /\ e.commit <= m /\ m + 1 <= Len(e.log)
        /\ Reuses(e, b, m) /\ SameLog(e, b)
    BY <1>1, <1>2, <1>4, <1>9, <2>1, <2>2
  <2>4. a[k] = UseEntry(b, s, e.log[m + 1])
    BY <1>5, <1>6, <2>1, <2>3
  <2>5. Reuses(e, a[k], m + 1) /\ SameLog(e, a[k])
    BY <2>3, <2>4, ReusesOn
  <2> QED
    BY <2>3, <2>5
<1>10. N \in P
  <2>1. \A k \in 1 .. N : k - 1 \in P => k \in P
    BY <1>9
  <2> HIDE DEF P
  <2>2. \A k \in 0 .. N : k \in P
    BY <1>8, <2>1, UpTo
  <2> QED
    BY <2>2
<1>11. c + N = n /\ a[N] \in ServerState
  BY <1>4, <1>5, <1>6
<1> QED
  BY <1>7, <1>10, <1>11

\* r is e after a local_commit.
Commits(e, r) ==
    /\ r \in ServerState /\ r.log = e.log /\ (r.leads <=> e.leads)
    /\ e.commit <= r.commit /\ Adopts(e, r, r.commit)
    /\ r.commit = e.commit \/ r.commit <= Len(e.log)

LEMMA CommitsNothing ==
    ASSUME NEW e \in ServerState
    PROVE  Commits(e, e)
<1>1. e.commit \in Nat
  BY MembershipAssumption DEF ServerState
<1>2. e.commit + 1 .. e.commit = {}
  BY <1>1
<1> QED
  BY <1>1, <1>2 DEF Commits, Adopts

LEMMA LocalCommits ==
    ASSUME NEW s \in Server, NEW e \in ServerState, Len(e.log) <= MaxLog, NEW n \in Nat,
           NEW r, r = LocalCommit(e, s, n)
    PROVE  Commits(e, r)
<1>1. /\ r \in ServerState /\ r.log = e.log /\ (r.leads <=> e.leads)
      /\ e.commit <= r.commit /\ Adopts(e, r, r.commit)
      /\ r.commit = e.commit \/ r.commit <= Len(e.log)
  BY LocalCommitIs
<1> QED
  BY <1>1 DEF Commits

LEMMA OnLeaderIs ==
    ASSUME NEW s \in Server, NEW e \in ServerState, Len(e.log) <= MaxLog,
           NEW r, r = OnLeader(e, s)
    PROVE  \E g \in ServerState : /\ g.log = e.log /\ g.commit = e.commit /\ g.leads
                                  /\ Reuses(e, g, Len(e.log)) /\ Commits(g, r)
<1>1. e.commit \in Nat /\ Len(e.log) \in Nat /\ e.log \in Seq(Entry)
  BY MembershipAssumption, LenProperties DEF ServerState
<1>2. PICK f : f = [e EXCEPT !.leads = TRUE, !.leader = s, !.join = FALSE]
  OBVIOUS
<1>3. /\ f \in ServerState /\ f.leads /\ f.log = e.log /\ f.commit = e.commit
      /\ f.config = e.config /\ f.saved = e.saved /\ f.changing = e.changing
  BY <1>2 DEF ServerState
<1>4. PICK n \in Nat : n = Len(e.log)
  BY <1>1
<1>5. PICK g : g = UseEntries(f, s, SubSeq(f.log, f.commit + 1, n))
  OBVIOUS
<1>6. g \in ServerState /\ Reuses(f, g, n) /\ SameLog(f, g)
  <2>1. CASE f.commit <= n
    BY <1>3, <1>4, <1>5, <2>1, UseFold
  <2>2. CASE ~(f.commit <= n)
    <3>1. PICK q : q = SubSeq(f.log, f.commit + 1, n)
      OBVIOUS
    <3>2. q = <<>>
      <4>1. PICK l \in Seq(Entry) : l = f.log
        BY <1>1, <1>3
      <4>2. PICK c \in Nat : c = f.commit
        BY <1>1, <1>3
      <4>3. c + 1 > n
        BY <2>2, <4>2
      <4>4. SubSeq(l, c + 1, n) = <<>>
        BY <4>3, EmptySeq
      <4> QED
        BY <3>1, <4>1, <4>2, <4>4
    <3>3. q \in Seq(Entry) /\ Len(q) = 0
      BY <3>2
    <3>4. PICK a \in [0 .. Len(q) -> ServerState] :
              /\ a[0] = f
              /\ \A k \in 1 .. Len(q) : a[k] = UseEntry(a[k - 1], s, q[k])
              /\ UseEntries(f, s, q) = a[Len(q)]
      BY <1>3, <3>3, FoldUse, Zenon
    <3>5. g = f
      BY <1>5, <3>1, <3>3, <3>4
    <3>6. \A i \in f.commit + 1 .. n : f.log[i].config = {}
      BY <1>1, <1>3, <2>2
    <3> QED
      BY <1>3, <3>5, <3>6 DEF Reuses, SameLog
  <2> QED
    BY <2>1, <2>2
<1>7. /\ g.log = e.log /\ g.commit = e.commit /\ g.leads
  BY <1>3, <1>6 DEF SameLog
<1>8. Reuses(e, g, Len(e.log))
  BY <1>3, <1>4, <1>6 DEF Reuses
<1>9. r = IF Peers(g, s) = {} THEN LocalCommit(g, s, Len(g.log)) ELSE g
  BY <1>2, <1>3, <1>4, <1>5 DEF OnLeader
<1>10. Commits(g, r)
  <2>1. CASE Peers(g, s) = {}
    <3>1. r = LocalCommit(g, s, Len(g.log)) /\ Len(g.log) \in Nat /\ Len(g.log) <= MaxLog
      BY <1>1, <1>7, <1>9, <2>1
    <3> QED
      BY <1>6, <3>1, LocalCommits
  <2>2. CASE Peers(g, s) # {}
    <3>1. r = g
      BY <1>9, <2>2
    <3> QED
      BY <1>6, <3>1, CommitsNothing
  <2> QED
    BY <2>1, <2>2
<1> QED
  BY <1>6, <1>7, <1>8, <1>10

\* The leader's own change, before it is committed at once or later
LEMMA ChangeIs ==
    ASSUME NEW s \in Server, NEW e \in ServerState, Len(e.log) < MaxLog,
           NEW config \in SUBSET Server, NEW r, r = Change(e, s, config)
    PROVE  \E f \in ServerState, x \in Entry :
              /\ x.config = config /\ f.log = Append(e.log, x) /\ f.commit = e.commit
              /\ (f.leads <=> e.leads) /\ f.config = config /\ f.saved = e.saved /\ f.changing
              /\ Commits(f, r)
<1>1. /\ e.commit \in Nat /\ Len(e.log) \in Nat /\ e.log \in Seq(Entry) /\ MaxLog \in Nat
      /\ e.term \in 1 .. MaxTerm
  BY MembershipAssumption, LenProperties DEF ServerState
<1>2. PICK x \in Entry : x = [term |-> e.term, config |-> config]
  BY <1>1 DEF Entry
<1>3. x.config = config
  BY <1>2
<1>4. PICK d : d = [e EXCEPT !.log = Append(e.log, x)]
  OBVIOUS
<1>5. Append(e.log, x) \in Seq(Entry) /\ Len(Append(e.log, x)) = Len(e.log) + 1
  BY <1>1
<1>6. /\ d \in ServerState /\ d.log = Append(e.log, x) /\ d.commit = e.commit
      /\ d.leads = e.leads /\ d.saved = e.saved
  BY <1>4, <1>5 DEF ServerState
<1>7. PICK g : g = Reconfigure(d, s, config)
  OBVIOUS
<1>8. /\ g \in ServerState /\ g.config = config /\ g.log = d.log /\ g.commit = d.commit
      /\ (g.leads <=> d.leads) /\ g.saved = d.saved
  BY <1>6, <1>7, ReconfigureIs
<1>9. PICK f : f = [g EXCEPT !.changing = TRUE]
  OBVIOUS
<1>10. /\ f \in ServerState /\ f.log = Append(e.log, x) /\ f.commit = e.commit
       /\ (f.leads <=> e.leads) /\ f.config = config /\ f.saved = e.saved /\ f.changing
  <2>1. /\ f \in ServerState /\ f.log = g.log /\ f.commit = g.commit /\ f.leads = g.leads
        /\ f.config = g.config /\ f.saved = g.saved /\ f.changing
    BY <1>8, <1>9 DEF ServerState
  <2> QED
    BY <1>6, <1>8, <2>1
<1>11. r = IF Peers(f, s) = {} THEN LocalCommit(f, s, Len(f.log)) ELSE f
  BY <1>2, <1>4, <1>7, <1>9 DEF Change
<1>12. Commits(f, r)
  <2>1. CASE Peers(f, s) = {}
    <3>1. /\ r = LocalCommit(f, s, Len(f.log)) /\ Len(f.log) \in Nat
          /\ Len(f.log) <= MaxLog
      BY <1>1, <1>5, <1>10, <1>11, <2>1
    <3> QED
      BY <1>10, <3>1, LocalCommits
  <2>2. CASE Peers(f, s) # {}
    <3>1. r = f
      BY <1>11, <2>2
    <3> QED
      BY <1>10, <3>1, CommitsNothing
  <2> QED
    BY <2>1, <2>2
<1> QED
  BY <1>3, <1>10, <1>12

-----------------------------------------------------------------------------
(* What a step makes of a server: one of seven things.                     *)

TypeInv == TypeOK /\ \A s \in Server : Len(srv[s].log) <= MaxLog

\* It keeps its log and its configuration, and leads no more than before.
Stays(e, r) ==
    /\ r.log = e.log /\ r.commit = e.commit /\ r.config = e.config /\ r.saved = e.saved
    /\ (r.changing <=> e.changing) /\ (r.leads => e.leads)

\* It has another log, and commits.
Copies(e, r) ==
    /\ ~r.leads
    /\ \E d \in ServerState : /\ d.commit = e.commit /\ d.config = e.config
                              /\ d.saved = e.saved /\ Commits(d, r)

\* It is elected.
Rises(e, r) ==
    /\ ~e.leads
    /\ \E g \in ServerState : /\ g.log = e.log /\ g.commit = e.commit /\ g.leads
                              /\ Reuses(e, g, Len(e.log)) /\ Commits(g, r)

\* It leads, and adds a configuration.
Adds(e, r) ==
    /\ e.leads /\ ~e.changing
    /\ \E f \in ServerState, x \in Entry :
          /\ f.log = Append(e.log, x) /\ f.commit = e.commit /\ f.leads /\ f.changing
          /\ f.config = x.config /\ f.saved = e.saved /\ Commits(f, r)

\* The server s is told that it has left.
Leaves(s, e, r) ==
    /\ r.log = e.log /\ r.commit = e.commit /\ (r.leads => e.leads)
    /\ s \notin r.config /\ r.saved = r.config

\* It starts again.
Restarts(e, r) ==
    /\ r.log = e.log /\ r.commit = e.commit /\ ~r.leads
    /\ r.config = e.saved /\ r.saved = e.saved

Moves(s, e, r) ==
    Stays(e, r) \/ Commits(e, r) \/ Copies(e, r) \/ Rises(e, r) \/ Adds(e, r)
    \/ Leaves(s, e, r) \/ Restarts(e, r)

ServersMove ==
    /\ srv' \in [Server -> ServerState]
    /\ \A q \in Server : Len(srv'[q].log) <= MaxLog /\ Moves(q, srv[q], srv'[q])

LEMMA ServerIs ==
    ASSUME TypeInv, NEW s \in Server
    PROVE  /\ srv[s] \in ServerState /\ Len(srv[s].log) <= MaxLog
           /\ srv[s].log \in Seq(Entry) /\ Len(srv[s].log) \in Nat /\ srv[s].commit \in Nat
<1>1. srv \in [Server -> ServerState] /\ Len(srv[s].log) <= MaxLog
  BY DEF TypeInv, TypeOK
<1>2. srv[s] \in ServerState
  BY <1>1
<1>3. srv[s].log \in Seq(Entry) /\ srv[s].commit \in Nat
  BY <1>2, MembershipAssumption DEF ServerState
<1> QED
  BY <1>1, <1>2, <1>3, LenProperties

LEMMA StaysSame ==
    ASSUME NEW s \in Server, NEW e
    PROVE  Moves(s, e, e)
  BY DEF Moves, Stays

LEMMA OneMoves ==
    ASSUME TypeInv, NEW s \in Server, NEW r \in ServerState, Len(r.log) <= MaxLog,
           Moves(s, srv[s], r), srv' = [srv EXCEPT ![s] = r]
    PROVE  ServersMove
<1>1. srv \in [Server -> ServerState] /\ \A q \in Server : Len(srv[q].log) <= MaxLog
  BY DEF TypeInv, TypeOK
<1>2. \A q \in Server : srv'[q] = IF q = s THEN r ELSE srv[q]
  BY <1>1
<1>3. srv' \in [Server -> ServerState]
  BY <1>1
<1>4. ASSUME NEW q \in Server
      PROVE  Len(srv'[q].log) <= MaxLog /\ Moves(q, srv[q], srv'[q])
  <2>1. CASE q = s
    BY <1>2, <2>1
  <2>2. CASE q # s
    BY <1>1, <1>2, <2>2, StaysSame
  <2> QED
    BY <2>1, <2>2
<1> QED
  BY <1>3, <1>4 DEF ServersMove

\* Only what configurations do not depend on changes.
LEMMA OneStays ==
    ASSUME TypeInv, NEW s \in Server, NEW r \in ServerState, Stays(srv[s], r),
           srv' = [srv EXCEPT ![s] = r]
    PROVE  ServersMove
<1>1. Len(srv[s].log) <= MaxLog /\ r.log = srv[s].log
  BY DEF TypeInv, Stays
<1>2. Moves(s, srv[s], r)
  BY DEF Moves
<1> QED
  BY <1>1, <1>2, OneMoves

LEMMA NoneMoves ==
    ASSUME TypeInv, UNCHANGED srv
    PROVE  ServersMove
<1>1. srv \in [Server -> ServerState] /\ \A q \in Server : Len(srv[q].log) <= MaxLog
  BY DEF TypeInv, TypeOK
<1>2. \A q \in Server : Moves(q, srv[q], srv[q])
  BY StaysSame
<1> QED
  BY <1>1, <1>2 DEF ServersMove

LEMMA CommitMoves ==
    ASSUME TypeInv, NEW s \in Server, Commit(s)
    PROVE  ServersMove
<1>1. srv[s] \in ServerState /\ Len(srv[s].log) <= MaxLog /\ Len(srv[s].log) \in Nat
      /\ srv[s].commit \in Nat
  BY ServerIs
<1>2. PICK i \in srv[s].commit + 1 .. Len(srv[s].log) :
          srv' = [srv EXCEPT ![s] = LocalCommit(srv[s], s, i)]
  BY DEF Commit
<1>3. PICK r : r = LocalCommit(srv[s], s, i)
  OBVIOUS
<1>4. i \in Nat
  BY <1>1
<1>5. Commits(srv[s], r)
  BY <1>1, <1>3, <1>4, LocalCommits
<1>6. r \in ServerState /\ Len(r.log) <= MaxLog /\ Moves(s, srv[s], r)
  BY <1>1, <1>5 DEF Commits, Moves
<1> QED
  BY <1>2, <1>3, <1>6, OneMoves

LEMMA ReplicateMoves ==
    ASSUME TypeInv, NEW s \in Server, NEW f \in Server, Replicate(s, f)
    PROVE  ServersMove
<1>1. /\ srv[s] \in ServerState /\ srv[f] \in ServerState
      /\ Len(srv[s].log) <= MaxLog /\ srv[s].commit \in Nat
  BY ServerIs
<1>2. PICK d : d = [srv[f] EXCEPT !.leads = FALSE, !.term = srv[s].term, !.leader = s,
                                  !.log = srv[s].log]
  OBVIOUS
<1>3. /\ d \in ServerState /\ ~d.leads /\ d.log = srv[s].log /\ d.commit = srv[f].commit
      /\ d.config = srv[f].config /\ d.saved = srv[f].saved
  BY <1>1, <1>2 DEF ServerState
<1>4. PICK r : r = LocalCommit(d, f, srv[s].commit)
  OBVIOUS
<1>5. Commits(d, r)
  BY <1>1, <1>3, <1>4, LocalCommits
<1>6. r \in ServerState /\ Len(r.log) <= MaxLog /\ ~r.leads
  BY <1>1, <1>3, <1>5 DEF Commits
<1>7. Moves(f, srv[f], r)
  BY <1>3, <1>5, <1>6 DEF Moves, Copies
<1>8. srv' = [srv EXCEPT ![f] = r]
  BY <1>2, <1>4 DEF Replicate
<1> QED
  BY <1>6, <1>7, <1>8, OneMoves

LEMMA ElectMoves ==
    ASSUME TypeInv, NEW s \in Server, NEW Q \in SUBSET Server, Elect(s, Q)
    PROVE  ServersMove
<1>1. /\ srv \in [Server -> ServerState] /\ \A q \in Server : Len(srv[q].log) <= MaxLog
  BY DEF TypeInv, TypeOK
<1>2. PICK t : t = 1 + Max({srv[q].term : q \in Q \cup {s}})
  OBVIOUS
<1>3. t \in 1 .. MaxTerm
  <2> DEFINE T == {srv[q].term : q \in Q \cup {s}}
  <2>1. T \in SUBSET (0 .. MaxTerm) /\ T # {} /\ MaxTerm \in Nat
    <3>1. \A q \in Server : srv[q] \in ServerState
      BY <1>1
    <3>2. \A q \in Server : srv[q].term \in 1 .. MaxTerm
      BY <3>1 DEF ServerState
    <3>3. MaxTerm \in Nat /\ \A m \in 1 .. MaxTerm : m \in 0 .. MaxTerm
      BY MembershipAssumption
    <3> QED
      BY <3>2, <3>3
  <2> HIDE DEF T
  <2>2. PICK m : m = Max(T)
    OBVIOUS
  <2>3. m \in T
    BY <2>1, <2>2, MaxIsReached
  <2>4. t = 1 + m /\ m \in 0 .. MaxTerm
    BY <1>2, <2>1, <2>2, <2>3 DEF T
  <2>5. t <= MaxTerm
    BY <1>2 DEF Elect
  <2> QED
    BY <2>1, <2>4, <2>5
<1>4. PICK e : e = [srv[s] EXCEPT !.term = t]
  OBVIOUS
<1>5. /\ e \in ServerState /\ e.log = srv[s].log /\ e.commit = srv[s].commit
      /\ e.config = srv[s].config /\ e.saved = srv[s].saved /\ e.changing = srv[s].changing
  <2>1. srv[s] \in ServerState
    BY <1>1
  <2> QED
    BY <1>3, <1>4, <2>1 DEF ServerState
<1>6. PICK r : r = OnLeader(e, s)
  OBVIOUS
<1>7. PICK g \in ServerState : /\ g.log = e.log /\ g.commit = e.commit /\ g.leads
                               /\ Reuses(e, g, Len(e.log)) /\ Commits(g, r)
  BY <1>1, <1>5, <1>6, OnLeaderIs
<1>8. Reuses(srv[s], g, Len(srv[s].log))
  BY <1>5, <1>7 DEF Reuses
<1>9. /\ ~srv[s].leads
      /\ srv' = [q \in Server |-> IF q = s THEN r
                                  ELSE IF q \in Q THEN [srv[q] EXCEPT !.leads = FALSE, !.term = t]
                                  ELSE srv[q]]
  BY <1>2, <1>4, <1>6 DEF Elect
<1>10. r \in ServerState /\ Len(r.log) <= MaxLog /\ Moves(s, srv[s], r)
  <2>1. r \in ServerState /\ r.log = srv[s].log
    BY <1>5, <1>7 DEF Commits
  <2>2. Rises(srv[s], r)
    BY <1>5, <1>7, <1>8, <1>9 DEF Rises
  <2> QED
    BY <1>1, <2>1, <2>2 DEF Moves
<1>11. ASSUME NEW q \in Server
       PROVE  /\ srv'[q] \in ServerState /\ Len(srv'[q].log) <= MaxLog
              /\ Moves(q, srv[q], srv'[q])
  <2>1. CASE q = s
    BY <1>9, <1>10, <2>1
  <2>2. CASE q # s /\ q \in Q
    <3>1. PICK d : d = [srv[q] EXCEPT !.leads = FALSE, !.term = t]
      OBVIOUS
    <3>2. /\ d \in ServerState /\ d.log = srv[q].log /\ d.commit = srv[q].commit /\ ~d.leads
          /\ d.config = srv[q].config /\ d.saved = srv[q].saved
          /\ d.changing = srv[q].changing
      BY <1>1, <1>3, <3>1 DEF ServerState
    <3>3. srv'[q] = d
      BY <1>9, <2>2, <3>1
    <3>4. Moves(q, srv[q], d)
      BY <3>2 DEF Moves, Stays
    <3> QED
      BY <1>1, <3>2, <3>3, <3>4
  <2>3. CASE q # s /\ q \notin Q
    <3>1. srv'[q] = srv[q]
      BY <1>9, <2>3
    <3> QED
      BY <1>1, <3>1, StaysSame
  <2> QED
    BY <2>1, <2>2, <2>3
<1>12. srv' \in [Server -> ServerState]
  BY <1>9, <1>11
<1> QED
  BY <1>11, <1>12 DEF ServersMove

LEMMA RestartMoves ==
    ASSUME TypeInv, NEW s \in Server, Restart(s)
    PROVE  ServersMove
<1>1. srv[s] \in ServerState /\ Len(srv[s].log) <= MaxLog /\ 0 \in 0 .. MaxLog
      /\ 0 \in 0 .. MaxAttempts + 1 /\ 1 \in Nat \ {0}
  BY MembershipAssumption DEF TypeInv, TypeOK
<1> DEFINE in == IF s \notin srv[s].saved THEN TRUE ELSE FALSE
<1>7. in \in BOOLEAN /\ in = (s \notin srv[s].saved)
  OBVIOUS
<1> HIDE DEF in
<1>2. PICK r : r = [srv[s] EXCEPT !.leads = FALSE, !.leader = NoServer, !.config = srv[s].saved,
                        !.changing = FALSE, !.catching = in,
                        !.locked = FALSE, !.join = TRUE, !.rewind = 1, !.transfer = 0,
                        !.attempt = 0, !.to = [k \in {"Join", "Leave"} |-> NoServer]]
  OBVIOUS
<1>3. /\ r.log = srv[s].log /\ r.commit = srv[s].commit /\ ~r.leads
      /\ r.config = srv[s].saved /\ r.saved = srv[s].saved
  BY <1>1, <1>2 DEF ServerState
<1>4. r \in ServerState
  <2>1. [k \in {"Join", "Leave"} |-> NoServer] \in [{"Join", "Leave"} -> Server \cup {NoServer}]
    OBVIOUS
  <2> QED
    BY <1>1, <1>2, <1>7, <2>1 DEF ServerState
<1>5. Moves(s, srv[s], r)
  BY <1>3 DEF Moves, Restarts
<1>6. srv' = [srv EXCEPT ![s] = r]
  BY <1>2, <1>7 DEF Restart
<1> QED
  BY <1>1, <1>3, <1>4, <1>5, <1>6, OneMoves

LEMMA StepDownMoves ==
    ASSUME TypeInv, NEW s \in Server, StepDown(s)
    PROVE  ServersMove
<1>1. srv[s] \in ServerState
  BY ServerIs
<1>2. PICK r : r = [srv[s] EXCEPT !.leads = FALSE]
  OBVIOUS
<1>3. r \in ServerState /\ Stays(srv[s], r)
  BY <1>1, <1>2 DEF ServerState, Stays
<1>4. srv' = [srv EXCEPT ![s] = r]
  BY <1>2 DEF StepDown
<1> QED
  BY <1>3, <1>4, OneStays

\* A change of a field that configurations do not depend on
LEMMA ToStays ==
    ASSUME NEW e \in ServerState, NEW k \in {"Join", "Leave"}, NEW t \in Server \cup {NoServer},
           NEW r, r = [e EXCEPT !.to[k] = t]
    PROVE  r \in ServerState /\ Stays(e, r)
<1>1. e.to \in [{"Join", "Leave"} -> Server \cup {NoServer}]
  BY DEF ServerState
<1>2. [e.to EXCEPT ![k] = t] \in [{"Join", "Leave"} -> Server \cup {NoServer}]
  BY <1>1
<1>3. r = [e EXCEPT !.to = [e.to EXCEPT ![k] = t]]
  BY DEF ServerState
<1> QED
  BY <1>2, <1>3 DEF ServerState, Stays

LEMMA LoseMoves ==
    ASSUME TypeInv, NEW m \in net, Lose(m)
    PROVE  ServersMove
<1> DEFINE asker == IF m.type \in {"Join", "Leave"} THEN m.from ELSE m.to
           kind == IF m.type \in {"Join", "Joining"} THEN "Join" ELSE "Leave"
<1>1. asker \in Server /\ kind \in {"Join", "Leave"}
  BY DEF TypeInv, TypeOK, JoinRequest, LeaveRequest, JoinResponse, LeaveResponse
<1>2. srv' = [srv EXCEPT ![asker].to[kind] = NoServer]
  BY DEF Lose
<1> HIDE DEF asker, kind
<1>3. srv[asker] \in ServerState
  BY <1>1, ServerIs
<1>4. PICK r : r = [srv[asker] EXCEPT !.to[kind] = NoServer]
  OBVIOUS
<1>5. r \in ServerState /\ Stays(srv[asker], r)
  BY <1>1, <1>3, <1>4, ToStays
<1>6. srv' = [srv EXCEPT ![asker] = r]
  BY <1>2, <1>4
<1> QED
  BY <1>1, <1>5, <1>6, OneStays

LEMMA TargetIn ==
    ASSUME TypeInv, NEW s \in Server, NEW k
    PROVE  Target(s, k) \subseteq Server \ {s}
<1>1. srv[s].config \in SUBSET Server
  BY ServerIs DEF ServerState
<1>2. Peers(srv[s], s) \subseteq Server \ {s}
  BY <1>1 DEF Peers
<1> QED
  BY <1>2 DEF Target

LEMMA JoinTimerMoves ==
    ASSUME TypeInv, NEW s \in Server, JoinTimer(s)
    PROVE  ServersMove
<1>1. PICK t \in Target(s, "Join") : srv' = [srv EXCEPT ![s].to["Join"] = t]
  BY DEF JoinTimer
<1>2. srv[s] \in ServerState /\ t \in Server
  BY <1>1, ServerIs, TargetIn
<1>3. PICK r : r = [srv[s] EXCEPT !.to["Join"] = t]
  OBVIOUS
<1>4. r \in ServerState /\ Stays(srv[s], r)
  BY <1>2, <1>3, ToStays
<1>5. srv' = [srv EXCEPT ![s] = r]
  BY <1>1, <1>3
<1> QED
  BY <1>4, <1>5, OneStays

LEMMA LeaveTimerMoves ==
    ASSUME TypeInv, NEW s \in Server, LeaveTimer(s)
    PROVE  ServersMove
<1>1. srv[s] \in ServerState /\ srv[s].attempt \in Nat /\ MaxAttempts \in Nat
  BY ServerIs, MembershipAssumption DEF ServerState
<1>2. CASE srv[s].attempt > MaxAttempts
  <2>1. PICK r : r = [srv[s] EXCEPT !.attempt = 0, !.told = "failed"]
    OBVIOUS
  <2>2. 0 \in 0 .. MaxAttempts + 1
    BY <1>1
  <2>3. r \in ServerState /\ Stays(srv[s], r)
    BY <1>1, <2>1, <2>2 DEF ServerState, Stays
  <2>4. srv' = [srv EXCEPT ![s] = r]
    BY <1>2, <2>1 DEF LeaveTimer
  <2> QED
    BY <2>3, <2>4, OneStays
<1>3. CASE ~(srv[s].attempt > MaxAttempts)
  <2>1. PICK t \in Target(s, "Leave") :
            srv' = [srv EXCEPT ![s].attempt = @ + 1, ![s].to["Leave"] = t]
    BY <1>3 DEF LeaveTimer
  <2>2. t \in Server
    BY <2>1, TargetIn
  <2>3. PICK d : d = [srv[s] EXCEPT !.attempt = srv[s].attempt + 1]
    OBVIOUS
  <2>4. srv[s].attempt + 1 \in 0 .. MaxAttempts + 1
    BY <1>1, <1>3
  <2>5. d \in ServerState /\ Stays(srv[s], d)
    BY <1>1, <2>3, <2>4 DEF ServerState, Stays
  <2>6. PICK r : r = [d EXCEPT !.to["Leave"] = t]
    OBVIOUS
  <2>7. r \in ServerState /\ Stays(d, r)
    BY <2>2, <2>5, <2>6, ToStays
  <2>8. Stays(srv[s], r)
    BY <2>5, <2>7 DEF Stays
  <2>9. srv' = [srv EXCEPT ![s] = r]
    BY <1>1, <2>1, <2>3, <2>6 DEF ServerState
  <2> QED
    BY <2>7, <2>8, <2>9, OneStays
<1> QED
  BY <1>2, <1>3

LEMMA ResignStays ==
    ASSUME NEW e \in ServerState, NEW r, r = Resign(e)
    PROVE  r \in ServerState /\ Stays(e, r)
  BY DEF Resign, ServerState, Stays

LEMMA GracefulCloseMoves ==
    ASSUME TypeInv, NEW s \in Server, GracefulClose(s)
    PROVE  ServersMove
<1>1. srv[s] \in ServerState
  BY ServerIs
<1>2. PICK r : r = Resign(srv[s])
  OBVIOUS
<1>3. r \in ServerState /\ Stays(srv[s], r)
  BY <1>1, <1>2, ResignStays
<1>4. srv' = [srv EXCEPT ![s] = r]
  BY <1>2 DEF GracefulClose
<1> QED
  BY <1>3, <1>4, OneStays

LEMMA LeaveGroupMoves ==
    ASSUME TypeInv, NEW s \in Server, LeaveGroup(s)
    PROVE  ServersMove
<1>1. srv[s] \in ServerState /\ 1 \in 0 .. MaxAttempts + 1
  BY ServerIs, MembershipAssumption
<1>2. PICK e : e = IF srv[s].leads THEN Resign(srv[s]) ELSE srv[s]
  OBVIOUS
<1>3. e \in ServerState /\ Stays(srv[s], e)
  <2>1. Stays(srv[s], srv[s])
    BY DEF Stays
  <2> QED
    BY <1>1, <1>2, <2>1, ResignStays
<1>4. PICK r : r = IF Peers(srv[s], s) = {} THEN [srv[s] EXCEPT !.told = "failed"]
                   ELSE [e EXCEPT !.attempt = 1, !.told = "nothing"]
  OBVIOUS
<1>5. r \in ServerState /\ Stays(srv[s], r)
  <2>1. CASE Peers(srv[s], s) = {}
    BY <1>1, <1>4, <2>1 DEF ServerState, Stays
  <2>2. CASE Peers(srv[s], s) # {}
    BY <1>1, <1>3, <1>4, <2>2 DEF ServerState, Stays
  <2> QED
    BY <2>1, <2>2
<1>6. srv' = [srv EXCEPT ![s] = r]
  BY <1>2, <1>4 DEF LeaveGroup
<1> QED
  BY <1>5, <1>6, OneStays

\* A leader that changes the configuration
LEMMA ChangeMoves ==
    ASSUME TypeInv, NEW s \in Server, srv[s].leads, ~srv[s].changing, Len(srv[s].log) < MaxLog,
           NEW config \in SUBSET Server, srv' = [srv EXCEPT ![s] = Change(srv[s], s, config)]
    PROVE  ServersMove
<1>1. srv[s] \in ServerState /\ srv[s].log \in Seq(Entry) /\ Len(srv[s].log) \in Nat
  BY ServerIs
<1>2. PICK r : r = Change(srv[s], s, config)
  OBVIOUS
<1>3. PICK f \in ServerState, x \in Entry :
          /\ x.config = config /\ f.log = Append(srv[s].log, x) /\ f.commit = srv[s].commit
          /\ (f.leads <=> srv[s].leads) /\ f.config = config /\ f.saved = srv[s].saved
          /\ f.changing /\ Commits(f, r)
  BY <1>1, <1>2, ChangeIs
<1>4. Adds(srv[s], r)
  BY <1>3 DEF Adds
<1>5. r \in ServerState /\ Len(r.log) <= MaxLog
  <2>1. r \in ServerState /\ r.log = Append(srv[s].log, x)
    BY <1>3 DEF Commits
  <2>2. Len(Append(srv[s].log, x)) = Len(srv[s].log) + 1
    BY <1>1
  <2>3. MaxLog \in Nat
    BY MembershipAssumption
  <2> QED
    BY <1>1, <2>1, <2>2, <2>3
<1>6. Moves(s, srv[s], r)
  BY <1>4 DEF Moves
<1> QED
  BY <1>2, <1>5, <1>6, OneMoves

LEMMA AutoLeaveMoves ==
    ASSUME TypeInv, NEW s \in Server, NEW Q \in SUBSET Server, AutoLeave(s, Q)
    PROVE  ServersMove
<1>1. srv[s].config \ Q \in SUBSET Server
  BY ServerIs DEF ServerState
<1>2. /\ srv[s].leads /\ ~srv[s].changing /\ Len(srv[s].log) < MaxLog
      /\ srv' = [srv EXCEPT ![s] = Change(srv[s], s, srv[s].config \ Q)]
  BY DEF AutoLeave
<1> QED
  BY <1>1, <1>2, ChangeMoves

LEMMA MessageIs ==
    ASSUME TypeInv, NEW m \in net
    PROVE  /\ m.from \in Server /\ m.to \in Server
           /\ m.type = "Join" => m \in JoinRequest
           /\ m.type = "Leave" => m \in LeaveRequest
           /\ m.type = "Joining" => m \in JoinResponse
           /\ m.type = "Leaving" => m \in LeaveResponse
<1>1. m \in JoinRequest \cup LeaveRequest \cup JoinResponse \cup LeaveResponse
  BY DEF TypeInv, TypeOK
<1> QED
  BY <1>1 DEF JoinRequest, LeaveRequest, JoinResponse, LeaveResponse

LEMMA RedirectStays ==
    ASSUME NEW e \in ServerState, NEW m \in JoinResponse \cup LeaveResponse,
           NEW k \in {"Join", "Leave"}, NEW r, r = Redirect(e, m, k)
    PROVE  r \in ServerState /\ Stays(e, r)
<1>1. m.leader \in Server \cup {NoServer}
  BY DEF JoinResponse, LeaveResponse
<1>2. CASE ~m.accepted /\ m.leader # m.from
  <2>1. r = [e EXCEPT !.to[k] = m.leader]
    BY <1>2 DEF Redirect
  <2> QED
    BY <1>1, <2>1, ToStays
<1>3. CASE ~(~m.accepted /\ m.leader # m.from)
  <2>1. r = e
    BY <1>3 DEF Redirect
  <2> QED
    BY <2>1 DEF Stays
<1> QED
  BY <1>2, <1>3

LEMMA HandleJoinMoves ==
    ASSUME TypeInv, NEW m \in net, HandleJoin(m)
    PROVE  ServersMove
<1>1. m.from \in Server /\ m.to \in Server
  BY MessageIs
<1>2. PICK s \in Server : s = m.to
  BY <1>1
<1>3. srv[s].config \cup {m.from} \in SUBSET Server
  BY <1>1, ServerIs DEF ServerState
<1>4. CASE UNCHANGED srv
  BY <1>4, NoneMoves
<1>5. CASE ~(UNCHANGED srv)
  <2>1. /\ srv[s].leads /\ ~srv[s].changing /\ Len(srv[s].log) < MaxLog
        /\ srv' = [srv EXCEPT ![s] = Change(srv[s], s, srv[s].config \cup {m.from})]
    BY <1>2, <1>5 DEF HandleJoin
  <2> QED
    BY <1>3, <2>1, ChangeMoves
<1> QED
  BY <1>4, <1>5

LEMMA HandleLeaveMoves ==
    ASSUME TypeInv, NEW m \in net, HandleLeave(m)
    PROVE  ServersMove
<1>1. m.from \in Server /\ m.to \in Server
  BY MessageIs
<1>2. PICK s \in Server : s = m.to
  BY <1>1
<1>3. srv[s].config \ {m.from} \in SUBSET Server
  BY ServerIs DEF ServerState
<1>4. CASE UNCHANGED srv
  BY <1>4, NoneMoves
<1>5. CASE ~(UNCHANGED srv)
  <2>1. /\ srv[s].leads /\ ~srv[s].changing /\ Len(srv[s].log) < MaxLog
        /\ srv' = [srv EXCEPT ![s] = Change(srv[s], s, srv[s].config \ {m.from})]
    BY <1>2, <1>5 DEF HandleLeave
  <2> QED
    BY <1>3, <2>1, ChangeMoves
<1> QED
  BY <1>4, <1>5

LEMMA HandleJoiningMoves ==
    ASSUME TypeInv, NEW m \in net, HandleJoining(m)
    PROVE  ServersMove
<1>1. m.to \in Server /\ m \in JoinResponse
  BY MessageIs DEF HandleJoining
<1>2. PICK s \in Server : s = m.to
  BY <1>1
<1>3. PICK e \in ServerState : e = srv[s]
  BY ServerIs
<1>4. PICK r : r = IF ~m.accepted THEN Redirect(e, m, "Join")
                   ELSE IF m.already
                   THEN [e EXCEPT !.rewind = 1, !.catching = FALSE, !.join = FALSE]
                   ELSE [e EXCEPT !.rewind = IF m.rewind THEN 2 * e.rewind ELSE 1,
                                  !.catching = TRUE,
                                  !.join = IF m.transfer > 0 THEN FALSE ELSE e.join,
                                  !.transfer = IF m.transfer > 0 THEN m.transfer ELSE e.transfer]
  OBVIOUS
<1>5. srv' = [srv EXCEPT ![s] = r]
  BY <1>2, <1>3, <1>4 DEF HandleJoining
<1>6. r \in ServerState /\ Stays(e, r)
  <2>1. CASE ~m.accepted
    <3>1. r = Redirect(e, m, "Join")
      BY <1>4, <2>1
    <3> QED
      BY <1>1, <3>1, RedirectStays
  <2>2. CASE m.accepted /\ m.already
    <3>1. PICK n \in Nat \ {0} : n = 1
      OBVIOUS
    <3>2. r = [e EXCEPT !.rewind = n, !.catching = FALSE, !.join = FALSE]
      BY <1>4, <2>2, <3>1
    <3> QED
      BY <3>2 DEF ServerState, Stays
  <2>3. CASE m.accepted /\ ~m.already
    <3>1. PICK w : w = IF m.rewind THEN 2 * e.rewind ELSE 1
      OBVIOUS
    <3>2. PICK j : j = IF m.transfer > 0 THEN FALSE ELSE e.join
      OBVIOUS
    <3>3. PICK t : t = IF m.transfer > 0 THEN m.transfer ELSE e.transfer
      OBVIOUS
    <3>4. w \in Nat \ {0} /\ t \in 0 .. MaxLog
      BY <1>1, <3>1, <3>3 DEF ServerState, JoinResponse
    <3>5. j \in BOOLEAN
      BY <3>2 DEF ServerState
    <3>6. r = [e EXCEPT !.rewind = w, !.catching = TRUE, !.join = j, !.transfer = t]
      BY <1>4, <2>3, <3>1, <3>2, <3>3
    <3> QED
      BY <3>4, <3>5, <3>6 DEF ServerState, Stays
  <2> QED
    BY <2>1, <2>2, <2>3
<1> QED
  BY <1>3, <1>5, <1>6, OneStays

LEMMA HandleLeavingMoves ==
    ASSUME TypeInv, NEW m \in net, HandleLeaving(m)
    PROVE  ServersMove
<1>1. m.to \in Server /\ m \in LeaveResponse
  BY MessageIs DEF HandleLeaving
<1>2. PICK s \in Server : s = m.to
  BY <1>1
<1>3. PICK e \in ServerState : e = srv[s]
  BY ServerIs
<1>4. PICK r : r = IF HasLeft(m, s) THEN [Reconfigure(e, s, m.config) EXCEPT !.saved = m.config]
                   ELSE Redirect(e, m, "Leave")
  OBVIOUS
<1>5. srv' = [srv EXCEPT ![s] = r]
  BY <1>2, <1>3, <1>4 DEF HandleLeaving
<1>6. CASE HasLeft(m, s)
  <2>1. m.config \in SUBSET Server /\ s \notin m.config
    BY <1>1, <1>6 DEF LeaveResponse, HasLeft
  <2>2. PICK f : f = Reconfigure(e, s, m.config)
    OBVIOUS
  <2>3. /\ f \in ServerState /\ f.config = m.config /\ f.log = e.log /\ f.commit = e.commit
        /\ f.leads = e.leads
    BY <2>1, <2>2, ReconfigureIs
  <2>4. r = [f EXCEPT !.saved = m.config]
    BY <1>4, <1>6, <2>2
  <2>5. /\ r \in ServerState /\ r.config = f.config /\ r.log = f.log /\ r.commit = f.commit
        /\ r.leads = f.leads /\ r.saved = m.config
    BY <2>1, <2>3, <2>4 DEF ServerState
  <2>6. Leaves(s, e, r)
    BY <2>1, <2>3, <2>5 DEF Leaves
  <2>7. Len(r.log) <= MaxLog /\ Moves(s, srv[s], r)
    BY <1>3, <2>3, <2>5, <2>6, ServerIs DEF Moves
  <2> QED
    BY <1>5, <2>5, <2>7, OneMoves
<1>7. CASE ~HasLeft(m, s)
  <2>1. r = Redirect(e, m, "Leave")
    BY <1>4, <1>7
  <2>2. r \in ServerState /\ Stays(e, r)
    BY <1>1, <2>1, RedirectStays
  <2> QED
    BY <1>3, <1>5, <2>2, OneStays
<1> QED
  BY <1>6, <1>7

LEMMA ApplyTransferMoves ==
    ASSUME TypeInv, NEW s \in Server, NEW l \in Server, ApplyTransfer(s, l)
    PROVE  ServersMove
<1>1. /\ srv[s] \in ServerState /\ srv[s].log \in Seq(Entry) /\ srv[l].log \in Seq(Entry)
      /\ Len(srv[s].log) <= MaxLog /\ Len(srv[l].log) <= MaxLog
      /\ Len(srv[s].log) \in Nat /\ Len(srv[l].log) \in Nat /\ 0 \in 0 .. MaxLog
      /\ MaxLog \in Nat
  BY ServerIs, MembershipAssumption
<1>2. PICK a \in Seq(Entry) : a = srv[s].log
  BY <1>1
<1>3. PICK b \in Seq(Entry) : b = srv[l].log
  BY <1>1
<1>4. PICK A \in Nat : A = Len(a) /\ A <= MaxLog
  BY <1>1, <1>2
<1>5. PICK B \in Nat : B = Len(b) /\ B <= MaxLog
  BY <1>1, <1>3
<1>6. PICK t \in 1 .. B : t = srv[s].transfer /\ t <= A + 1
  <2>1. srv[s].transfer \in 1 .. Min({B, A + 1})
    BY <1>2, <1>3, <1>4, <1>5 DEF ApplyTransfer
  <2>2. PICK c \in Int : c = Min({B, A + 1}) /\ c <= B /\ c <= A + 1
    BY MinOfTwo
  <2> QED
    BY <2>1, <2>2
<1>7. PICK p \in Seq(Entry) : p = SubSeq(a, 1, t - 1) /\ Len(p) = t - 1
  <2>1. 1 \in 1 .. Len(a) + 1 /\ t - 1 \in 0 .. Len(a) /\ t \in Nat
    BY <1>4, <1>6
  <2>2. /\ SubSeq(a, 1, t - 1) \in Seq(Entry)
        /\ Len(SubSeq(a, 1, t - 1)) = IF 1 <= t - 1 THEN (t - 1) - 1 + 1 ELSE 0
    BY <2>1, SubSeqProperties
  <2>3. (IF 1 <= t - 1 THEN (t - 1) - 1 + 1 ELSE 0) = t - 1
    BY <1>6
  <2> QED
    BY <2>2, <2>3
<1>8. PICK q \in Seq(Entry) : q = SubSeq(b, t, B) /\ Len(q) = B - t + 1
  <2>1. t \in 1 .. Len(b) + 1 /\ B \in 0 .. Len(b) /\ t <= B
    BY <1>5, <1>6
  <2>2. /\ SubSeq(b, t, B) \in Seq(Entry)
        /\ Len(SubSeq(b, t, B)) = IF t <= B THEN B - t + 1 ELSE 0
    BY <2>1, SubSeqProperties
  <2> QED
    BY <2>1, <2>2
<1>9. PICK d \in Seq(Entry) : d = p \o q /\ Len(d) = B
  <2>1. p \o q \in Seq(Entry) /\ Len(p \o q) = Len(p) + Len(q)
    BY ConcatProperties
  <2>2. Len(p) + Len(q) = B
    BY <1>6, <1>7, <1>8
  <2> QED
    BY <2>1, <2>2
<1>10. PICK z \in Seq(Entry) : z = SubSeq(a, B + 1, A) /\ B + Len(z) <= MaxLog
  <2>1. CASE B + 1 <= A
    <3>1. B + 1 \in 1 .. Len(a) + 1 /\ A \in 0 .. Len(a)
      BY <1>4, <2>1
    <3>2. /\ SubSeq(a, B + 1, A) \in Seq(Entry)
          /\ Len(SubSeq(a, B + 1, A)) = IF B + 1 <= A THEN A - (B + 1) + 1 ELSE 0
      BY <3>1, SubSeqProperties
    <3>3. B + (A - (B + 1) + 1) = A
      OBVIOUS
    <3> QED
      BY <1>4, <2>1, <3>2, <3>3
  <2>2. CASE ~(B + 1 <= A)
    <3>1. SubSeq(a, B + 1, A) = <<>>
      BY <2>2, EmptySeq
    <3>2. PICK w \in Seq(Entry) : w = <<>> /\ Len(w) = 0
      <4>1. <<>> \in Seq(Entry) /\ Len(<<>>) = 0
        OBVIOUS
      <4> QED
        BY <4>1, Zenon
    <3>3. B + Len(w) <= MaxLog
      BY <1>5, <3>2
    <3>4. w = SubSeq(a, B + 1, A)
      BY <3>1, <3>2
    <3> QED
      BY <3>3, <3>4
  <2> QED
    BY <2>1, <2>2
<1>11. PICK g \in Seq(Entry) : g = d \o z /\ Len(g) <= MaxLog
  <2>1. d \o z \in Seq(Entry) /\ Len(d \o z) = Len(d) + Len(z)
    BY ConcatProperties
  <2>2. Len(z) \in Nat
    BY LenProperties
  <2>3. Len(d) + Len(z) <= MaxLog
    BY <1>9, <1>10, <2>2
  <2> QED
    BY <2>1, <2>3
<1>12. /\ ~srv[s].leads
       /\ srv' = [srv EXCEPT ![s].log = g, ![s].transfer = 0, ![s].join = TRUE]
  BY <1>2, <1>3, <1>4, <1>5, <1>6, <1>7, <1>8, <1>9, <1>10, <1>11 DEF ApplyTransfer
<1>13. PICK r : r = [srv[s] EXCEPT !.log = g, !.transfer = 0, !.join = TRUE]
  OBVIOUS
<1>14. srv' = [srv EXCEPT ![s] = r]
  BY <1>12, <1>13
<1>15. /\ r \in ServerState /\ r.log = g /\ ~r.leads /\ r.commit = srv[s].commit
       /\ r.config = srv[s].config /\ r.saved = srv[s].saved
  BY <1>1, <1>12, <1>13 DEF ServerState
<1>16. Copies(srv[s], r)
  BY <1>15, CommitsNothing DEF Copies
<1>17. Moves(s, srv[s], r)
  BY <1>16 DEF Moves
<1> QED
  BY <1>11, <1>14, <1>15, <1>17, OneMoves

-----------------------------------------------------------------------------
(* The messages *)

Message == JoinRequest \cup LeaveRequest \cup JoinResponse \cup LeaveResponse

CountsFit == calls' \in 0 .. MaxCalls /\ faults' \in 0 .. MaxFaults

LEMMA FaultFits ==
    ASSUME TypeInv, Fault
    PROVE  faults' \in 0 .. MaxFaults
<1>1. faults \in 0 .. MaxFaults /\ MaxFaults \in Nat
  BY MembershipAssumption DEF TypeInv, TypeOK
<1> QED
  BY <1>1 DEF Fault

LEMMA CallFits ==
    ASSUME TypeInv, calls < MaxCalls, calls' = calls + 1
    PROVE  calls' \in 0 .. MaxCalls
<1>1. calls \in 0 .. MaxCalls /\ MaxCalls \in Nat
  BY MembershipAssumption DEF TypeInv, TypeOK
<1> QED
  BY <1>1

\* Nothing new is sent.
LEMMA NothingSent ==
    ASSUME TypeInv, net' \subseteq net
    PROVE  net' \subseteq Message
  BY DEF TypeInv, TypeOK, Message

LEMMA Sent ==
    ASSUME TypeInv, NEW r \in Message, net' \subseteq net \cup {r}
    PROVE  net' \subseteq Message
  BY DEF TypeInv, TypeOK, Message

LEMMA JoinTimerSends ==
    ASSUME TypeInv, NEW s \in Server, JoinTimer(s)
    PROVE  net' \subseteq Message
<1>1. /\ srv[s] \in ServerState /\ srv[s].log \in Seq(Entry) /\ Len(srv[s].log) \in Nat
      /\ srv[s].rewind \in Nat \ {0} /\ MaxTerm \in Nat
  BY ServerIs, MembershipAssumption DEF ServerState
<1>2. PICK i \in Int : i = Len(srv[s].log) + 1 - srv[s].rewind
  BY <1>1
<1>3. i \in 0 .. Len(srv[s].log)
  BY <1>1, <1>2 DEF JoinTimer
<1>4. PICK t : t = TermAt(srv[s].log, i)
  OBVIOUS
<1>5. t \in 0 .. MaxTerm
  <2>1. CASE i = 0
    BY <1>1, <1>4, <2>1 DEF TermAt
  <2>2. CASE i # 0
    <3>1. i \in 1 .. Len(srv[s].log)
      BY <1>1, <1>3, <2>2
    <3>2. PICK x \in Entry : x = srv[s].log[i]
      BY <1>1, <3>1
    <3>3. t = x.term
      BY <1>4, <2>2, <3>2 DEF TermAt
    <3> QED
      BY <1>1, <3>3 DEF Entry
  <2> QED
    BY <2>1, <2>2
<1>6. PICK q \in Target(s, "Join") :
          net' = net \cup {[type |-> "Join", from |-> s, to |-> q, term |-> t, index |-> i]}
  BY <1>2, <1>4 DEF JoinTimer
<1>7. q \in Server
  BY <1>6, TargetIn
<1>8. i \in Nat
  BY <1>3
<1>9. [type |-> "Join", from |-> s, to |-> q, term |-> t, index |-> i] \in Message
  BY <1>5, <1>7, <1>8 DEF Message, JoinRequest
<1> QED
  BY <1>6, <1>9, Sent

LEMMA LeaveTimerSends ==
    ASSUME TypeInv, NEW s \in Server, LeaveTimer(s)
    PROVE  net' \subseteq Message
<1>1. CASE srv[s].attempt > MaxAttempts
  <2>1. net' \subseteq net
    BY <1>1 DEF LeaveTimer
  <2> QED
    BY <2>1, NothingSent
<1>2. CASE ~(srv[s].attempt > MaxAttempts)
  <2>1. PICK q \in Target(s, "Leave") :
            net' = net \cup {[type |-> "Leave", from |-> s, to |-> q]}
    BY <1>2 DEF LeaveTimer
  <2>2. q \in Server
    BY <2>1, TargetIn
  <2>3. [type |-> "Leave", from |-> s, to |-> q] \in Message
    BY <2>2 DEF Message, LeaveRequest
  <2> QED
    BY <2>1, <2>3, Sent
<1> QED
  BY <1>1, <1>2

\* A state transfer starts at an entry that the leader has.
LEMMA HandleJoinSends ==
    ASSUME TypeInv, NEW m \in net, HandleJoin(m)
    PROVE  net' \subseteq Message
<1>1. m \in JoinRequest
  BY MessageIs DEF HandleJoin
<1>2. PICK s \in Server : s = m.to
  BY <1>1 DEF JoinRequest
<1>3. m.from \in Server /\ m.index \in Nat
  BY <1>1 DEF JoinRequest
<1>4. /\ srv[s] \in ServerState /\ srv[s].leader \in Server \cup {NoServer}
      /\ Len(srv[s].log) \in Nat /\ Len(srv[s].log) <= MaxLog
      /\ MaxLog \in Nat /\ MinGap \in Nat \ {0}
  BY ServerIs, MembershipAssumption DEF ServerState
<1>5. PICK answer : answer =
          [type |-> "Joining", from |-> s, to |-> m.from, accepted |-> TRUE,
           leader |-> srv[s].leader, already |-> FALSE, transfer |-> 0, rewind |-> FALSE]
  OBVIOUS
<1>6. 0 \in 0 .. MaxLog
  BY <1>4
<1>7. answer \in JoinResponse
  BY <1>3, <1>4, <1>5, <1>6 DEF JoinResponse
<1>8. \/ net' = (net \ {m}) \cup {answer}
      \/ net' = (net \ {m}) \cup {[answer EXCEPT !.accepted = FALSE]}
      \/ net' = (net \ {m}) \cup {[answer EXCEPT !.already = TRUE]}
      \/ net' = (net \ {m}) \cup {[answer EXCEPT !.rewind = TRUE]}
      \/ /\ LogOk(s, m) /\ Len(srv[s].log) - m.index >= MinGap
         /\ net' = (net \ {m}) \cup {[answer EXCEPT !.transfer = m.index + 1]}
  BY <1>2, <1>5 DEF HandleJoin
<1>9. LogOk(s, m) /\ Len(srv[s].log) - m.index >= MinGap => m.index + 1 \in 0 .. MaxLog
  BY <1>3, <1>4
<1>10. PICK r \in JoinResponse : net' = (net \ {m}) \cup {r}
  BY <1>7, <1>8, <1>9 DEF JoinResponse
<1>11. r \in Message /\ net' \subseteq net \cup {r}
  BY <1>10 DEF Message
<1> QED
  BY <1>11, Sent

LEMMA HandleLeaveSends ==
    ASSUME TypeInv, NEW m \in net, HandleLeave(m)
    PROVE  net' \subseteq Message
<1>1. m \in LeaveRequest
  BY MessageIs DEF HandleLeave
<1>2. PICK s \in Server : s = m.to
  BY <1>1 DEF LeaveRequest
<1>3. m.from \in Server
  BY <1>1 DEF LeaveRequest
<1>4. /\ srv[s] \in ServerState /\ srv[s].leader \in Server \cup {NoServer}
      /\ srv[s].config \in SUBSET Server
  BY ServerIs DEF ServerState
<1>5. PICK answer : answer =
          [type |-> "Leaving", from |-> s, to |-> m.from, accepted |-> TRUE,
           leader |-> srv[s].leader, already |-> FALSE, config |-> {}]
  OBVIOUS
<1>6. answer \in LeaveResponse
  BY <1>3, <1>4, <1>5 DEF LeaveResponse
<1>7. \/ net' = (net \ {m}) \cup {answer}
      \/ net' = (net \ {m}) \cup {[answer EXCEPT !.accepted = FALSE]}
      \/ net' = (net \ {m}) \cup {[answer EXCEPT !.already = TRUE, !.config = srv[s].config]}
  BY <1>2, <1>5 DEF HandleLeave
<1>8. PICK r \in LeaveResponse : net' = (net \ {m}) \cup {r}
  BY <1>4, <1>6, <1>7 DEF LeaveResponse
<1>9. r \in Message /\ net' \subseteq net \cup {r}
  BY <1>8 DEF Message
<1> QED
  BY <1>9, Sent

-----------------------------------------------------------------------------
(* Every step *)

LEMMA InitTypes ==
    ASSUME Init
    PROVE  TypeInv
<1>1. PICK others \in 0 .. 1, stale \in BOOLEAN :
        srv = [s \in Server |->
            LET in == s \in First
            IN  [leads |-> s = FirstLeader, term |-> IF in THEN 2 ELSE 1,
                 leader |-> IF in THEN FirstLeader ELSE NoServer, config |-> First, saved |-> First,
                 log |-> IF in
                         THEN <<[term |-> 2, config |-> First]>>
                              \o [i \in 1 .. others |-> [term |-> 2, config |-> {}]]
                         ELSE IF stale THEN <<[term |-> 1, config |-> {}]>> ELSE <<>>,
                 commit |-> IF in THEN 1 + others ELSE 0,
                 changing |-> FALSE, catching |-> ~in, locked |-> FALSE, join |-> ~in,
                 rewind |-> 1, transfer |-> 0, attempt |-> 0, told |-> "nothing",
                 to |-> [k \in {"Join", "Leave"} |-> NoServer]]]
  BY DEF Init
<1>2. /\ {1, 2} \subseteq 1 .. MaxTerm /\ {0, 1, 2} \subseteq 0 .. MaxLog /\ MaxLog \in Nat
      /\ 2 <= MaxLog /\ 1 <= MaxLog /\ 0 <= MaxLog /\ 0 \in 0 .. MaxAttempts + 1 /\ 1 \in Nat \ {0}
      /\ First \subseteq Server /\ FirstLeader \in Server
  BY MembershipAssumption
<1>3. PICK mine \in Seq(Entry) :
          /\ mine = <<[term |-> 2, config |-> First]>>
                    \o [i \in 1 .. others |-> [term |-> 2, config |-> {}]]
          /\ Len(mine) = 1 + others
  <2>1. PICK x \in Entry : x = [term |-> 2, config |-> First]
    BY <1>2 DEF Entry
  <2>2. PICK y \in Entry : y = [term |-> 2, config |-> {}]
    BY <1>2 DEF Entry
  <2>3. PICK z : z = [i \in 1 .. others |-> y]
    OBVIOUS
  <2>4. z \in Seq(Entry) /\ Len(z) = others
    BY <2>3
  <2>5. <<x>> \in Seq(Entry) /\ Len(<<x>>) = 1
    OBVIOUS
  <2>6. <<x>> \o z \in Seq(Entry) /\ Len(<<x>> \o z) = 1 + others
    BY <2>4, <2>5, ConcatProperties
  <2> QED
    BY <2>1, <2>2, <2>3, <2>6
<1>4. PICK other \in Seq(Entry) :
          /\ other = IF stale THEN <<[term |-> 1, config |-> {}]>> ELSE <<>>
          /\ Len(other) <= 1
  <2>1. PICK x \in Entry : x = [term |-> 1, config |-> {}]
    BY <1>2 DEF Entry
  <2>2. <<x>> \in Seq(Entry) /\ Len(<<x>>) <= 1 /\ <<>> \in Seq(Entry) /\ Len(<<>>) <= 1
    OBVIOUS
  <2>3. CASE stale
    BY <2>1, <2>2, <2>3, Zenon
  <2>4. CASE ~stale
    BY <2>2, <2>4, Zenon
  <2> QED
    BY <2>3, <2>4
<1>5. ASSUME NEW s \in Server
      PROVE  srv[s] \in ServerState /\ Len(srv[s].log) <= MaxLog
  <2>1. PICK log \in Seq(Entry) : /\ log = IF s \in First THEN mine ELSE other
                                  /\ Len(log) <= MaxLog
    <3>1. Len(mine) <= MaxLog
      BY <1>2, <1>3
    <3>2. Len(other) <= MaxLog
      <4>1. Len(other) \in Nat
        BY LenProperties
      <4> QED
        BY <1>2, <1>4, <4>1
    <3>3. CASE s \in First
      BY <3>1, <3>3, Zenon
    <3>4. CASE ~(s \in First)
      BY <3>2, <3>4, Zenon
    <3> QED
      BY <3>3, <3>4
  <2> DEFINE leads == IF s = FirstLeader THEN TRUE ELSE FALSE
             out == IF s \in First THEN FALSE ELSE TRUE
             term == IF s \in First THEN 2 ELSE 1
             leader == IF s \in First THEN FirstLeader ELSE NoServer
             commit == IF s \in First THEN 1 + others ELSE 0
             to == [k \in {"Join", "Leave"} |-> NoServer]
  <2>2. /\ leads \in BOOLEAN /\ leads = (s = FirstLeader)
        /\ out \in BOOLEAN /\ out = (~(s \in First))
    OBVIOUS
  <2>3. /\ term \in 1 .. MaxTerm /\ leader \in Server \cup {NoServer}
        /\ to \in [{"Join", "Leave"} -> Server \cup {NoServer}]
    BY <1>2
  <2>4. commit \in 0 .. MaxLog
    BY <1>2
  <2>5. srv[s] = [leads |-> leads, term |-> term, leader |-> leader, config |-> First,
                  saved |-> First, log |-> log, commit |-> commit,
                  changing |-> FALSE, catching |-> out, locked |-> FALSE, join |-> out,
                  rewind |-> 1, transfer |-> 0, attempt |-> 0, told |-> "nothing", to |-> to]
    BY <1>1, <1>3, <1>4, <2>1, <2>2
  <2> HIDE DEF leads, out, term, leader, commit, to
  <2>6. First \in SUBSET Server /\ 0 \in 0 .. MaxLog
    BY <1>2
  <2> QED
    BY <1>2, <2>1, <2>2, <2>3, <2>4, <2>5, <2>6 DEF ServerState
<1>6. srv \in [Server -> ServerState]
  BY <1>1, <1>5
<1>7. net \subseteq (JoinRequest \cup LeaveRequest \cup JoinResponse \cup LeaveResponse)
  BY DEF Init
<1>8. calls \in 0 .. MaxCalls /\ faults \in 0 .. MaxFaults
  BY MembershipAssumption DEF Init
<1> QED
  BY <1>5, <1>6, <1>7, <1>8 DEF TypeInv, TypeOK

\* What every step does
StepFits == ServersMove /\ net' \subseteq Message /\ CountsFit

LEMMA StepsFit ==
    ASSUME TypeInv, [Next]_vars
    PROVE  StepFits
<1>1. calls \in 0 .. MaxCalls /\ faults \in 0 .. MaxFaults
  BY DEF TypeInv, TypeOK
<1>2. ASSUME UNCHANGED vars
      PROVE  StepFits
  <2>1. UNCHANGED srv /\ net' \subseteq net /\ CountsFit
    BY <1>1, <1>2 DEF vars, CountsFit
  <2> QED
    BY <2>1, NoneMoves, NothingSent DEF StepFits
<1>3. ASSUME NEW s \in Server, Commit(s)
      PROVE  StepFits
  <2>1. net' \subseteq net /\ CountsFit
    BY <1>1, <1>3 DEF Commit, CountsFit
  <2> QED
    BY <1>3, <2>1, CommitMoves, NothingSent DEF StepFits
<1>4. ASSUME NEW s \in Server, StepDown(s)
      PROVE  StepFits
  <2>1. net' \subseteq net /\ CountsFit
    BY <1>1, <1>4, FaultFits DEF StepDown, CountsFit
  <2> QED
    BY <1>4, <2>1, StepDownMoves, NothingSent DEF StepFits
<1>5. ASSUME NEW s \in Server, Restart(s)
      PROVE  StepFits
  <2>1. net' \subseteq net /\ CountsFit
    BY <1>1, <1>5, FaultFits DEF Restart, CountsFit
  <2> QED
    BY <1>5, <2>1, RestartMoves, NothingSent DEF StepFits
<1>6. ASSUME NEW s \in Server, JoinTimer(s)
      PROVE  StepFits
  <2>1. CountsFit
    BY <1>1, <1>6 DEF JoinTimer, CountsFit
  <2> QED
    BY <1>6, <2>1, JoinTimerMoves, JoinTimerSends DEF StepFits
<1>7. ASSUME NEW s \in Server, LeaveTimer(s)
      PROVE  StepFits
  <2>1. CountsFit
    BY <1>1, <1>7 DEF LeaveTimer, CountsFit
  <2> QED
    BY <1>7, <2>1, LeaveTimerMoves, LeaveTimerSends DEF StepFits
<1>8. ASSUME NEW s \in Server, LeaveGroup(s)
      PROVE  StepFits
  <2>1. net' \subseteq net /\ CountsFit
    BY <1>1, <1>8, CallFits DEF LeaveGroup, CountsFit
  <2> QED
    BY <1>8, <2>1, LeaveGroupMoves, NothingSent DEF StepFits
<1>9. ASSUME NEW s \in Server, GracefulClose(s)
      PROVE  StepFits
  <2>1. net' \subseteq net /\ CountsFit
    BY <1>1, <1>9, CallFits DEF GracefulClose, CountsFit
  <2> QED
    BY <1>9, <2>1, GracefulCloseMoves, NothingSent DEF StepFits
<1>10. ASSUME NEW s \in Server, NEW Q \in SUBSET Server, Elect(s, Q)
       PROVE  StepFits
  <2>1. net' \subseteq net /\ CountsFit
    BY <1>1, <1>10 DEF Elect, CountsFit
  <2> QED
    BY <1>10, <2>1, ElectMoves, NothingSent DEF StepFits
<1>11. ASSUME NEW s \in Server, NEW Q \in SUBSET Server, AutoLeave(s, Q)
       PROVE  StepFits
  <2>1. net' \subseteq net /\ CountsFit
    BY <1>1, <1>11, FaultFits DEF AutoLeave, CountsFit
  <2> QED
    BY <1>11, <2>1, AutoLeaveMoves, NothingSent DEF StepFits
<1>12. ASSUME NEW s \in Server, NEW r \in Server, Replicate(s, r)
       PROVE  StepFits
  <2>1. net' \subseteq net /\ CountsFit
    BY <1>1, <1>12 DEF Replicate, CountsFit
  <2> QED
    BY <1>12, <2>1, ReplicateMoves, NothingSent DEF StepFits
<1>13. ASSUME NEW s \in Server, NEW r \in Server, ApplyTransfer(s, r)
       PROVE  StepFits
  <2>1. net' \subseteq net /\ CountsFit
    BY <1>1, <1>13 DEF ApplyTransfer, CountsFit
  <2> QED
    BY <1>13, <2>1, ApplyTransferMoves, NothingSent DEF StepFits
<1>14. ASSUME NEW m \in net, HandleJoin(m)
       PROVE  StepFits
  <2>1. CountsFit
    BY <1>1, <1>14 DEF HandleJoin, CountsFit
  <2> QED
    BY <1>14, <2>1, HandleJoinMoves, HandleJoinSends DEF StepFits
<1>15. ASSUME NEW m \in net, HandleLeave(m)
       PROVE  StepFits
  <2>1. CountsFit
    BY <1>1, <1>15 DEF HandleLeave, CountsFit
  <2> QED
    BY <1>15, <2>1, HandleLeaveMoves, HandleLeaveSends DEF StepFits
<1>16. ASSUME NEW m \in net, HandleJoining(m)
       PROVE  StepFits
  <2>1. net' \subseteq net /\ CountsFit
    BY <1>1, <1>16 DEF HandleJoining, CountsFit
  <2> QED
    BY <1>16, <2>1, HandleJoiningMoves, NothingSent DEF StepFits
<1>17. ASSUME NEW m \in net, HandleLeaving(m)
       PROVE  StepFits
  <2>1. net' \subseteq net /\ CountsFit
    BY <1>1, <1>17 DEF HandleLeaving, CountsFit
  <2> QED
    BY <1>17, <2>1, HandleLeavingMoves, NothingSent DEF StepFits
<1>18. ASSUME NEW m \in net, Lose(m)
       PROVE  StepFits
  <2>1. net' \subseteq net /\ CountsFit
    BY <1>1, <1>18, FaultFits DEF Lose, CountsFit
  <2> QED
    BY <1>18, <2>1, LoseMoves, NothingSent DEF StepFits
<1> QED
  BY <1>2, <1>3, <1>4, <1>5, <1>6, <1>7, <1>8, <1>9, <1>10, <1>11, <1>12, <1>13, <1>14, <1>15,
     <1>16, <1>17, <1>18 DEF Next

LEMMA NextTypes ==
    ASSUME TypeInv, [Next]_vars
    PROVE  TypeInv'
  BY StepsFit DEF StepFits, ServersMove, CountsFit, Message, TypeInv, TypeOK

(***************************************************************************)
(* Every variable keeps its type: no handler takes a configuration, a term *)
(* or an index out of its range, nor counts attempts beyond their limit    *)
(* (membership.rs, join.rs, leave.rs).                                     *)
(***************************************************************************)
THEOREM TypeCorrect == Spec => []TypeOK
<1>1. TypeInv => TypeOK
  BY DEF TypeInv
<1> QED
  BY <1>1, InitTypes, NextTypes, PTL DEF Spec

-----------------------------------------------------------------------------
(* One change at a time.  A leader knows that a change is under way, and   *)
(* that only one is.                                                       *)

OnePendingOf(e) == \A i, j \in Pending(e) : i = j

OneChange(e) == e.leads => OnePendingOf(e) /\ (e.changing \/ Pending(e) = {})

LEMMA PendingIs ==
    ASSUME NEW e \in ServerState
    PROVE  /\ Len(e.log) \in Nat /\ e.commit \in Nat
           /\ Pending(e) = {i \in 1 .. Len(e.log) : i > e.commit /\ e.log[i].config # {}}
<1>1. e.log \in Seq(Entry) /\ e.commit \in Nat
  BY MembershipAssumption DEF ServerState
<1>2. DOMAIN e.log = 1 .. Len(e.log) /\ Len(e.log) \in Nat
  BY <1>1, LenProperties
<1> QED
  BY <1>1, <1>2 DEF Pending, Configured

\* What is committed next may be the pending change, or what is before it.
LEMMA CommitsOne ==
    ASSUME NEW e \in ServerState, NEW r, Commits(e, r), OneChange(e)
    PROVE  OneChange(r)
<1>1. /\ r \in ServerState /\ r.log = e.log /\ (r.leads <=> e.leads) /\ e.commit <= r.commit
      /\ Adopts(e, r, r.commit) /\ (r.commit = e.commit \/ r.commit <= Len(e.log))
  BY DEF Commits
<1>2. /\ Len(e.log) \in Nat /\ e.commit \in Nat /\ r.commit \in Nat
      /\ Pending(e) = {i \in 1 .. Len(e.log) : i > e.commit /\ e.log[i].config # {}}
      /\ Pending(r) = {i \in 1 .. Len(e.log) : i > r.commit /\ e.log[i].config # {}}
  BY <1>1, PendingIs
<1>3. Pending(r) \subseteq Pending(e)
  BY <1>1, <1>2
<1>4. CASE r.changing <=> e.changing
  BY <1>1, <1>3, <1>4 DEF OneChange, OnePendingOf
<1>5. CASE \E j \in e.commit + 1 .. r.commit : e.log[j].config # {}
  <2>1. PICK j \in e.commit + 1 .. r.commit : e.log[j].config # {}
    BY <1>5
  <2>2. j \in Pending(e) /\ j <= r.commit
    BY <1>1, <1>2, <2>1
  <2>3. ASSUME e.leads
        PROVE  Pending(r) = {}
    <3>1. \A i \in Pending(r) : i = j /\ i > r.commit
      BY <1>2, <1>3, <2>2, <2>3 DEF OneChange, OnePendingOf
    <3> QED
      BY <1>2, <2>1, <2>2, <3>1
  <2> QED
    BY <1>1, <2>3 DEF OneChange, OnePendingOf
<1> QED
  BY <1>1, <1>4, <1>5 DEF Adopts

\* A leader that is elected with one pending change, or with none
LEMMA ReusesOne ==
    ASSUME NEW e \in ServerState, OnePendingOf(e),
           NEW g \in ServerState, g.log = e.log, g.commit = e.commit, Reuses(e, g, Len(e.log))
    PROVE  OneChange(g)
<1>1. Pending(g) = Pending(e)
  BY DEF Pending
<1>2. g.changing \/ Pending(e) = {}
  <2>1. CASE \A i \in e.commit + 1 .. Len(e.log) : e.log[i].config = {}
    <3>1. /\ Len(e.log) \in Nat /\ e.commit \in Nat
          /\ Pending(e) = {i \in 1 .. Len(e.log) : i > e.commit /\ e.log[i].config # {}}
      BY PendingIs
    <3>2. \A i \in 1 .. Len(e.log) : i > e.commit => i \in e.commit + 1 .. Len(e.log)
      BY <3>1
    <3> QED
      BY <2>1, <3>1, <3>2
  <2>2. CASE g.changing
    BY <2>2
  <2> QED
    BY <2>1, <2>2 DEF Reuses
<1> QED
  BY <1>1, <1>2 DEF OneChange, OnePendingOf

LEMMA RisesOne ==
    ASSUME NEW e \in ServerState, NEW r, Rises(e, r), OnePendingOf(e)
    PROVE  OneChange(r)
<1>1. PICK g \in ServerState : /\ g.log = e.log /\ g.commit = e.commit /\ g.leads
                               /\ Reuses(e, g, Len(e.log)) /\ Commits(g, r)
  BY DEF Rises
<1>2. OneChange(g)
  BY <1>1, ReusesOne
<1> QED
  BY <1>1, <1>2, CommitsOne

\* A leader that appends a configuration while none is pending
LEMMA AddsOne ==
    ASSUME NEW e \in ServerState, OneChange(e), e.leads, ~e.changing,
           NEW f \in ServerState, NEW x \in Entry, f.log = Append(e.log, x),
           f.commit = e.commit, f.changing
    PROVE  OneChange(f)
<1>1. Pending(e) = {}
  BY DEF OneChange
<1>2. PICK n \in Nat : n = Len(e.log)
  BY PendingIs
<1>3. e.log \in Seq(Entry)
  BY DEF ServerState
<1>4. /\ Pending(e) = {i \in 1 .. n : i > e.commit /\ e.log[i].config # {}}
      /\ Pending(f) = {i \in 1 .. Len(f.log) : i > e.commit /\ f.log[i].config # {}}
  BY <1>2, PendingIs
<1>5. Len(f.log) = n + 1 /\ \A i \in 1 .. n : f.log[i] = e.log[i]
  BY <1>2, <1>3
<1>6. \A i \in 1 .. n + 1 : i \in 1 .. n \/ i = n + 1
  BY <1>2
<1>7. \A i \in Pending(f) : i = n + 1
  BY <1>1, <1>4, <1>5, <1>6
<1> QED
  BY <1>7 DEF OneChange, OnePendingOf

LEMMA MovesOne ==
    ASSUME NEW s \in Server, NEW e \in ServerState, NEW r \in ServerState, Moves(s, e, r),
           OneChange(e), ~e.leads /\ r.leads => OnePendingOf(e), r.leads => s \in r.config
    PROVE  OneChange(r)
<1>1. CASE Stays(e, r)
  <2>1. Pending(r) = Pending(e)
    BY <1>1 DEF Stays, Pending
  <2> QED
    BY <1>1, <2>1 DEF Stays, OneChange, OnePendingOf
<1>2. CASE Commits(e, r)
  BY <1>2, CommitsOne
<1>3. CASE ~r.leads
  BY <1>3 DEF OneChange
<1>4. CASE Rises(e, r) /\ r.leads
  <2>1. OnePendingOf(e)
    BY <1>4 DEF Rises
  <2> QED
    BY <1>4, <2>1, RisesOne
<1>5. CASE Adds(e, r)
  <2>1. PICK f \in ServerState, x \in Entry :
            /\ f.log = Append(e.log, x) /\ f.commit = e.commit /\ f.leads /\ f.changing
            /\ f.config = x.config /\ f.saved = e.saved /\ Commits(f, r)
    BY <1>5 DEF Adds
  <2>2. OneChange(f)
    BY <1>5, <2>1, AddsOne DEF Adds
  <2> QED
    BY <2>1, <2>2, CommitsOne
<1>6. CASE Leaves(s, e, r)
  BY <1>6 DEF Leaves, OneChange
<1> QED
  BY <1>1, <1>2, <1>3, <1>4, <1>5, <1>6 DEF Moves, Copies, Restarts

ChangesInv == TypeInv /\ \A s \in Server : OneChange(srv[s])

\* The log that a server starts with
Starts(s) ==
    /\ srv[s].leads => s \in First
    /\ srv[s].config = First /\ srv[s].saved = First
    /\ s \notin First => srv[s].commit = 0
    /\ s \in First => /\ Len(srv[s].log) = srv[s].commit /\ srv[s].commit \in {1, 2}
                      /\ srv[s].log[1].config = First
                      /\ \A i \in 2 .. srv[s].commit : srv[s].log[i].config = {}

LEMMA InitStarts ==
    ASSUME Init, NEW s \in Server
    PROVE  Starts(s)
<1>1. PICK others \in 0 .. 1, stale \in BOOLEAN :
        srv = [q \in Server |->
            LET in == q \in First
            IN  [leads |-> q = FirstLeader, term |-> IF in THEN 2 ELSE 1,
                 leader |-> IF in THEN FirstLeader ELSE NoServer, config |-> First, saved |-> First,
                 log |-> IF in
                         THEN <<[term |-> 2, config |-> First]>>
                              \o [i \in 1 .. others |-> [term |-> 2, config |-> {}]]
                         ELSE IF stale THEN <<[term |-> 1, config |-> {}]>> ELSE <<>>,
                 commit |-> IF in THEN 1 + others ELSE 0,
                 changing |-> FALSE, catching |-> ~in, locked |-> FALSE, join |-> ~in,
                 rewind |-> 1, transfer |-> 0, attempt |-> 0, told |-> "nothing",
                 to |-> [k \in {"Join", "Leave"} |-> NoServer]]]
  BY DEF Init
<1>2. /\ srv[s].leads <=> s = FirstLeader
      /\ srv[s].config = First /\ srv[s].saved = First
      /\ s \notin First => srv[s].commit = 0
      /\ s \in First =>
            /\ srv[s].commit = 1 + others
            /\ srv[s].log = <<[term |-> 2, config |-> First]>>
                            \o [i \in 1 .. others |-> [term |-> 2, config |-> {}]]
  BY <1>1
<1>3. FirstLeader \in First
  BY MembershipAssumption
<1>4. ASSUME s \in First
      PROVE  /\ Len(srv[s].log) = srv[s].commit /\ srv[s].commit \in {1, 2}
             /\ srv[s].log[1].config = First
             /\ \A i \in 2 .. srv[s].commit : srv[s].log[i].config = {}
  <2>1. PICK x : x = [term |-> 2, config |-> First]
    OBVIOUS
  <2>2. PICK y : y = [term |-> 2, config |-> {}]
    OBVIOUS
  <2>3. x.config = First /\ y.config = {}
    BY <2>1, <2>2
  <2>4. PICK z : z = [i \in 1 .. others |-> y]
    OBVIOUS
  <2>5. PICK w : w = <<x>> \o z
    OBVIOUS
  <2>6. z \in Seq({x, y}) /\ Len(z) = others /\ \A i \in 1 .. others : z[i] = y
    BY <2>4
  <2>7. <<x>> \in Seq({x, y}) /\ Len(<<x>>) = 1 /\ <<x>>[1] = x
    OBVIOUS
  <2>8. Len(w) = 1 + others /\ w[1] = x /\ \A i \in 2 .. 1 + others : w[i] = y
    <3>1. /\ Len(w) = 1 + others
          /\ \A i \in 1 .. 1 + others : w[i] = IF i <= 1 THEN <<x>>[i] ELSE z[i - 1]
      BY <2>5, <2>6, <2>7, ConcatProperties
    <3> QED
      BY <2>6, <2>7, <3>1
  <2>9. srv[s].log = w /\ srv[s].commit = 1 + others
    BY <1>2, <1>4, <2>1, <2>2, <2>4, <2>5
  <2>10. 1 + others \in {1, 2}
    OBVIOUS
  <2> QED
    BY <2>3, <2>8, <2>9, <2>10
<1> QED
  BY <1>2, <1>3, <1>4 DEF Starts

LEMMA InitChanges ==
    ASSUME Init
    PROVE  ChangesInv
<1>1. TypeInv
  BY InitTypes
<1>2. ASSUME NEW s \in Server, srv[s].leads
      PROVE  Pending(srv[s]) = {}
  <2>1. /\ Len(srv[s].log) \in Nat
        /\ Pending(srv[s]) = {i \in 1 .. Len(srv[s].log) :
                                 i > srv[s].commit /\ srv[s].log[i].config # {}}
    BY <1>1, ServerIs, PendingIs
  <2>2. Len(srv[s].log) = srv[s].commit
    BY <1>2, InitStarts DEF Starts
  <2> QED
    BY <2>1, <2>2
<1> QED
  BY <1>1, <1>2 DEF ChangesInv, OneChange, OnePendingOf

LEMMA ChangesKept ==
    ASSUME ChangesInv, [Next]_vars, OnePending, LeadersBelong
    PROVE  ChangesInv'
<1>1. TypeInv /\ ServersMove
  BY StepsFit DEF ChangesInv, StepFits
<1>2. TypeInv'
  BY <1>1, NextTypes
<1>3. ASSUME NEW s \in Server
      PROVE  OneChange(srv'[s])
  <2>1. PICK e \in ServerState : e = srv[s]
    BY <1>1, ServerIs
  <2>2. PICK r \in ServerState : r = srv'[s]
    BY <1>1 DEF ServersMove
  <2>3. Moves(s, e, r) /\ OneChange(e)
    BY <1>1, <2>1, <2>2 DEF ServersMove, ChangesInv
  <2>4. ~e.leads /\ r.leads => OnePendingOf(e)
    BY <2>1, <2>2 DEF OnePending, Elected, OnePendingOf
  <2>5. r.leads => s \in r.config
    BY <2>2 DEF LeadersBelong
  <2>6. OneChange(r)
    BY <2>3, <2>4, <2>5, MovesOne
  <2> QED
    BY <2>2, <2>6
<1> QED
  BY <1>2, <1>3 DEF ChangesInv, OneChange, OnePendingOf, Pending

(***************************************************************************)
(* A leader makes one change at a time, whoever else asks meanwhile, as    *)
(* long as those that are elected knew all changes but the last to be      *)
(* committed and belong to the group (configuration_changing).             *)
(***************************************************************************)
THEOREM OneChangeCorrect ==
    Spec /\ [][OnePending /\ LeadersBelong]_vars => []OneChangeAtATime
<1>1. ChangesInv => OneChangeAtATime
  BY DEF ChangesInv, OneChange, OnePendingOf, OneChangeAtATime
<1>2. ChangesInv /\ UNCHANGED vars => ChangesInv'
  BY NextTypes DEF ChangesInv, vars, OneChange, OnePendingOf, Pending
<1>3. ChangesInv /\ [Next]_vars /\ [OnePending /\ LeadersBelong]_vars => ChangesInv'
  BY <1>2, ChangesKept
<1> QED
  BY <1>1, <1>3, InitChanges, PTL DEF Spec

-----------------------------------------------------------------------------
(* The configuration in use, and where it is in the log *)

\* c is the last configuration of the first n entries, or is after them, at index m at most.
Latest(log, c, m, n) ==
    \E i \in 1 .. m : /\ log[i].config # {} /\ log[i].config = c
                      /\ \A j \in i + 1 .. n : log[j].config = {}

\* A server that its configuration has finds that configuration in its log: a leader as the
\* last one, another server among those that are not committed, or as the last committed.
Placed(s, e) ==
    /\ e.commit <= Len(e.log)
    /\ s \in e.config =>
          Latest(e.log, e.config, Len(e.log), IF e.leads THEN Len(e.log) ELSE e.commit)
    /\ s \in e.saved => Latest(e.log, e.saved, e.commit, e.commit)

LEMMA Numbers ==
    ASSUME NEW e \in ServerState
    PROVE  e.log \in Seq(Entry) /\ Len(e.log) \in Nat /\ e.commit \in Nat
<1>1. e.log \in Seq(Entry) /\ e.commit \in Nat
  BY MembershipAssumption DEF ServerState
<1> QED
  BY <1>1, LenProperties

\* More entries without a configuration, or fewer to look at
LEMMA LatestOn ==
    ASSUME NEW log, NEW c, NEW m \in Nat, NEW n \in Nat, NEW k \in Nat, NEW o \in Nat, m <= k,
           Latest(log, c, m, n), \A i \in n + 1 .. o : log[i].config = {}
    PROVE  Latest(log, c, k, o)
<1>1. PICK i \in 1 .. m : /\ log[i].config # {} /\ log[i].config = c
                          /\ \A j \in i + 1 .. n : log[j].config = {}
  BY DEF Latest
<1>2. i \in 1 .. k
  OBVIOUS
<1>3. \A j \in i + 1 .. o : j \in i + 1 .. n \/ j \in n + 1 .. o
  OBVIOUS
<1> QED
  BY <1>1, <1>2, <1>3 DEF Latest

LEMMA CommitsPlaced ==
    ASSUME NEW s \in Server, NEW e \in ServerState, NEW r, Commits(e, r), OneChange(e),
           Placed(s, e)
    PROVE  Placed(s, r)
<1>1. /\ r \in ServerState /\ r.log = e.log /\ (r.leads <=> e.leads) /\ e.commit <= r.commit
      /\ Adopts(e, r, r.commit) /\ (r.commit = e.commit \/ r.commit <= Len(e.log))
  BY DEF Commits
<1>2. PICK log \in Seq(Entry) : log = e.log
  BY Numbers
<1>3. PICK N \in Nat : N = Len(log)
  BY <1>2, LenProperties
<1>4. PICK a \in Nat : a = e.commit
  BY Numbers
<1>5. PICK b \in Nat : b = r.commit
  BY <1>1, Numbers
<1>6. a <= b /\ a <= N /\ b <= N
  BY <1>1, <1>2, <1>3, <1>4, <1>5 DEF Placed
<1>7. CASE /\ \A i \in a + 1 .. b : log[i].config = {}
           /\ r.config = e.config /\ r.saved = e.saved
  <2>1. ASSUME s \in e.config
        PROVE  Latest(log, e.config, N, IF e.leads THEN N ELSE b)
    <3>1. CASE e.leads
      BY <1>2, <1>3, <2>1, <3>1 DEF Placed
    <3>2. CASE ~e.leads
      <4>1. Latest(log, e.config, N, a)
        BY <1>2, <1>3, <1>4, <2>1, <3>2 DEF Placed
      <4>2. Latest(log, e.config, N, b)
        BY <1>7, <4>1, LatestOn
      <4> QED
        BY <3>2, <4>2
    <3> QED
      BY <3>1, <3>2
  <2>2. ASSUME s \in e.saved
        PROVE  Latest(log, e.saved, b, b)
    <3>1. Latest(log, e.saved, a, a)
      BY <1>2, <1>4, <2>2 DEF Placed
    <3> QED
      BY <1>6, <1>7, <3>1, LatestOn
  <2> QED
    BY <1>1, <1>2, <1>3, <1>5, <1>6, <1>7, <2>1, <2>2 DEF Placed
<1>8. CASE \E j \in a + 1 .. b :
              /\ log[j].config # {} /\ \A i \in j + 1 .. b : log[i].config = {}
              /\ r.config = log[j].config /\ r.saved = log[j].config
  <2>1. PICK j \in a + 1 .. b :
              /\ log[j].config # {} /\ \A i \in j + 1 .. b : log[i].config = {}
              /\ r.config = log[j].config /\ r.saved = log[j].config
    BY <1>8
  <2>2. j \in 1 .. b /\ j \in 1 .. N /\ j > a
    BY <1>6
  <2>3. Latest(log, r.saved, b, b) /\ Latest(log, r.config, N, b)
    BY <2>1, <2>2 DEF Latest
  <2>4. ASSUME e.leads
        PROVE  Latest(log, r.config, N, N)
    <3>1. /\ j \in Pending(e)
          /\ \A i \in 1 .. N : i > a /\ log[i].config # {} => i \in Pending(e)
      BY <1>2, <1>3, <1>4, <2>1, <2>2, PendingIs
    <3>2. \A i \in j + 1 .. N : i \in 1 .. N /\ i > a /\ i # j
      BY <2>2
    <3>3. \A i \in j + 1 .. N : log[i].config = {}
      BY <2>4, <3>1, <3>2 DEF OneChange, OnePendingOf
    <3> QED
      BY <2>1, <2>2, <3>3 DEF Latest
  <2> QED
    BY <1>1, <1>2, <1>3, <1>5, <1>6, <2>3, <2>4 DEF Placed
<1> QED
  BY <1>1, <1>2, <1>4, <1>5, <1>7, <1>8 DEF Adopts

\* Who is elected uses again what it uses already, or a configuration that is pending.
LEMMA ReusesPlaced ==
    ASSUME NEW s \in Server, NEW e \in ServerState, Placed(s, e), ~e.leads,
           NEW g \in ServerState, g.log = e.log, g.commit = e.commit, g.leads,
           Reuses(e, g, Len(e.log))
    PROVE  Placed(s, g)
<1>1. PICK log \in Seq(Entry) : log = e.log
  BY Numbers
<1>2. PICK N \in Nat : N = Len(log)
  BY <1>1, LenProperties
<1>3. PICK a \in Nat : a = e.commit
  BY Numbers
<1>4. a <= N
  BY <1>1, <1>2, <1>3 DEF Placed
<1>5. ASSUME s \in g.config
      PROVE  Latest(log, g.config, N, N)
  <2>1. CASE (\A i \in a + 1 .. N : log[i].config = {}) /\ g.config = e.config
    <3>1. Latest(log, e.config, N, a)
      BY <1>1, <1>2, <1>3, <1>5, <2>1 DEF Placed
    <3> QED
      BY <2>1, <3>1, LatestOn
  <2>2. CASE \E j \in a + 1 .. N :
                /\ log[j].config # {} /\ \A i \in j + 1 .. N : log[i].config = {}
                /\ g.config = log[j].config
    <3>1. \A j \in a + 1 .. N : j \in 1 .. N
      OBVIOUS
    <3> QED
      BY <2>2, <3>1 DEF Latest
  <2> QED
    BY <1>1, <1>2, <1>3, <2>1, <2>2 DEF Reuses
<1>6. s \in g.saved => Latest(log, g.saved, a, a)
  BY <1>1, <1>3 DEF Placed, Reuses
<1> QED
  BY <1>1, <1>2, <1>3, <1>4, <1>5, <1>6 DEF Placed

\* A leader that appends a configuration with someone in it
LEMMA AddsPlaced ==
    ASSUME NEW s \in Server, NEW e \in ServerState, Placed(s, e),
           NEW f \in ServerState, NEW x \in Entry, f.log = Append(e.log, x),
           f.commit = e.commit, f.leads, f.config = x.config, f.saved = e.saved
    PROVE  Placed(s, f)
<1>1. PICK log \in Seq(Entry) : log = e.log
  BY Numbers
<1>2. PICK N \in Nat : N = Len(log)
  BY <1>1, LenProperties
<1>3. PICK a \in Nat : a = e.commit
  BY Numbers
<1>4. PICK more : more = Append(log, x)
  OBVIOUS
<1>5. /\ Len(more) = N + 1 /\ more[N + 1] = x
      /\ \A i \in 1 .. N : more[i] = log[i]
  BY <1>1, <1>2, <1>4
<1>6. a <= N
  BY <1>1, <1>2, <1>3 DEF Placed
<1>7. ASSUME s \in x.config
      PROVE  Latest(more, x.config, N + 1, N + 1)
  <2>1. N + 1 \in 1 .. N + 1 /\ (N + 1) + 1 .. N + 1 = {} /\ x.config # {}
    BY <1>7
  <2> QED
    BY <1>5, <2>1 DEF Latest
<1>8. ASSUME s \in e.saved
      PROVE  Latest(more, e.saved, a, a)
  <2>1. PICK i \in 1 .. a : /\ log[i].config # {} /\ log[i].config = e.saved
                            /\ \A j \in i + 1 .. a : log[j].config = {}
    BY <1>1, <1>3, <1>8 DEF Placed, Latest
  <2>2. i \in 1 .. N /\ \A j \in i + 1 .. a : j \in 1 .. N
    BY <1>6
  <2>3. more[i] = log[i] /\ \A j \in i + 1 .. a : more[j] = log[j]
    BY <1>5, <2>2
  <2> QED
    BY <2>1, <2>3 DEF Latest
<1>9. f.log = more /\ Len(f.log) = N + 1 /\ f.commit = a /\ a <= N + 1
  BY <1>1, <1>3, <1>4, <1>5, <1>6
<1> QED
  BY <1>7, <1>8, <1>9 DEF Placed

\* What a log has to keep of another
Keeps(e, log) ==
    \A i \in 1 .. Len(e.log) :
        (i <= e.commit \/ e.log[i].config = e.config)
        => i <= Len(log) /\ log[i].config = e.log[i].config

LEMMA CopiesPlaced ==
    ASSUME NEW s \in Server, NEW e \in ServerState, Placed(s, e),
           NEW d \in ServerState, Keeps(e, d.log), d.commit = e.commit, d.config = e.config,
           d.saved = e.saved, ~d.leads
    PROVE  Placed(s, d)
<1>1. PICK log \in Seq(Entry) : log = e.log
  BY Numbers
<1>2. PICK N \in Nat : N = Len(log)
  BY <1>1, LenProperties
<1>3. PICK a \in Nat : a = e.commit
  BY Numbers
<1>4. PICK new \in Seq(Entry) : new = d.log
  BY Numbers
<1>5. PICK M \in Nat : M = Len(new)
  BY <1>4, LenProperties
<1>6. a <= N
  BY <1>1, <1>2, <1>3 DEF Placed
<1>7. \A i \in 1 .. N : (i <= a \/ log[i].config = e.config)
                        => i <= M /\ new[i].config = log[i].config
  BY <1>1, <1>2, <1>3, <1>4, <1>5 DEF Keeps
<1>8. \A i \in 1 .. a : i \in 1 .. N /\ i <= M /\ new[i].config = log[i].config
  BY <1>6, <1>7
<1>9. a <= M
  <2>1. CASE a = 0
    BY <2>1
  <2>2. CASE a # 0
    <3>1. a \in 1 .. a
      BY <2>2
    <3> QED
      BY <1>8, <3>1
  <2> QED
    BY <2>1, <2>2
<1>10. ASSUME s \in e.config
       PROVE  Latest(new, e.config, M, a)
  <2>1. Latest(log, e.config, N, a)
    <3>1. CASE e.leads
      <4>1. Latest(log, e.config, N, N)
        BY <1>1, <1>2, <1>10, <3>1 DEF Placed
      <4>2. \A i \in N + 1 .. a : log[i].config = {}
        BY <1>6
      <4> QED
        BY <4>1, <4>2, LatestOn
    <3>2. CASE ~e.leads
      BY <1>1, <1>2, <1>3, <1>10, <3>2 DEF Placed
    <3> QED
      BY <3>1, <3>2
  <2>2. PICK i \in 1 .. N : /\ log[i].config # {} /\ log[i].config = e.config
                            /\ \A j \in i + 1 .. a : log[j].config = {}
    BY <2>1 DEF Latest
  <2>3. i <= M /\ new[i].config = log[i].config
    BY <1>7, <2>2
  <2>4. i \in 1 .. M /\ \A j \in i + 1 .. a : j \in 1 .. a
    BY <2>3
  <2> QED
    BY <1>8, <2>2, <2>3, <2>4 DEF Latest
<1>11. ASSUME s \in e.saved
       PROVE  Latest(new, e.saved, a, a)
  <2>1. PICK i \in 1 .. a : /\ log[i].config # {} /\ log[i].config = e.saved
                            /\ \A j \in i + 1 .. a : log[j].config = {}
    BY <1>1, <1>3, <1>11 DEF Placed, Latest
  <2>2. \A j \in i + 1 .. a : j \in 1 .. a
    OBVIOUS
  <2> QED
    BY <1>8, <2>1, <2>2 DEF Latest
<1> QED
  BY <1>3, <1>4, <1>5, <1>9, <1>10, <1>11 DEF Placed

LEMMA MovesPlaced ==
    ASSUME NEW s \in Server, NEW e \in ServerState, NEW r \in ServerState, Moves(s, e, r),
           OneChange(e), Placed(s, e), ~e.leads /\ r.leads => OnePendingOf(e),
           r.leads => s \in r.config, Keeps(e, r.log)
    PROVE  Placed(s, r)
<1>1. e.commit \in Nat /\ Len(e.log) \in Nat /\ e.commit <= Len(e.log)
  BY Numbers DEF Placed
\* Who leads no longer looks at less of its log.
<1>2. ASSUME s \in e.config
      PROVE  Latest(e.log, e.config, Len(e.log), e.commit)
  <2>1. CASE e.leads
    <3>1. Latest(e.log, e.config, Len(e.log), Len(e.log))
      BY <1>2, <2>1 DEF Placed
    <3>2. \A i \in Len(e.log) + 1 .. e.commit : e.log[i].config = {}
      BY <1>1
    <3> QED
      BY <1>1, <3>1, <3>2, LatestOn
  <2>2. CASE ~e.leads
    BY <1>2, <2>2 DEF Placed
  <2> QED
    BY <2>1, <2>2
<1>3. CASE Stays(e, r)
  <2>1. /\ r.log = e.log /\ r.commit = e.commit /\ r.config = e.config /\ r.saved = e.saved
        /\ r.leads => e.leads
    BY <1>3 DEF Stays
  <2> QED
    BY <1>2, <2>1 DEF Placed
<1>4. CASE Commits(e, r)
  BY <1>4, CommitsPlaced
<1>5. CASE Copies(e, r)
  <2>1. PICK d \in ServerState : /\ d.commit = e.commit /\ d.config = e.config
                                 /\ d.saved = e.saved /\ Commits(d, r)
    BY <1>5 DEF Copies
  <2>2. ~d.leads /\ d.log = r.log
    BY <1>5, <2>1 DEF Copies, Commits
  <2>3. Keeps(e, d.log)
    BY <2>2
  <2>4. Placed(s, d) /\ OneChange(d)
    BY <2>1, <2>2, <2>3, CopiesPlaced DEF OneChange
  <2> QED
    BY <2>1, <2>4, CommitsPlaced
<1>6. CASE Rises(e, r)
  <2>1. PICK g \in ServerState : /\ g.log = e.log /\ g.commit = e.commit /\ g.leads
                                 /\ Reuses(e, g, Len(e.log)) /\ Commits(g, r)
    BY <1>6 DEF Rises
  <2>2. Placed(s, g)
    BY <1>6, <2>1, ReusesPlaced DEF Rises
  <2>3. OneChange(g)
    <3>1. r.leads
      BY <2>1 DEF Commits
    <3>2. OnePendingOf(e)
      BY <1>6, <3>1 DEF Rises
    <3> QED
      BY <2>1, <3>2, ReusesOne
  <2> QED
    BY <2>1, <2>2, <2>3, CommitsPlaced
<1>7. CASE Adds(e, r)
  <2>1. PICK f \in ServerState, x \in Entry :
            /\ f.log = Append(e.log, x) /\ f.commit = e.commit /\ f.leads /\ f.changing
            /\ f.config = x.config /\ f.saved = e.saved /\ Commits(f, r)
    BY <1>7 DEF Adds
  <2>2. Placed(s, f)
    BY <2>1, AddsPlaced
  <2>3. OneChange(f)
    BY <1>7, <2>1, AddsOne DEF Adds
  <2> QED
    BY <2>1, <2>2, <2>3, CommitsPlaced
<1>8. CASE Leaves(s, e, r)
  <2>1. r.log = e.log /\ r.commit = e.commit /\ s \notin r.config /\ s \notin r.saved
    BY <1>8 DEF Leaves
  <2> QED
    BY <1>1, <2>1 DEF Placed
<1>9. CASE Restarts(e, r)
  <2>1. /\ r.log = e.log /\ r.commit = e.commit /\ ~r.leads
        /\ r.config = e.saved /\ r.saved = e.saved
    BY <1>9 DEF Restarts
  <2>2. ASSUME s \in e.saved
        PROVE  /\ Latest(e.log, e.saved, e.commit, e.commit)
               /\ Latest(e.log, e.saved, Len(e.log), e.commit)
    <3>1. Latest(e.log, e.saved, e.commit, e.commit)
      BY <2>2 DEF Placed
    <3>2. \A i \in e.commit + 1 .. e.commit : e.log[i].config = {}
      BY <1>1
    <3> QED
      BY <1>1, <3>1, <3>2, LatestOn
  <2> QED
    BY <1>1, <2>1, <2>2 DEF Placed
<1> QED
  BY <1>3, <1>4, <1>5, <1>6, <1>7, <1>8, <1>9 DEF Moves

UsesInv ==
    /\ ChangesInv
    /\ \A s \in Server : Placed(s, srv[s]) /\ (srv[s].leads => s \in srv[s].config)

LEMMA InitUses ==
    ASSUME Init
    PROVE  UsesInv
<1>1. ChangesInv /\ TypeInv
  BY InitChanges, InitTypes
<1>2. ASSUME NEW s \in Server
      PROVE  Placed(s, srv[s]) /\ (srv[s].leads => s \in srv[s].config)
  <2>1. Starts(s)
    BY InitStarts
  <2>2. PICK e \in ServerState : e = srv[s]
    BY <1>1, ServerIs
  <2>3. Len(e.log) \in Nat /\ e.commit \in Nat
    BY Numbers
  <2>4. CASE s \in First
    <3>1. /\ Len(e.log) = e.commit /\ e.commit \in {1, 2} /\ e.config = First /\ e.saved = First
          /\ e.log[1].config = First /\ \A i \in 2 .. e.commit : e.log[i].config = {}
      BY <2>1, <2>2, <2>4 DEF Starts
    <3>2. 1 \in 1 .. e.commit /\ 1 + 1 = 2 /\ First # {}
      BY <2>4, <3>1
    <3>3. Latest(e.log, First, e.commit, e.commit)
      BY <3>1, <3>2 DEF Latest
    <3> QED
      BY <2>2, <2>3, <2>4, <3>1, <3>3 DEF Placed
  <2>5. CASE s \notin First
    <3>1. e.commit = 0 /\ e.config = First /\ e.saved = First /\ ~e.leads
      BY <2>1, <2>2, <2>5 DEF Starts
    <3> QED
      BY <2>2, <2>3, <2>5, <3>1 DEF Placed
  <2> QED
    BY <2>4, <2>5
<1> QED
  BY <1>1, <1>2 DEF UsesInv

LEMMA UsesKept ==
    ASSUME UsesInv, [Next]_vars, OnePending, LeadersBelong, CommittedKept, UsedKept
    PROVE  UsesInv'
<1>1. TypeInv /\ ChangesInv /\ ServersMove
  BY StepsFit DEF UsesInv, ChangesInv, StepFits
<1>2. ChangesInv'
  BY <1>1, ChangesKept
<1>3. ASSUME NEW s \in Server
      PROVE  Placed(s, srv'[s])
  <2>1. PICK e \in ServerState : e = srv[s]
    BY <1>1, ServerIs
  <2>2. PICK r \in ServerState : r = srv'[s]
    BY <1>1 DEF ServersMove
  <2>3. Moves(s, e, r) /\ OneChange(e) /\ Placed(s, e)
    BY <1>1, <2>1, <2>2 DEF ServersMove, ChangesInv, UsesInv
  <2>4. ~e.leads /\ r.leads => OnePendingOf(e)
    BY <2>1, <2>2 DEF OnePending, Elected, OnePendingOf
  <2>5. r.leads => s \in r.config
    BY <2>2 DEF LeadersBelong
  <2>6. Keeps(e, r.log)
    <3>1. DOMAIN e.log = 1 .. Len(e.log)
      BY Numbers, LenProperties
    <3> QED
      BY <2>1, <2>2, <3>1 DEF CommittedKept, UsedKept, Keeps
  <2>7. Placed(s, r)
    BY <2>3, <2>4, <2>5, <2>6, MovesPlaced
  <2> QED
    BY <2>2, <2>7
<1>4. \A s \in Server : srv'[s].leads => s \in srv'[s].config
  BY DEF LeadersBelong
<1>5. \A s \in Server : Placed(s, srv[s])'
  BY <1>3 DEF Placed, Latest
<1> QED
  BY <1>2, <1>4, <1>5 DEF UsesInv

\* The last configuration of a log
LEMMA NewestIs ==
    ASSUME NEW log \in Seq(Entry), NEW c, Latest(log, c, Len(log), Len(log))
    PROVE  c = Newest(log)
<1>1. PICK N \in Nat : N = Len(log) /\ DOMAIN log = 1 .. N
  BY LenProperties
<1>2. PICK i \in 1 .. N : /\ log[i].config # {} /\ log[i].config = c
                          /\ \A j \in i + 1 .. N : log[j].config = {}
  BY <1>1 DEF Latest
<1>3. PICK S : S = Configured(log)
  OBVIOUS
<1>4. S \in SUBSET (0 .. N) /\ i \in S /\ \A j \in S : j \in 1 .. N /\ log[j].config # {}
  BY <1>1, <1>2, <1>3 DEF Configured
<1>5. Max(S) \in S /\ \A j \in S : Max(S) >= j
  BY <1>4, MaxIsReached
<1>6. \A j \in S : j <= i
  BY <1>2, <1>4
<1>7. PICK m : m = Max(S)
  OBVIOUS
<1>8. m \in 1 .. N /\ m <= i /\ m >= i
  BY <1>4, <1>5, <1>6, <1>7
<1>9. m = i
  BY <1>8
<1> QED
  BY <1>2, <1>3, <1>7, <1>9 DEF Newest

(***************************************************************************)
(* A leader works with the newest configuration of its log: one that it    *)
(* adds it uses at once, and one that it finds pending when it is elected  *)
(* it uses again (on_leader).                                              *)
(***************************************************************************)
THEOREM NewestInUse ==
    Spec /\ [][OnePending /\ LeadersBelong /\ CommittedKept /\ UsedKept]_vars => []LeaderUsesNewest
<1>1. UsesInv => LeaderUsesNewest
  <2> SUFFICES ASSUME UsesInv, NEW s \in Server, srv[s].leads
               PROVE  srv[s].config = Newest(srv[s].log)
    BY DEF LeaderUsesNewest
  <2>1. PICK e \in ServerState : e = srv[s]
    BY ServerIs DEF UsesInv, ChangesInv
  <2>2. Latest(e.log, e.config, Len(e.log), Len(e.log)) /\ e.log \in Seq(Entry)
    BY <2>1, Numbers DEF UsesInv, Placed
  <2> QED
    BY <2>1, <2>2, NewestIs
<1>2. UsesInv /\ UNCHANGED vars => UsesInv'
  <2> SUFFICES ASSUME UsesInv, UNCHANGED vars
               PROVE  UsesInv'
    OBVIOUS
  <2>1. ChangesInv'
    BY NextTypes DEF UsesInv, ChangesInv, vars, OneChange, OnePendingOf, Pending
  <2> QED
    BY <2>1 DEF UsesInv, vars, Placed, Latest
<1>3. UsesInv /\ [Next]_vars
      /\ [OnePending /\ LeadersBelong /\ CommittedKept /\ UsedKept]_vars => UsesInv'
  BY <1>2, UsesKept
<1> QED
  BY <1>1, <1>3, InitUses, PTL DEF Spec

=============================================================================
