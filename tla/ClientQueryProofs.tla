-------------------------- MODULE ClientQueryProofs --------------------------
(* Proofs about ClientQuery: the flow of queries, the types of its state, and  *)
(* what a query sees, for any number of servers, queries and messages.         *)
EXTENDS ClientQuery, FiniteSetTheorems, SequenceTheorems, WellFoundedInduction, TLAPS

USE ClientQueryAssumption

(***************************************************************************)
(* The queries that the client keeps: pending_queries and sent_queries.    *)
(***************************************************************************)
Kept(c) == Queries(c, "pending") \cup Queries(c, "sent") \cup Queries(c, "due")

(***************************************************************************)
(* FlowFollowsQueue, for a state c of the client.                          *)
(***************************************************************************)
FlowOK(c) ==
    /\ c.locked => QueueLen(c) > UnlockCapacity
    /\ ~c.locked => QueueLen(c) < LockCapacity

\* The inductive invariant: the client's type alone, as nothing else decides on the flow.
IInv == client \in Client /\ FlowOK(client)

-----------------------------------------------------------------------------
(* What the helpers return. *)

LEMMA KeptFinite ==
    ASSUME NEW c
    PROVE  IsFiniteSet(Kept(c)) /\ QueueLen(c) = Cardinality(Kept(c)) /\ QueueLen(c) \in Nat
<1>1. IsFiniteSet(Query)
  BY FS_Interval DEF Query
<1>2. Kept(c) \subseteq Query
  BY DEF Kept, Queries
<1>3. QueueLen(c) = Cardinality(Kept(c))
  BY DEF QueueLen, Kept
<1> QED BY <1>1, <1>2, <1>3, FS_Subset, FS_CardinalityType

\* Which queries are kept is seen from their states.
LEMMA KeptIs ==
    ASSUME NEW c
    PROVE  Kept(c) = {q \in Query : c.query[q].state \in {"pending", "sent", "due"}}
BY DEF Kept, Queries

\* The flow depends on the queries kept and on the lock, no more.
LEMMA SameFlow ==
    ASSUME NEW c, NEW d, Kept(d) = Kept(c), d.locked = c.locked, FlowOK(c)
    PROVE  FlowOK(d)
BY KeptFinite DEF FlowOK

LEMMA SetStateIs ==
    ASSUME NEW c \in Client, NEW Q, NEW state \in {"none", "pending", "sent", "due", "answered"}
    PROVE  LET d == SetState(c, Q, state)
           IN  /\ d \in Client /\ d.locked = c.locked
               /\ d.server = c.server
               /\ \A q \in Query : /\ d.query[q].state = IF q \in Q THEN state ELSE c.query[q].state
                                   /\ d.query[q].after = c.query[q].after
<1> DEFINE f == [q \in Query |-> IF q \in Q THEN [c.query[q] EXCEPT !.state = state]
                                           ELSE c.query[q]]
           d == SetState(c, Q, state)
<1>1. c.query \in [Query -> QueryInfo]
  BY DEF Client
<1>2. ASSUME NEW q \in Query
      PROVE  /\ f[q] \in QueryInfo /\ f[q].after = c.query[q].after
             /\ f[q].state = IF q \in Q THEN state ELSE c.query[q].state
  BY <1>1 DEF QueryInfo
<1>3. f \in [Query -> QueryInfo]
  BY <1>2
<1>4. d = [c EXCEPT !.query = f]
  BY DEF SetState
<1> HIDE DEF f, d
<1>5. d \in Client /\ d.locked = c.locked /\ d.server = c.server /\ d.query = f
  BY <1>3, <1>4 DEF Client
<1> QED BY <1>2, <1>5 DEF d

\* What was sent and becomes due, or was due or pending and is sent, is still kept.
LEMMA StillKept ==
    ASSUME NEW c \in Client, NEW Q, Q \cap Query \subseteq Kept(c), NEW state \in {"sent", "due"}
    PROVE  /\ SetState(c, Q, state) \in Client
           /\ Kept(SetState(c, Q, state)) = Kept(c)
           /\ SetState(c, Q, state).locked = c.locked
<1>1. \A q \in Query : SetState(c, Q, state).query[q].state
                          = IF q \in Q THEN state ELSE c.query[q].state
  BY SetStateIs
<1>2. Kept(SetState(c, Q, state)) = Kept(c)
  BY <1>1, KeptIs
<1> QED BY <1>2, SetStateIs

\* check_flow sets the lock right if at most one query came or went.
LEMMA CheckFlowOK ==
    ASSUME NEW c \in Client,
           c.locked => QueueLen(c) >= UnlockCapacity,
           ~c.locked => QueueLen(c) <= LockCapacity
    PROVE  CheckFlow(c) \in Client /\ FlowOK(CheckFlow(c))
<1> DEFINE d == CheckFlow(c)
           n == QueueLen(c)
<1>1. n \in Nat /\ LockCapacity \in Nat /\ UnlockCapacity \in Nat /\ UnlockCapacity < LockCapacity
  BY KeptFinite
<1> DEFINE b == IF c.locked THEN n > UnlockCapacity ELSE n >= LockCapacity
<1>2. b \in BOOLEAN /\ d = [c EXCEPT !.locked = b]
  <2>1. d = [c EXCEPT !.locked = b]
    BY DEF CheckFlow
  <2>2. (n > UnlockCapacity) \in BOOLEAN /\ (n >= LockCapacity) \in BOOLEAN
    <3> HIDE DEF n
    <3> QED BY <1>1
  <2>3. b \in BOOLEAN
    BY <2>2, Zenon
  <2> QED BY <2>1, <2>3
<1>3. /\ b => n > UnlockCapacity
      /\ ~b => n < LockCapacity
  <2>1. CASE c.locked
    <3> HIDE DEF n
    <3> QED BY <1>1, <2>1
  <2>2. CASE ~c.locked
    <3> HIDE DEF n
    <3> QED BY <1>1, <2>2
  <2> QED BY <2>1, <2>2
<1> HIDE DEF b, d
<1>4. d \in Client /\ d.query = c.query /\ d.locked = b
  BY <1>2 DEF Client
<1>5. QueueLen(d) = n
  BY <1>4, KeptFinite, KeptIs
<1>6. FlowOK(d)
  <2>1. FlowOK(d) <=> (b => QueueLen(d) > UnlockCapacity) /\ (~b => QueueLen(d) < LockCapacity)
    BY <1>4 DEF FlowOK
  <2> QED BY <1>3, <1>5, <2>1
<1> QED BY <1>4, <1>6 DEF d

\* The connection is lost: what was sent becomes due.
LEMMA DisconnectedOK ==
    ASSUME NEW c \in Client, FlowOK(c)
    PROVE  Disconnected(c) \in Client /\ FlowOK(Disconnected(c))
<1>1. CASE c.server = NoServer
  BY <1>1 DEF Disconnected
<1>2. CASE c.server # NoServer
  <2> DEFINE e == SetState(c, Queries(c, "sent"), "due")
             d == [e EXCEPT !.server = NoServer, !.resubscribe = TRUE]
  <2>1. e \in Client /\ Kept(e) = Kept(c) /\ e.locked = c.locked
    <3>1. Queries(c, "sent") \cap Query \subseteq Kept(c)
      BY DEF Kept
    <3> QED BY <3>1, StillKept
  <2>2. Disconnected(c) = d
    BY <1>2 DEF Disconnected
  <2> HIDE DEF e
  <2>3. d \in Client /\ d.query = e.query /\ d.locked = e.locked
    BY <2>1 DEF Client
  <2> HIDE DEF d
  <2>4. Kept(d) = Kept(c)
    BY <2>1, <2>3, KeptIs
  <2> QED BY <2>1, <2>2, <2>3, <2>4, SameFlow
<1> QED BY <1>1, <1>2

-----------------------------------------------------------------------------
(* The steps of the client, one by one. *)

LEMMA AskOK ==
    ASSUME IInv, NEW q \in Query, Ask(q)
    PROVE  IInv'
<1> DEFINE c == [client EXCEPT !.query[q] = NewQuery]
<1>1. client.query[q].state = "none" /\ ~client.locked /\ client' = CheckFlow(c)
  <2>1. q \in {r \in 1 .. q : client.query[r].state = "none"}
    BY DEF Ask
  <2> QED BY <2>1 DEF Ask
<1>2. c \in Client /\ c.locked = client.locked
      /\ \A r \in Query : c.query[r].state = IF r = q THEN "pending" ELSE client.query[r].state
  BY DEF IInv, Client, NewQuery, QueryInfo
<1> HIDE DEF c
<1>3. Kept(c) = Kept(client) \cup {q} /\ q \notin Kept(client)
  BY <1>1, <1>2, KeptIs
<1>4. QueueLen(c) = QueueLen(client) + 1
  BY <1>3, KeptFinite, FS_AddElement
<1>5. ~c.locked /\ QueueLen(c) <= LockCapacity
  <2>1. QueueLen(client) < LockCapacity /\ QueueLen(client) \in Nat
    BY <1>1, KeptFinite DEF IInv, FlowOK
  <2> QED BY <1>1, <1>2, <1>4, <2>1
<1> QED BY <1>1, <1>2, <1>5, CheckFlowOK DEF IInv

LEMMA HandleAnswerOK ==
    ASSUME IInv, NEW m \in net, HandleAnswer(m)
    PROVE  IInv'
<1> DEFINE c == SetState(client, {m.id}, "answered")
<1>1. client \in Client /\ FlowOK(client)
  BY DEF IInv
<1>2. CASE client.query[m.id].state \in {"sent", "due"}
  <2>1. client' = CheckFlow(c)
    BY <1>2 DEF HandleAnswer
  <2>2. /\ c \in Client /\ c.locked = client.locked
        /\ \A q \in Query : c.query[q].state = IF q = m.id THEN "answered"
                                                           ELSE client.query[q].state
    BY <1>1, SetStateIs
  <2> HIDE DEF c
  <2>3. Kept(c) = Kept(client) \ {m.id}
    BY <2>2, KeptIs
  <2>4. QueueLen(client) - 1 <= QueueLen(c) /\ QueueLen(c) <= QueueLen(client)
    <3>1. CASE m.id \in Kept(client)
      <4>1. QueueLen(c) = QueueLen(client) - 1
        BY <2>3, <3>1, KeptFinite, FS_RemoveElement
      <4> QED BY <4>1, KeptFinite
    <3>2. CASE m.id \notin Kept(client)
      <4>1. QueueLen(c) = QueueLen(client)
        BY <2>3, <3>2, KeptFinite
      <4> QED BY <4>1, KeptFinite
    <3> QED BY <3>1, <3>2
  <2>5. /\ c.locked => QueueLen(c) >= UnlockCapacity
        /\ ~c.locked => QueueLen(c) <= LockCapacity
    <3>1. QueueLen(c) \in Nat /\ QueueLen(client) \in Nat /\ UnlockCapacity \in Nat
          /\ LockCapacity \in Nat
      BY KeptFinite
    <3> QED BY <1>1, <2>2, <2>4, <3>1 DEF FlowOK
  <2> QED BY <2>1, <2>2, <2>5, CheckFlowOK DEF IInv
<1>3. CASE client.query[m.id].state \notin {"sent", "due"}
  BY <1>1, <1>3 DEF HandleAnswer, IInv
<1> QED BY <1>2, <1>3

\* A request takes only what is kept.
LEMMA ProcessOK ==
    ASSUME IInv, Process
    PROVE  IInv'
<1> DEFINE batch == PendingBatch(client) \cup DueBatch(client)
           c == SetState(client, batch, "sent")
<1>1. batch \cap Query \subseteq Kept(client)
  BY DEF PendingBatch, DueBatch, FirstOf, Kept
<1>2. client' = c
  BY DEF Process
<1> HIDE DEF batch
<1>3. c \in Client /\ Kept(c) = Kept(client) /\ c.locked = client.locked
  BY <1>1, StillKept DEF IInv
<1> HIDE DEF c
<1> QED BY <1>2, <1>3, SameFlow DEF IInv

LEMMA ResendTimeoutOK ==
    ASSUME IInv, NEW q \in Query, ResendTimeout(q)
    PROVE  IInv'
<1> DEFINE c == SetState(client, {q}, "due")
<1>1. client' = c /\ {q} \cap Query \subseteq Kept(client)
  BY KeptIs DEF ResendTimeout
<1>2. c \in Client /\ Kept(c) = Kept(client) /\ c.locked = client.locked
  BY <1>1, StillKept DEF IInv
<1> HIDE DEF c
<1> QED BY <1>1, <1>2, SameFlow DEF IInv

\* The steps of the client that leave its queries and the lock alone
LEMMA QueriesAlone ==
    ASSUME IInv, client' \in Client, client'.query = client.query,
           client'.locked = client.locked
    PROVE  IInv'
<1>1. Kept(client') = Kept(client)
  BY KeptIs
<1> QED BY <1>1, SameFlow DEF IInv

LEMMA ConnectionOK ==
    ASSUME IInv, \/ \E s \in Server : Connect(s)
                 \/ Resubscribe \/ ConnectLeader \/ Publish
                 \/ \E x \in Subscription : ChangeSubscription(x)
    PROVE  IInv'
<1>1. client \in Client
  BY DEF IInv
<1>2. CASE \E s \in Server : Connect(s)
  BY <1>1, <1>2, QueriesAlone DEF Connect, Client
<1>3. CASE Resubscribe
  BY <1>1, <1>3, QueriesAlone DEF Resubscribe, Client
<1>4. CASE ConnectLeader
  BY <1>1, <1>4, QueriesAlone DEF ConnectLeader, Client
<1>5. CASE Publish
  BY <1>1, <1>5, QueriesAlone DEF Publish, Client, Message
<1>6. CASE \E x \in Subscription : ChangeSubscription(x)
  <2>1. PICK x \in Subscription : ChangeSubscription(x)
    BY <1>6
  <2> DEFINE subs == IF x \in client.subs THEN client.subs \ {x} ELSE client.subs \cup {x}
  <2>2. subs \in SUBSET Subscription
    BY <1>1 DEF Client
  <2>3. client' = [client EXCEPT !.resubscribe = TRUE, !.subs = subs]
    BY <2>1 DEF ChangeSubscription
  <2> HIDE DEF subs
  <2> QED BY <1>1, <2>2, <2>3, QueriesAlone DEF Client
<1> QED BY <1>2, <1>3, <1>4, <1>5, <1>6

LEMMA LossOK ==
    ASSUME IInv, LoseServer \/ LoseLeader
    PROVE  IInv'
<1> DEFINE d == Disconnected(client)
<1>1. d \in Client /\ FlowOK(d)
  BY DisconnectedOK DEF IInv
<1>2. CASE LoseServer
  BY <1>1, <1>2 DEF LoseServer, IInv
<1>3. CASE LoseLeader
  <2>1. client' = [d EXCEPT !.leader = FALSE]
    BY <1>3 DEF LoseLeader
  <2> HIDE DEF d
  <2>2. client' \in Client /\ client'.query = d.query /\ client'.locked = d.locked
    BY <1>1, <2>1 DEF Client
  <2>3. Kept(client') = Kept(d)
    BY <2>2, KeptIs
  <2> QED BY <1>1, <2>2, <2>3, SameFlow DEF IInv
<1> QED BY <1>2, <1>3

\* The steps of the servers do not touch the client.
LEMMA ServerStepsOK ==
    ASSUME IInv, \/ \E s \in Server : \/ Apply(s) \/ StepDown(s) \/ SessionEnds(s)
                                      \/ SubscriptionTimesOut(s)
                                      \/ \E voter \in Server : LearnCommitted(s, voter)
                 \/ \E m \in net : HandleQuery(m) \/ HandleSubscribe(m)
                 \/ UNCHANGED vars
    PROVE  IInv'
<1>1. client' = client
  BY DEF Apply, StepDown, SessionEnds, SubscriptionTimesOut, LearnCommitted, HandleQuery,
         HandleSubscribe, vars
<1> QED BY <1>1 DEF IInv

LEMMA InitFlow == Init => IInv
<1> SUFFICES ASSUME Init PROVE IInv
  OBVIOUS
<1>1. client \in Client /\ ~client.locked
  BY DEF Init, Client, QueryInfo, Message
<1>2. \A q \in Query : client.query[q].state = "none"
  BY DEF Init
<1>3. Kept(client) = {}
  BY <1>2, KeptIs
<1>4. QueueLen(client) = 0
  BY <1>3, KeptFinite, FS_EmptySet
<1> QED BY <1>1, <1>4 DEF IInv, FlowOK

LEMMA NextFlow ==
    ASSUME IInv, [Next]_vars
    PROVE  IInv'
BY AskOK, HandleAnswerOK, ProcessOK, ResendTimeoutOK, ConnectionOK, LossOK, ServerStepsOK DEF Next

(***************************************************************************)
(* Queries are held back exactly while there are too many, for any batch   *)
(* size and capacities: however answers, repeated requests and lost        *)
(* connections interleave, no query is counted twice or left out, and the  *)
(* lock is never left behind (check_flow).                                 *)
(***************************************************************************)
THEOREM FlowIsRight == Spec => []FlowFollowsQueue
<1>1. IInv => FlowFollowsQueue
  BY DEF IInv, FlowOK, FlowFollowsQueue
<1> QED BY <1>1, InitFlow, NextFlow, PTL DEF Spec

-----------------------------------------------------------------------------
(* Types, and what the sequences of queries hold. *)

\* A set of naturals has a least element.
LEMMA MinIsReached ==
    ASSUME NEW S \in SUBSET Nat, S # {}
    PROVE  Min(S) \in S /\ \A y \in S : Min(S) <= y
<1>1. PICK x \in S : \A y \in S : ~(<<y, x>> \in OpToRel(<, Nat))
  BY NatLessThanWellFounded, WFMin, Zenon
<1>2. \A y \in S : x <= y
  <2> TAKE y \in S
  <2>1. ~(y < x)
    <3>1. y < x => <<y, x>> \in {ss \in Nat \X Nat : ss[1] < ss[2]}
      OBVIOUS
    <3>2. OpToRel(<, Nat) = {ss \in Nat \X Nat : ss[1] < ss[2]}
      BY Zenon DEF OpToRel
    <3> QED BY <1>1, <3>1, <3>2
  <2> QED BY <2>1
<1> QED BY <1>1, <1>2 DEF Min

\* The members of a finite set of naturals have the ranks 1 to the size of the set.
LEMMA RankIsReached ==
    ASSUME NEW Q \in SUBSET Nat, IsFiniteSet(Q), NEW i \in 1 .. Cardinality(Q)
    PROVE  \E q \in Q : Cardinality({r \in Q : r <= q}) = i
<1> DEFINE Below(q) == {r \in Q : r <= q}
           n == Cardinality(Q)
           f == [q \in Q |-> Cardinality(Below(q))]
<1>1. n \in Nat /\ IsFiniteSet(1 .. n) /\ Cardinality(1 .. n) = n
  <2>1. n \in Nat
    BY FS_CardinalityType
  <2>2. 1 \in Int /\ n \in Int
    BY <2>1
  <2> HIDE DEF n
  <2>3. IsFiniteSet(1 .. n) /\ Cardinality(1 .. n) = IF 1 > n THEN 0 ELSE n - 1 + 1
    BY <2>2, FS_Interval, Zenon
  <2> QED BY <2>1, <2>3
<1>2. ASSUME NEW q \in Q
      PROVE  /\ IsFiniteSet(Below(q)) /\ Cardinality(Below(q)) \in Nat
             /\ Cardinality(Below(q)) \in 1 .. n
  <2>1. Below(q) \in SUBSET Q /\ q \in Below(q)
    OBVIOUS
  <2>2. IsFiniteSet(Below(q)) /\ Cardinality(Below(q)) <= n
    BY <2>1, FS_Subset
  <2>3. Cardinality(Below(q)) \in Nat /\ Cardinality(Below(q)) # 0
    BY <2>1, <2>2, FS_CardinalityType, FS_EmptySet
  <2> HIDE DEF Below, n
  <2> QED BY <1>1, <2>2, <2>3
<1>3. ASSUME NEW p \in Q, NEW q \in Q, p < q
      PROVE  f[p] # f[q]
  <2>1. Below(p) \in SUBSET Below(q) /\ Below(p) # Below(q)
    <3>1. q \in Below(q) /\ q \notin Below(p)
      BY <1>3
    <3>2. ASSUME NEW r \in Q, r <= p
          PROVE  r <= q
      <4>1. r \in Nat /\ p \in Nat /\ q \in Nat
        OBVIOUS
      <4> QED BY <1>3, <3>2, <4>1
    <3> QED BY <3>1, <3>2
  <2>2. Cardinality(Below(q)) # Cardinality(Below(p))
    BY <1>2, <2>1, FS_Subset
  <2> QED BY <2>2
<1>4. f \in Injection(Q, 1 .. n)
  <2>1. f \in [Q -> 1 .. n]
    BY <1>2
  <2>2. \A p, q \in Q : f[p] = f[q] => p = q
    <3> TAKE p \in Q, q \in Q
    <3>1. p < q \/ q < p \/ p = q
      OBVIOUS
    <3> HIDE DEF f
    <3> QED BY <1>3, <3>1
  <2>3. \A g : g \in [Q -> 1 .. n] /\ (\A p, q \in Q : g[p] = g[q] => p = q)
               => g \in Injection(Q, 1 .. n)
    BY DEF Injection, IsInjective
  <2> HIDE DEF f
  <2> QED BY <2>1, <2>2, <2>3
<1> HIDE DEF f
<1>5. f \in Surjection(Q, 1 .. n)
  BY <1>1, <1>4, FS_Injection
<1>6. PICK q \in Q : f[q] = i
  BY <1>5 DEF Surjection
<1> QED BY <1>6 DEF f

LEMMA InOrderOK ==
    ASSUME NEW Q \in SUBSET Nat, IsFiniteSet(Q)
    PROVE  /\ InOrder(Q) \in Seq(Q) /\ Len(InOrder(Q)) = Cardinality(Q)
           /\ \A i \in 1 .. Cardinality(Q) : InOrder(Q)[i] \in Q
<1> DEFINE Rank(i) == CHOOSE q \in Q : Cardinality({r \in Q : r <= q}) = i
           n == Cardinality(Q)
<1>1. n \in Nat
  BY FS_CardinalityType
<1>2. \A i \in 1 .. n : Rank(i) \in Q
  BY RankIsReached
<1>3. InOrder(Q) = [i \in 1 .. n |-> Rank(i)]
  BY DEF InOrder
<1> HIDE DEF Rank, n
<1>4. InOrder(Q) \in [1 .. n -> Q]
  BY <1>2, <1>3
<1> QED BY <1>1, <1>4 DEF n

LEMMA ThoseOK ==
    ASSUME NEW S, NEW ids \in Seq(S), NEW Q
    PROVE  /\ Those(ids, Q) \in Seq(S)
           /\ \A i \in 1 .. Len(Those(ids, Q)) :
                 Those(ids, Q)[i] \in Q /\ \E j \in 1 .. Len(ids) : Those(ids, Q)[i] = ids[j]
<1> DEFINE D == {i \in DOMAIN ids : ids[i] \in Q}
           at == InOrder(D)
           n == Cardinality(D)
<1>1. Len(ids) \in Nat /\ DOMAIN ids = 1 .. Len(ids) /\ \A i \in 1 .. Len(ids) : ids[i] \in S
  BY LenProperties, ElementOfSeq
<1>2. D \in SUBSET (1 .. Len(ids)) /\ D \in SUBSET Nat /\ IsFiniteSet(D)
  <2>1. D \in SUBSET (1 .. Len(ids)) /\ D \in SUBSET Nat
    BY <1>1
  <2>2. IsFiniteSet(1 .. Len(ids))
    BY <1>1, FS_Interval
  <2> HIDE DEF D
  <2> QED BY <2>1, <2>2, FS_Subset
<1>3. n \in Nat /\ at \in Seq(D) /\ Len(at) = n /\ \A i \in 1 .. n : at[i] \in D
  BY <1>2, InOrderOK, FS_CardinalityType
<1>4. DOMAIN at = 1 .. n
  BY <1>3, LenProperties
<1>5. Those(ids, Q) = [i \in 1 .. n |-> ids[at[i]]]
  BY <1>4 DEF Those
<1>6. \A i \in 1 .. n : ids[at[i]] \in S /\ ids[at[i]] \in Q /\ at[i] \in 1 .. Len(ids)
  BY <1>1, <1>3
<1> HIDE DEF at, n, D
<1>7. Those(ids, Q) \in [1 .. n -> S] /\ \A i \in 1 .. n : Those(ids, Q)[i] = ids[at[i]]
  BY <1>5, <1>6
<1>8. Those(ids, Q) \in Seq(S) /\ Len(Those(ids, Q)) = n
  BY <1>3, <1>7
<1> QED BY <1>6, <1>7, <1>8

\* The elements of a concatenation are those of its parts.
LEMMA ConcatHolds ==
    ASSUME NEW S, NEW a \in Seq(S), NEW b \in Seq(S)
    PROVE  /\ a \o b \in Seq(S)
           /\ \A i \in 1 .. Len(a \o b) : \/ \E j \in 1 .. Len(a) : (a \o b)[i] = a[j]
                                         \/ \E j \in 1 .. Len(b) : (a \o b)[i] = b[j]
<1>1. /\ a \o b \in Seq(S) /\ Len(a \o b) = Len(a) + Len(b)
      /\ \A i \in 1 .. Len(a) + Len(b) :
            (a \o b)[i] = IF i <= Len(a) THEN a[i] ELSE b[i - Len(a)]
      /\ Len(a) \in Nat /\ Len(b) \in Nat
  BY ConcatProperties, LenProperties
<1>2. ASSUME NEW i \in 1 .. Len(a \o b)
      PROVE  \/ \E j \in 1 .. Len(a) : (a \o b)[i] = a[j]
             \/ \E j \in 1 .. Len(b) : (a \o b)[i] = b[j]
  <2>1. i \in 1 .. Len(a) + Len(b)
    BY <1>1
  <2>2. CASE i <= Len(a)
    <3>1. i \in 1 .. Len(a) /\ (a \o b)[i] = a[i]
      BY <1>1, <2>1, <2>2
    <3> QED BY <3>1
  <2>3. CASE ~(i <= Len(a))
    <3>1. i - Len(a) \in 1 .. Len(b) /\ (a \o b)[i] = b[i - Len(a)]
      BY <1>1, <2>1, <2>3
    <3> QED BY <3>1
  <2> QED BY <2>2, <2>3
<1> QED BY <1>1, <1>2

\* What a commit answers, and what goes on waiting.
LEMMA AnswerQueueOK ==
    ASSUME client \in Client, NEW e \in ServerState
    PROVE  LET after == AnswerQueue(e)
           IN  /\ after.server \in ServerState
               /\ after.server.applied = e.applied /\ after.server.committed = e.committed
               /\ \A i \in 1 .. Len(after.server.queue) :
                     \E j \in 1 .. Len(e.queue) : after.server.queue[i] = e.queue[j]
               /\ \A m \in after.answers :
                     /\ m \in Answer /\ m.seen = e.applied
                     /\ client.query[m.id].after <= e.committed
                     /\ \E j \in 1 .. Len(e.queue) : m.id = e.queue[j]
<1> DEFINE waits == {i \in DOMAIN e.queue : client.query[e.queue[i]].after > e.committed}
           n == IF waits = {} THEN Len(e.queue) ELSE Min(waits) - 1
           rest == SubSeq(e.queue, n + 1, Len(e.queue))
           after == AnswerQueue(e)
           len == Len(e.queue)
<1>1. /\ e.queue \in Seq(Query) /\ len \in Nat /\ DOMAIN e.queue = 1 .. len
      /\ \A i \in 1 .. len : e.queue[i] \in Query
      /\ e.applied \in Message /\ e.committed \in Message
  <2>1. e.queue \in Seq(Query) /\ e.applied \in Message /\ e.committed \in Message
    BY DEF ServerState
  <2> QED BY <2>1, LenProperties, ElementOfSeq
<1>2. n \in 0 .. len /\ \A i \in 1 .. n : i \notin waits
  <2>1. waits \in SUBSET (1 .. len) /\ waits \in SUBSET Nat
    BY <1>1
  <2>2. CASE waits = {}
    <3>1. n = len
      BY <2>2
    <3> HIDE DEF n, len, waits
    <3> QED BY <1>1, <2>2, <3>1
  <2>3. CASE waits # {}
    <3>1. Min(waits) \in waits /\ \A y \in waits : Min(waits) <= y
      BY <2>1, <2>3, MinIsReached
    <3>2. n = Min(waits) - 1
      BY <2>3
    <3>3. PICK v : v = Min(waits)
      OBVIOUS
    <3> HIDE DEF waits, n, len
    <3>4. v \in 1 .. len /\ len \in Nat /\ n = v - 1
      BY <1>1, <2>1, <3>1, <3>2, <3>3
    <3>5. n \in 0 .. len /\ \A i \in 1 .. n : ~(v <= i)
      BY <3>4
    <3> QED BY <3>1, <3>3, <3>5
  <2> QED BY <2>2, <2>3
<1>3. /\ after.server = [e EXCEPT !.queue = rest]
      /\ after.answers = {AnswerTo(e, e.queue[i]) : i \in 1 .. n}
  BY DEF AnswerQueue
<1>4. ASSUME NEW i \in 1 .. n
      PROVE  e.queue[i] \in Query /\ client.query[e.queue[i]].after <= e.committed /\ i \in 1 .. len
  <2>1. i \in 1 .. len /\ e.queue[i] \in Query
    BY <1>1, <1>2
  <2>2. ~(client.query[e.queue[i]].after > e.committed)
    BY <1>1, <1>2, <2>1
  <2>3. client.query[e.queue[i]].after \in Nat /\ e.committed \in Nat
    BY <1>1, <2>1, SMTT(30) DEF Client, QueryInfo, Message
  <2> QED BY <2>1, <2>2, <2>3
<1> HIDE DEF n, after, waits
<1>5. rest \in Seq(Query) /\ \A i \in 1 .. Len(rest) : \E j \in 1 .. len : rest[i] = e.queue[j]
  <2>1. \A i \in n + 1 .. len : e.queue[i] \in Query
    BY <1>1, <1>2
  <2>2. /\ rest \in Seq(Query) /\ Len(rest) = (IF n + 1 <= len THEN len - (n + 1) + 1 ELSE 0)
        /\ \A i \in 1 .. len - (n + 1) + 1 : rest[i] = e.queue[n + 1 + i - 1]
    BY <1>1, <1>2, <2>1, SubSeqProperties
  <2>3. \A i \in 1 .. Len(rest) : n + 1 + i - 1 \in 1 .. len /\ i \in 1 .. len - (n + 1) + 1
    BY <1>1, <1>2, <2>2
  <2> QED BY <2>2, <2>3
<1> HIDE DEF rest
<1>6. /\ after.server \in ServerState /\ after.server.queue = rest
      /\ after.server.applied = e.applied /\ after.server.committed = e.committed
  BY <1>3, <1>5 DEF ServerState
<1>7. ASSUME NEW m \in after.answers
      PROVE  /\ m \in Answer /\ m.seen = e.applied
             /\ client.query[m.id].after <= e.committed
             /\ \E j \in 1 .. len : m.id = e.queue[j]
  <2>1. PICK i \in 1 .. n : m = AnswerTo(e, e.queue[i])
    BY <1>3
  <2> QED BY <1>1, <1>4, <2>1 DEF AnswerTo, Answer
<1> QED BY <1>5, <1>6, <1>7 DEF after

\* A query that was asked
Asked(q) == client.query[q].state # "none"

\* Only queries that were asked are under way or wait at a server.
OnlyAsked ==
    /\ \A m \in net : m.type = "Query" => \A i \in 1 .. Len(m.ids) : Asked(m.ids[i])
    /\ \A m \in net : m.type = "Answer" => Asked(m.id)
    /\ \A s \in Server : \A i \in 1 .. Len(srv[s].queue) : Asked(srv[s].queue[i])

\* The invariant behind ReadsOwnWrites
ReadInv == TypeOK /\ OnlyAsked /\ ReadsOwnWrites

LEMMA MessageTypes ==
    /\ \A m \in Request \cup Answer :
          /\ m.type \in {"Query", "Subscribe", "Answer"}
          /\ m.type = "Query" => m.to \in Server /\ m.ids \in Seq(Query)
          /\ m.type = "Subscribe" => m.to \in Server /\ m.subs \in SUBSET Subscription
          /\ m.type = "Answer" => m.id \in Query /\ m.seen \in Message
BY DEF Request, Answer

LEMMA ServerFields ==
    ASSUME NEW e \in ServerState
    PROVE  /\ e.applied \in Message /\ e.committed \in Message /\ e.applied \in Nat
           /\ e.committed \in Nat /\ e.queue \in Seq(Query) /\ e.subs \in SUBSET Subscription
           /\ Len(e.queue) \in Nat /\ \A i \in 1 .. Len(e.queue) : e.queue[i] \in Query
<1>1. /\ e.applied \in Message /\ e.committed \in Message
      /\ e.queue \in Seq(Query) /\ e.subs \in SUBSET Subscription
  BY DEF ServerState
<1> QED BY <1>1, LenProperties, ElementOfSeq DEF Message

LEMMA DisconnectedIs ==
    ASSUME NEW c \in Client
    PROVE  Disconnected(c) \in Client
<1> DEFINE d == SetState(c, Queries(c, "sent"), "due")
<1>1. d \in Client
  BY SetStateIs
<1>2. Disconnected(c) = IF c.server = NoServer THEN c
                        ELSE [d EXCEPT !.server = NoServer, !.resubscribe = TRUE]
  BY DEF Disconnected
<1> HIDE DEF d
<1> QED BY <1>1, <1>2 DEF Client

\* A query keeps what it must see once it was asked.
LEMMA AskedStays ==
    ASSUME TypeOK, Next, NEW q \in Query, Asked(q)
    PROVE  Asked(q)' /\ client'.query[q].after = client.query[q].after
<1> DEFINE Stays(c) == c.query[q].state # "none" /\ c.query[q].after = client.query[q].after
<1>1. client \in Client /\ Stays(client)
  BY DEF TypeOK, Asked
<1>2. \A c \in Client : \A Q : \A state \in {"pending", "sent", "due", "answered"} :
          Stays(c) => Stays(SetState(c, Q, state))
  <2> TAKE c \in Client
  <2> TAKE Q
  <2> TAKE state \in {"pending", "sent", "due", "answered"}
  <2>1. /\ SetState(c, Q, state).query[q].state = IF q \in Q THEN state ELSE c.query[q].state
        /\ SetState(c, Q, state).query[q].after = c.query[q].after
    BY SetStateIs
  <2> QED BY <2>1
<1>3. \A c \in Client : CheckFlow(c).query = c.query
  BY DEF CheckFlow, Client
<1>4. Stays(Disconnected(client))
  <2> DEFINE d == SetState(client, Queries(client, "sent"), "due")
  <2>1. d \in Client /\ Stays(d)
    BY <1>1, <1>2, SetStateIs
  <2>2. Disconnected(client).query \in {client.query, d.query}
    <3> HIDE DEF d
    <3>1. Disconnected(client) = IF client.server = NoServer THEN client
                                 ELSE [d EXCEPT !.server = NoServer, !.resubscribe = TRUE]
      BY DEF Disconnected, d
    <3> QED BY <2>1, <3>1 DEF Client
  <2> QED BY <1>1, <2>1, <2>2
<1>5. CASE client' = client
  BY <1>1, <1>5 DEF Asked
<1>6. CASE \E r \in Query : Ask(r)
  <2>1. PICK r \in Query : Ask(r)
    BY <1>6
  <2> DEFINE c == [client EXCEPT !.query[r] = NewQuery]
  <2>2. r \in {x \in 1 .. r : client.query[x].state = "none"} /\ client' = CheckFlow(c)
    BY <2>1 DEF Ask
  <2>3. c \in Client /\ c.query[q] = client.query[q]
    BY <1>1, <2>2 DEF Client, NewQuery, QueryInfo, Asked
  <2> HIDE DEF c
  <2>4. client'.query = c.query
    BY <1>3, <2>2, <2>3
  <2> QED BY <1>1, <2>3, <2>4 DEF Asked
<1>7. CASE Process \/ \E r \in Query : ResendTimeout(r)
  <2>1. \E Q : \E state \in {"sent", "due"} : client' = SetState(client, Q, state)
    BY <1>7 DEF Process, ResendTimeout
  <2> QED BY <1>1, <1>2, <2>1 DEF Asked
<1>8. CASE \E m \in net : HandleAnswer(m)
  <2>1. PICK m \in net : HandleAnswer(m)
    BY <1>8
  <2> DEFINE c == SetState(client, {m.id}, "answered")
  <2>2. client' = client \/ client' = CheckFlow(c)
    BY <2>1 DEF HandleAnswer
  <2>3. c \in Client /\ Stays(c)
    BY <1>1, <1>2, SetStateIs
  <2> HIDE DEF c
  <2> QED BY <1>3, <1>5, <2>2, <2>3 DEF Asked
<1>9. CASE LoseServer \/ LoseLeader
  <2>1. Disconnected(client) \in Client
    BY <1>1, DisconnectedIs
  <2>2. client'.query = Disconnected(client).query
    <3>1. PICK d : d = Disconnected(client)
      OBVIOUS
    <3> QED BY <1>9, <2>1, <3>1 DEF LoseServer, LoseLeader, Client
  <2> QED BY <1>4, <2>2 DEF Asked
<1>10. CASE \/ \E s \in Server : Connect(s)
            \/ \E x \in Subscription : ChangeSubscription(x)
            \/ Publish \/ Resubscribe \/ ConnectLeader
  <2>1. client'.query = client.query
    BY <1>1, <1>10 DEF Connect, ChangeSubscription, Publish, Resubscribe, ConnectLeader, Client
  <2> QED BY <1>1, <2>1 DEF Asked
<1>11. CASE \/ \E s \in Server : \/ Apply(s) \/ StepDown(s) \/ SessionEnds(s)
                                 \/ SubscriptionTimesOut(s)
                                 \/ \E voter \in Server : LearnCommitted(s, voter)
            \/ \E m \in net : HandleQuery(m) \/ HandleSubscribe(m)
  BY <1>5, <1>11 DEF Apply, StepDown, SessionEnds, SubscriptionTimesOut, LearnCommitted,
                     HandleQuery, HandleSubscribe
<1> HIDE DEF Stays
<1> QED BY <1>6, <1>7, <1>8, <1>9, <1>10, <1>11 DEF Next

-----------------------------------------------------------------------------
(* The types of the steps of a server. *)

\* Server s goes to state e, and puts messages A under way.
Goes(s, e, A) ==
    /\ srv' = [srv EXCEPT ![s] = e] /\ net' \subseteq net \cup A
    /\ UNCHANGED <<client, changes>>
    /\ faults' \in 0 .. MaxFaults

LEMMA GoesOK ==
    ASSUME TypeOK, NEW s \in Server, NEW e \in ServerState, NEW A \in SUBSET Answer,
           Goes(s, e, A)
    PROVE  TypeOK'
BY DEF TypeOK, Goes

\* What is answered by a commit has waited for no more than what is committed.
Applies(s, e, A) ==
    /\ Goes(s, e, A) /\ e.applied # srv[s].applied
    /\ \A i \in 1 .. Len(e.queue) : \E j \in 1 .. Len(srv[s].queue) :
           e.queue[i] = srv[s].queue[j]
    /\ \A m \in A :
           /\ m.seen = e.applied /\ client.query[m.id].after <= e.committed
           /\ \E j \in 1 .. Len(srv[s].queue) : m.id = srv[s].queue[j]

LEMMA ApplyGoes ==
    ASSUME TypeOK, NEW s \in Server, Apply(s)
    PROVE  \E e \in ServerState, A \in SUBSET Answer : Applies(s, e, A)
<1>1. PICK n \in srv[s].applied + 1 .. client.published :
          LET after == AnswerQueue([srv[s] EXCEPT !.applied = n,
                                                  !.committed = Max({srv[s].committed, n})])
          IN  /\ srv' = [srv EXCEPT ![s] = after.server]
              /\ net' = net \cup after.answers
              /\ UNCHANGED <<client, changes, faults>>
  BY DEF Apply
<1> DEFINE c == Max({srv[s].committed, n})
           e == [srv[s] EXCEPT !.applied = n, !.committed = c]
           after == AnswerQueue(e)
<1>2. /\ srv[s] \in ServerState /\ client \in Client /\ faults \in 0 .. MaxFaults
      /\ client.published \in Message /\ srv[s].applied \in Message /\ srv[s].committed \in Message
  <2>1. srv[s] \in ServerState /\ client \in Client /\ faults \in 0 .. MaxFaults
    BY DEF TypeOK
  <2> QED BY <2>1, ServerFields DEF Client
<1>3. n \in Message /\ n # srv[s].applied
  BY <1>2 DEF Message
<1>4. c \in Message
  <2>1. \A x, y \in Nat : Max({x, y}) \in {x, y}
    <3> TAKE x \in Nat, y \in Nat
    <3> DEFINE z == IF x >= y THEN x ELSE y
    <3>1. z \in {x, y} /\ \A u \in {x, y} : z >= u
      OBVIOUS
    <3> HIDE DEF z
    <3> QED BY <3>1 DEF Max
  <2> QED BY <1>2, <1>3, <2>1 DEF Message
<1> HIDE DEF c
<1>5. e \in ServerState /\ e.queue = srv[s].queue /\ e.applied = n
  BY <1>2, <1>3, <1>4 DEF ServerState
<1> HIDE DEF e
<1>6. /\ after.server \in ServerState
      /\ after.server.applied = e.applied /\ after.server.committed = e.committed
      /\ \A i \in 1 .. Len(after.server.queue) :
            \E j \in 1 .. Len(e.queue) : after.server.queue[i] = e.queue[j]
      /\ \A m \in after.answers :
            /\ m \in Answer /\ m.seen = e.applied
            /\ client.query[m.id].after <= e.committed
            /\ \E j \in 1 .. Len(e.queue) : m.id = e.queue[j]
  BY <1>2, <1>5, AnswerQueueOK
<1>7. Goes(s, after.server, after.answers)
  BY <1>1, <1>2 DEF Goes, e, c
<1> HIDE DEF after
<1>8. after.answers \in SUBSET Answer
  BY <1>6
<1>9. Applies(s, after.server, after.answers)
  BY <1>3, <1>5, <1>6, <1>7 DEF Applies
<1> QED BY <1>6, <1>8, <1>9

\* What is answered at once needs no more than what is committed.
Serves(m, e, A) ==
    /\ Goes(m.to, e, A) /\ m.to \in Server /\ m.type = "Query" /\ m \notin net'
    /\ e.applied = srv[m.to].applied
    /\ \A i \in 1 .. Len(e.queue) :
           \/ \E j \in 1 .. Len(srv[m.to].queue) : e.queue[i] = srv[m.to].queue[j]
           \/ \E j \in 1 .. Len(m.ids) : e.queue[i] = m.ids[j]
    /\ \A a \in A :
           /\ a.seen = srv[m.to].applied
           /\ client.query[a.id].after <= srv[m.to].committed
           /\ \E j \in 1 .. Len(m.ids) : a.id = m.ids[j]

LEMMA HandleQueryGoes ==
    ASSUME TypeOK, NEW m \in net, HandleQuery(m)
    PROVE  \E e \in ServerState, A \in SUBSET Answer : Serves(m, e, A)
<1> DEFINE s == m.to
           f == srv[m.to]
           early == {id \in ToSet(m.ids) : client.query[id].after > f.committed}
           q == f.queue \o Those(m.ids, early)
           e == [f EXCEPT !.queue = q]
           A == {AnswerTo(f, id) : id \in ToSet(m.ids) \ early}
<1>1. /\ m.type = "Query" /\ s \in Server /\ m.ids \in Seq(Query) /\ f \in ServerState
      /\ client \in Client /\ faults \in 0 .. MaxFaults
  BY MessageTypes DEF HandleQuery, TypeOK
<1>2. /\ f.queue \in Seq(Query) /\ f.committed \in Nat /\ f.applied \in Message
      /\ Len(f.queue) \in Nat
  BY <1>1, ServerFields
<1>3. /\ Len(m.ids) \in Nat /\ DOMAIN m.ids = 1 .. Len(m.ids)
      /\ \A j \in 1 .. Len(m.ids) : m.ids[j] \in Query
  BY <1>1, LenProperties, ElementOfSeq
<1>4. ToSet(m.ids) = {m.ids[j] : j \in 1 .. Len(m.ids)}
  BY <1>3 DEF ToSet
<1>5. srv' = [srv EXCEPT ![s] = e] /\ net' = (net \ {m}) \cup A /\ UNCHANGED <<client, changes, faults>>
  <2>1. [srv EXCEPT ![s].queue = q] = [srv EXCEPT ![s] = [srv[s] EXCEPT !.queue = q]]
    BY <1>1 DEF TypeOK
  <2> QED BY <2>1 DEF HandleQuery
<1> HIDE DEF early
<1>6. /\ Those(m.ids, early) \in Seq(Query)
      /\ \A i \in 1 .. Len(Those(m.ids, early)) :
            \E j \in 1 .. Len(m.ids) : Those(m.ids, early)[i] = m.ids[j]
  BY <1>1, ThoseOK
<1>7. /\ q \in Seq(Query)
      /\ \A i \in 1 .. Len(q) :
            \/ \E j \in 1 .. Len(f.queue) : q[i] = f.queue[j]
            \/ \E j \in 1 .. Len(Those(m.ids, early)) : q[i] = Those(m.ids, early)[j]
  <2>1. PICK those : those = Those(m.ids, early)
    OBVIOUS
  <2>2. PICK queue : queue = f.queue
    OBVIOUS
  <2>3. those \in Seq(Query) /\ queue \in Seq(Query)
    BY <1>2, <1>6, <2>1, <2>2
  <2>4. /\ queue \o those \in Seq(Query)
        /\ \A i \in 1 .. Len(queue \o those) :
              \/ \E j \in 1 .. Len(queue) : (queue \o those)[i] = queue[j]
              \/ \E j \in 1 .. Len(those) : (queue \o those)[i] = those[j]
    BY <2>3, ConcatHolds
  <2>5. q = queue \o those
    BY <2>1, <2>2
  <2> HIDE DEF q, f
  <2> QED BY <2>1, <2>2, <2>4, <2>5
<1>8. \A i \in 1 .. Len(q) : \/ \E j \in 1 .. Len(f.queue) : q[i] = f.queue[j]
                             \/ \E j \in 1 .. Len(m.ids) : q[i] = m.ids[j]
  <2>1. PICK those : those = Those(m.ids, early)
    OBVIOUS
  <2>2. \A i \in 1 .. Len(those) : \E j \in 1 .. Len(m.ids) : those[i] = m.ids[j]
    BY <1>6, <2>1
  <2>3. \A i \in 1 .. Len(q) : \/ \E j \in 1 .. Len(f.queue) : q[i] = f.queue[j]
                               \/ \E j \in 1 .. Len(those) : q[i] = those[j]
    BY <1>7, <2>1
  <2>4. PICK r, queue : r = q /\ queue = f.queue
    OBVIOUS
  <2> HIDE DEF q, f
  <2>5. \A i \in 1 .. Len(r) : \/ \E j \in 1 .. Len(queue) : r[i] = queue[j]
                               \/ \E j \in 1 .. Len(those) : r[i] = those[j]
    BY <2>3, <2>4
  <2>6. \A i \in 1 .. Len(r) : \/ \E j \in 1 .. Len(queue) : r[i] = queue[j]
                               \/ \E j \in 1 .. Len(m.ids) : r[i] = m.ids[j]
    <3> TAKE i \in 1 .. Len(r)
    <3>1. \A j \in 1 .. Len(those) : r[i] = those[j] => \E k \in 1 .. Len(m.ids) : r[i] = m.ids[k]
      BY <2>2
    <3> QED BY <2>5, <3>1
  <2> QED BY <2>4, <2>6
<1> HIDE DEF q
<1>9. e \in ServerState /\ e.queue = q /\ e.applied = f.applied
  BY <1>1, <1>7 DEF ServerState
<1> HIDE DEF e
<1>10. ASSUME NEW a \in A
       PROVE  /\ a \in Answer /\ a.type = "Answer" /\ a.seen = f.applied
              /\ client.query[a.id].after <= f.committed
              /\ \E j \in 1 .. Len(m.ids) : a.id = m.ids[j]
  <2>1. PICK id \in ToSet(m.ids) \ early : a = AnswerTo(f, id)
    OBVIOUS
  <2>2. id \in Query /\ \E j \in 1 .. Len(m.ids) : id = m.ids[j]
    BY <1>3, <1>4, <2>1
  <2>3. client.query[id].after <= f.committed
    <3>1. ~(client.query[id].after > f.committed)
      BY <2>1 DEF early
    <3>2. client.query[id].after \in Nat
      BY <1>1, <2>2, SMTT(30) DEF Client, QueryInfo, Message
    <3> QED BY <1>2, <3>1, <3>2
  <2> QED BY <1>2, <2>1, <2>2, <2>3 DEF AnswerTo, Answer
<1> HIDE DEF A
<1>11. m \notin net'
  BY <1>1, <1>5, <1>10
<1>12. Goes(s, e, A) /\ A \in SUBSET Answer
  BY <1>1, <1>5, <1>10 DEF Goes
<1>13. Serves(m, e, A)
  BY <1>1, <1>8, <1>9, <1>10, <1>11, <1>12 DEF Serves
<1> QED BY <1>9, <1>12, <1>13

\* The other steps of a server: no answer, and what waits at it goes on waiting or is forgotten.
Keeps(s, e) ==
    /\ Goes(s, e, {}) /\ e.queue \in {srv[s].queue, <<>>}

LEMMA ServerGoes ==
    ASSUME TypeOK, NEW s \in Server,
           \/ StepDown(s) \/ SessionEnds(s) \/ SubscriptionTimesOut(s)
           \/ \E voter \in Server : LearnCommitted(s, voter)
    PROVE  \E e \in ServerState : Keeps(s, e)
<1>1. /\ srv \in [Server -> ServerState] /\ srv[s] \in ServerState /\ faults \in 0 .. MaxFaults
      /\ MaxFaults \in Nat
  BY DEF TypeOK
<1>2. <<>> \in Seq(Query) /\ 0 \in Message
  BY DEF Message
<1>3. CASE StepDown(s)
  <2> DEFINE e == [srv[s] EXCEPT !.queue = <<>>]
  <2>1. e \in ServerState /\ e.queue = <<>>
    BY <1>1, <1>2 DEF ServerState
  <2>2. Goes(s, e, {})
    BY <1>1, <1>3 DEF StepDown, Goes, Fault
  <2> QED BY <2>1, <2>2 DEF Keeps
<1>4. CASE SessionEnds(s)
  <2> DEFINE e == [applied |-> srv[s].applied, committed |-> 0, queue |-> <<>>, subs |-> {}]
  <2>1. e \in ServerState /\ e.queue = <<>>
    BY <1>1, <1>2 DEF ServerState
  <2>2. Goes(s, e, {})
    BY <1>1, <1>4 DEF SessionEnds, Goes, Fault
  <2> QED BY <2>1, <2>2 DEF Keeps
<1>5. CASE SubscriptionTimesOut(s)
  <2> DEFINE e == [srv[s] EXCEPT !.subs = {}]
  <2>1. e \in ServerState /\ e.queue = srv[s].queue
    BY <1>1 DEF ServerState
  <2>2. Goes(s, e, {})
    BY <1>1, <1>5 DEF SubscriptionTimesOut, Goes
  <2> QED BY <2>1, <2>2 DEF Keeps
<1>6. CASE \E voter \in Server : LearnCommitted(s, voter)
  <2>1. PICK voter \in Server : LearnCommitted(s, voter)
    BY <1>6
  <2> DEFINE e == [srv[s] EXCEPT !.committed = srv[voter].committed]
  <2>2. srv[voter].committed \in Message
    BY <1>1 DEF ServerState
  <2>3. e \in ServerState /\ e.queue = srv[s].queue
    BY <1>1, <2>2 DEF ServerState
  <2>4. Goes(s, e, {})
    BY <1>1, <2>1 DEF LearnCommitted, Goes
  <2> QED BY <2>3, <2>4 DEF Keeps
<1> QED BY <1>3, <1>4, <1>5, <1>6

LEMMA HandleSubscribeGoes ==
    ASSUME TypeOK, NEW m \in net, HandleSubscribe(m)
    PROVE  \E s \in Server : \E e \in ServerState : Keeps(s, e)
<1>1. m.to \in Server /\ m.subs \in SUBSET Subscription
  BY MessageTypes DEF TypeOK, HandleSubscribe
<1>2. /\ srv \in [Server -> ServerState] /\ srv[m.to] \in ServerState
      /\ faults \in 0 .. MaxFaults
  BY <1>1 DEF TypeOK
<1> DEFINE e == IF m.subs = {} THEN srv[m.to] ELSE [srv[m.to] EXCEPT !.subs = m.subs]
<1>3. e \in ServerState /\ e.queue = srv[m.to].queue
  BY <1>1, <1>2 DEF ServerState
<1>4. srv' = [srv EXCEPT ![m.to] = e]
  <2>1. CASE m.subs = {}
    <3>1. e = srv[m.to]
      BY <2>1
    <3> HIDE DEF e
    <3> QED BY <1>2, <2>1, <3>1 DEF HandleSubscribe
  <2>2. CASE m.subs # {}
    BY <1>2, <2>2 DEF HandleSubscribe
  <2> QED BY <2>1, <2>2
<1> HIDE DEF e
<1>5. Goes(m.to, e, {})
  BY <1>2, <1>4 DEF HandleSubscribe, Goes
<1>6. Keeps(m.to, e)
  BY <1>3, <1>5 DEF Keeps
<1> QED BY <1>1, <1>3, <1>6

-----------------------------------------------------------------------------
(* The types of the steps of the client. *)

\* The client sends R, if anything.
Sends(R) ==
    /\ srv' = srv /\ net' \subseteq net \cup R
    /\ changes' \in 0 .. MaxChanges /\ faults' \in 0 .. MaxFaults
    /\ \A m \in R : m.type = "Query" => \A i \in 1 .. Len(m.ids) : Asked(m.ids[i])

\* A batch holds queries that were asked.
LEMMA BatchOK ==
    ASSUME client \in Client
    PROVE  /\ Batch(client) \in Seq(Query)
           /\ \A i \in 1 .. Len(Batch(client)) : Asked(Batch(client)[i])
<1> DEFINE P == PendingBatch(client)
           D == DueBatch(client)
<1>1. IsFiniteSet(Query) /\ Query \in SUBSET Nat
  <2>1. IsFiniteSet(Query)
    BY FS_Interval DEF Query
  <2>2. Query \in SUBSET Nat
    BY DEF Query
  <2> QED BY <2>1, <2>2
<1>2. P \in SUBSET Query /\ D \in SUBSET Query
  BY DEF PendingBatch, DueBatch, FirstOf, Queries
<1>3. /\ \A q \in P : Asked(q)
      /\ \A q \in D : Asked(q)
  BY DEF PendingBatch, DueBatch, FirstOf, Queries, Asked
<1> HIDE DEF P, D
<1>4. \A Q \in SUBSET Query : IsFiniteSet(Q)
  BY <1>1, FS_Subset
<1>5. /\ InOrder(P) \in Seq(P) /\ \A i \in 1 .. Len(InOrder(P)) : InOrder(P)[i] \in P
      /\ InOrder(D) \in Seq(D) /\ \A i \in 1 .. Len(InOrder(D)) : InOrder(D)[i] \in D
  <2>1. P \in SUBSET Nat /\ IsFiniteSet(P) /\ D \in SUBSET Nat /\ IsFiniteSet(D)
    BY <1>1, <1>2, <1>4
  <2> QED BY <2>1, InOrderOK, ElementOfSeq
<1>6. PICK a : a = InOrder(P)
  OBVIOUS
<1>7. PICK b : b = InOrder(D)
  OBVIOUS
<1>8. a \in Seq(Query) /\ b \in Seq(Query)
  <2>1. Seq(P) \subseteq Seq(Query) /\ Seq(D) \subseteq Seq(Query)
    BY <1>2
  <2> QED BY <1>5, <1>6, <1>7, <2>1
<1>9. Batch(client) = a \o b
  BY <1>6, <1>7 DEF Batch, P, D
<1>10. /\ a \o b \in Seq(Query)
       /\ \A i \in 1 .. Len(a \o b) : \/ \E j \in 1 .. Len(a) : (a \o b)[i] = a[j]
                                      \/ \E j \in 1 .. Len(b) : (a \o b)[i] = b[j]
  BY <1>8, ConcatHolds
<1>11. /\ \A j \in 1 .. Len(a) : Asked(a[j])
       /\ \A j \in 1 .. Len(b) : Asked(b[j])
  BY <1>3, <1>5, <1>6, <1>7
<1>12. ASSUME NEW i \in 1 .. Len(a \o b)
       PROVE  Asked((a \o b)[i])
  <2>1. CASE \E j \in 1 .. Len(a) : (a \o b)[i] = a[j]
    BY <1>11, <2>1
  <2>2. CASE \E j \in 1 .. Len(b) : (a \o b)[i] = b[j]
    BY <1>11, <2>2
  <2> QED BY <1>10, <2>1, <2>2
<1> QED BY <1>9, <1>10, <1>12

LEMMA ClientSends ==
    ASSUME TypeOK,
           \/ \E s \in Server : Connect(s)
           \/ \E m \in net : HandleAnswer(m)
           \/ \E q \in Query : Ask(q) \/ ResendTimeout(q)
           \/ \E x \in Subscription : ChangeSubscription(x)
           \/ Publish \/ Process \/ Resubscribe \/ LoseServer \/ LoseLeader \/ ConnectLeader
    PROVE  \E R \in SUBSET Request : Sends(R)
<1>1. /\ client \in Client /\ changes \in 0 .. MaxChanges /\ faults \in 0 .. MaxFaults
      /\ MaxChanges \in Nat /\ MaxFaults \in Nat
  BY DEF TypeOK
<1>2. CASE Process
  <2> DEFINE r == [type |-> "Query", to |-> client.server, ids |-> Batch(client)]
  <2>1. client.server \in Server
    BY <1>1, <1>2 DEF Process, Client
  <2>2. r \in Request
    BY <2>1, <1>1, BatchOK DEF Request
  <2>3. Sends({r})
    <3>1. \A i \in 1 .. Len(r.ids) : Asked(r.ids[i])
      BY <1>1, BatchOK
    <3>2. net' = net \cup {r}
      BY <1>2 DEF Process
    <3> HIDE DEF r
    <3> QED BY <1>1, <1>2, <3>1, <3>2 DEF Process, Sends
  <2> QED BY <2>2, <2>3
<1>3. CASE Resubscribe
  <2> DEFINE r == [type |-> "Subscribe", to |-> client.server, subs |-> client.subs]
  <2>1. client.server \in Server /\ client.subs \in SUBSET Subscription
    BY <1>1, <1>3 DEF Resubscribe, Client
  <2>2. r \in Request
    BY <2>1 DEF Request
  <2>3. Sends({r})
    BY <1>1, <1>3 DEF Resubscribe, Sends
  <2> QED BY <2>2, <2>3
<1>4. ASSUME /\ srv' = srv /\ net' \subseteq net
             /\ changes' \in 0 .. MaxChanges /\ faults' \in 0 .. MaxFaults
      PROVE  \E R \in SUBSET Request : Sends(R)
  <2>1. Sends({})
    BY <1>4 DEF Sends
  <2> QED BY <2>1
<1>5. CASE \E s \in Server : Connect(s)
  BY <1>1, <1>4, <1>5 DEF Connect
<1>6. CASE \E m \in net : HandleAnswer(m)
  BY <1>1, <1>4, <1>6 DEF HandleAnswer
<1>7. CASE \E q \in Query : Ask(q)
  BY <1>1, <1>4, <1>7 DEF Ask
<1>8. CASE \E q \in Query : ResendTimeout(q)
  BY <1>1, <1>4, <1>8 DEF ResendTimeout, Fault
<1>9. CASE \E x \in Subscription : ChangeSubscription(x)
  <2>1. /\ srv' = srv /\ net' = net /\ faults' = faults
        /\ changes < MaxChanges /\ changes' = changes + 1
    BY <1>9 DEF ChangeSubscription
  <2>2. changes' \in 0 .. MaxChanges
    BY <1>1, <2>1
  <2> QED BY <1>1, <1>4, <2>1, <2>2
<1>10. CASE LoseServer
  BY <1>1, <1>4, <1>10 DEF LoseServer, Fault
<1>11. CASE Publish \/ LoseLeader \/ ConnectLeader
  BY <1>1, <1>4, <1>11 DEF Publish, LoseLeader, ConnectLeader, Fault
<1> QED BY <1>2, <1>3, <1>5, <1>6, <1>7, <1>8, <1>9, <1>10, <1>11

-----------------------------------------------------------------------------
LEMMA InitTypes == Init => TypeOK
<1> SUFFICES ASSUME Init PROVE TypeOK
  OBVIOUS
<1>1. client \in Client
  BY InitFlow DEF IInv
<1>2. <<>> \in Seq(Query) /\ 0 \in Message /\ MaxChanges \in Nat /\ MaxFaults \in Nat
  BY DEF Message
<1> QED BY <1>1, <1>2 DEF Init, TypeOK, ServerState

LEMMA TypeStep ==
    ASSUME TypeOK, IInv, [Next]_vars
    PROVE  TypeOK'
<1>1. client' \in Client
  BY NextFlow DEF IInv
<1>2. CASE \E s \in Server : \/ Apply(s) \/ StepDown(s) \/ SessionEnds(s)
                             \/ SubscriptionTimesOut(s)
                             \/ \E voter \in Server : LearnCommitted(s, voter)
  <2>1. PICK s \in Server : \/ Apply(s) \/ StepDown(s) \/ SessionEnds(s)
                            \/ SubscriptionTimesOut(s)
                            \/ \E voter \in Server : LearnCommitted(s, voter)
    BY <1>2
  <2>2. CASE Apply(s)
    BY <2>2, ApplyGoes, GoesOK DEF Applies
  <2>3. CASE ~Apply(s)
    <3>1. PICK e \in ServerState : Goes(s, e, {})
      BY <2>1, <2>3, ServerGoes DEF Keeps
    <3> QED BY <3>1, GoesOK
  <2> QED BY <2>2, <2>3
<1>3. CASE \E m \in net : HandleQuery(m)
  <2>1. PICK m \in net : HandleQuery(m)
    BY <1>3
  <2>2. PICK e \in ServerState, A \in SUBSET Answer : Serves(m, e, A)
    BY <2>1, HandleQueryGoes
  <2> QED BY <2>2, GoesOK DEF Serves
<1>4. CASE \E m \in net : HandleSubscribe(m)
  <2>1. PICK s \in Server, e \in ServerState : Goes(s, e, {})
    BY <1>4, HandleSubscribeGoes DEF Keeps
  <2> QED BY <2>1, GoesOK
<1>5. CASE \/ \E s \in Server : Connect(s)
           \/ \E m \in net : HandleAnswer(m)
           \/ \E q \in Query : Ask(q) \/ ResendTimeout(q)
           \/ \E x \in Subscription : ChangeSubscription(x)
           \/ Publish \/ Process \/ Resubscribe \/ LoseServer \/ LoseLeader \/ ConnectLeader
  <2>1. PICK R \in SUBSET Request : Sends(R)
    BY <1>5, ClientSends
  <2> QED BY <1>1, <2>1 DEF TypeOK, Sends
<1>6. CASE UNCHANGED vars
  BY <1>6 DEF vars, TypeOK
<1> QED BY <1>2, <1>3, <1>4, <1>5, <1>6 DEF Next

(***************************************************************************)
(* The state has its types: requests, answers and queues hold queries of    *)
(* the client and go between it and servers of the group, with whatever    *)
(* batches (create_request) and however often they are sent.               *)
(***************************************************************************)
THEOREM TypeCorrect == Spec => []TypeOK
BY InitFlow, NextFlow, InitTypes, TypeStep, PTL DEF Spec

-----------------------------------------------------------------------------
(* What a query sees. *)

\* A message under way that the invariant admits
Honest(m) ==
    /\ m.type = "Query" => \A i \in 1 .. Len(m.ids) : Asked(m.ids[i])
    /\ m.type = "Answer" => Asked(m.id) /\ m.seen >= client.query[m.id].after

\* What step Next makes of the messages and of the queues, in terms of the state before
StepReads ==
    /\ \A m \in net' : m \in net \/ (m \in Request \cup Answer /\ Honest(m))
    /\ \A s \in Server : \A i \in 1 .. Len(srv'[s].queue) :
           srv'[s].queue[i] \in Query /\ Asked(srv'[s].queue[i])

LEMMA QueuesAsked ==
    ASSUME TypeOK, OnlyAsked, NEW s \in Server
    PROVE  \A i \in 1 .. Len(srv[s].queue) :
               srv[s].queue[i] \in Query /\ Asked(srv[s].queue[i])
BY ServerFields DEF TypeOK, OnlyAsked

LEMMA GoesReads ==
    ASSUME TypeOK, OnlyAsked, NEW s \in Server, NEW e \in ServerState,
           NEW A \in SUBSET Answer, Goes(s, e, A), \A m \in A : Honest(m),
           \A i \in 1 .. Len(e.queue) : e.queue[i] \in Query /\ Asked(e.queue[i])
    PROVE  StepReads
<1>1. srv' = [srv EXCEPT ![s] = e] /\ srv \in [Server -> ServerState] /\ net' \subseteq net \cup A
  BY DEF Goes, TypeOK
<1>2. \A r \in Server : srv'[r] = IF r = s THEN e ELSE srv[r]
  BY <1>1
<1>3. \A r \in Server : \A i \in 1 .. Len(srv'[r].queue) :
          srv'[r].queue[i] \in Query /\ Asked(srv'[r].queue[i])
  BY <1>2, QueuesAsked
<1>4. \A m \in net' : m \in net \/ (m \in Request \cup Answer /\ Honest(m))
  BY <1>1
<1> QED BY <1>3, <1>4 DEF StepReads

\* A commit answers no query of which more is committed than applied.
LEMMA ApplyReads ==
    ASSUME TypeOK, OnlyAsked, AppliedLeaders, NEW s \in Server, Apply(s)
    PROVE  StepReads
<1>1. PICK e \in ServerState, A \in SUBSET Answer : Applies(s, e, A)
  BY ApplyGoes
<1>2. /\ Goes(s, e, A) /\ e.applied # srv[s].applied
      /\ \A i \in 1 .. Len(e.queue) : \E j \in 1 .. Len(srv[s].queue) :
             e.queue[i] = srv[s].queue[j]
      /\ \A m \in A :
             /\ m.seen = e.applied /\ client.query[m.id].after <= e.committed
             /\ \E j \in 1 .. Len(srv[s].queue) : m.id = srv[s].queue[j]
  BY <1>1 DEF Applies
<1>3. \A i \in 1 .. Len(srv[s].queue) : srv[s].queue[i] \in Query /\ Asked(srv[s].queue[i])
  BY QueuesAsked
<1>4. srv'[s] = e
  BY <1>2 DEF Goes, TypeOK
<1>5. e.committed <= e.applied /\ e.committed \in Nat /\ e.applied \in Nat
  <2>1. srv'[s].applied = srv[s].applied \/ srv'[s].committed <= srv'[s].applied
    BY DEF AppliedLeaders
  <2> QED BY <1>2, <1>4, <2>1, ServerFields
<1>6. ASSUME NEW m \in A
      PROVE  Honest(m)
  <2>1. m.type = "Answer" /\ m.id \in Query /\ m.seen = e.applied
        /\ client.query[m.id].after <= e.committed
    BY <1>2, MessageTypes DEF Answer
  <2>2. client.query[m.id].after \in Nat
    BY <2>1 DEF TypeOK, Client, QueryInfo, Message
  <2>3. Asked(m.id)
    BY <1>2, <1>3
  <2>4. m.seen >= client.query[m.id].after
    BY <1>5, <2>1, <2>2
  <2> QED BY <2>1, <2>3, <2>4 DEF Honest
<1>7. \A i \in 1 .. Len(e.queue) : e.queue[i] \in Query /\ Asked(e.queue[i])
  BY <1>2, <1>3
<1> QED BY <1>2, <1>6, <1>7, GoesReads

LEMMA HandleQueryReads ==
    ASSUME TypeOK, OnlyAsked, AppliedLeaders, NEW m \in net, HandleQuery(m)
    PROVE  StepReads
<1>1. PICK e \in ServerState, A \in SUBSET Answer : Serves(m, e, A)
  BY HandleQueryGoes
<1>2. /\ Goes(m.to, e, A) /\ m.to \in Server /\ m.type = "Query" /\ m \notin net'
      /\ \A i \in 1 .. Len(e.queue) :
             \/ \E j \in 1 .. Len(srv[m.to].queue) : e.queue[i] = srv[m.to].queue[j]
             \/ \E j \in 1 .. Len(m.ids) : e.queue[i] = m.ids[j]
      /\ \A a \in A :
             /\ a.seen = srv[m.to].applied
             /\ client.query[a.id].after <= srv[m.to].committed
             /\ \E j \in 1 .. Len(m.ids) : a.id = m.ids[j]
  BY <1>1 DEF Serves
<1>3. \A i \in 1 .. Len(srv[m.to].queue) :
          srv[m.to].queue[i] \in Query /\ Asked(srv[m.to].queue[i])
  BY <1>2, QueuesAsked
<1>4. \A i \in 1 .. Len(m.ids) : m.ids[i] \in Query /\ Asked(m.ids[i])
  <2>1. m.ids \in Seq(Query)
    BY <1>2, MessageTypes DEF TypeOK
  <2>2. \A i \in 1 .. Len(m.ids) : m.ids[i] \in Query
    BY <2>1, ElementOfSeq
  <2> QED BY <1>2, <2>2 DEF OnlyAsked
<1>5. /\ srv[m.to].committed <= srv[m.to].applied
      /\ srv[m.to].committed \in Nat /\ srv[m.to].applied \in Nat
  <2>1. srv[m.to] \in ServerState
    BY <1>2 DEF TypeOK
  <2> QED BY <1>2, <2>1, ServerFields DEF AppliedLeaders
<1>6. ASSUME NEW a \in A
      PROVE  Honest(a)
  <2>1. a.type = "Answer" /\ a.id \in Query /\ a.seen = srv[m.to].applied
        /\ client.query[a.id].after <= srv[m.to].committed
    BY <1>2, MessageTypes DEF Answer
  <2>2. client.query[a.id].after \in Nat
    BY <2>1 DEF TypeOK, Client, QueryInfo, Message
  <2>3. Asked(a.id)
    BY <1>2, <1>4
  <2>4. a.seen >= client.query[a.id].after
    BY <1>5, <2>1, <2>2
  <2> QED BY <2>1, <2>3, <2>4 DEF Honest
<1>7. \A i \in 1 .. Len(e.queue) : e.queue[i] \in Query /\ Asked(e.queue[i])
  BY <1>2, <1>3, <1>4
<1> QED BY <1>2, <1>6, <1>7, GoesReads

LEMMA OtherServersRead ==
    ASSUME TypeOK, OnlyAsked, NEW s \in Server, NEW e \in ServerState, Keeps(s, e)
    PROVE  StepReads
<1>1. \A i \in 1 .. Len(e.queue) : e.queue[i] \in Query /\ Asked(e.queue[i])
  BY QueuesAsked DEF Keeps
<1>2. Goes(s, e, {})
  BY DEF Keeps
<1> QED BY <1>1, <1>2, GoesReads

LEMMA ClientReads ==
    ASSUME TypeOK, OnlyAsked, NEW R \in SUBSET Request, Sends(R)
    PROVE  StepReads
<1>1. \A m \in R : Honest(m) /\ m \in Request
  <2> TAKE m \in R
  <2>1. m.type # "Answer"
    BY DEF Request
  <2> QED BY <2>1 DEF Honest, Sends
<1>2. srv' = srv /\ net' \subseteq net \cup R
  BY DEF Sends
<1> QED BY <1>1, <1>2, QueuesAsked DEF StepReads

LEMMA EveryStepReads ==
    ASSUME TypeOK, OnlyAsked, AppliedLeaders, Next
    PROVE  StepReads
<1>1. CASE \E s \in Server : \/ Apply(s) \/ StepDown(s) \/ SessionEnds(s)
                             \/ SubscriptionTimesOut(s)
                             \/ \E voter \in Server : LearnCommitted(s, voter)
  <2>1. PICK s \in Server : \/ Apply(s) \/ StepDown(s) \/ SessionEnds(s)
                            \/ SubscriptionTimesOut(s)
                            \/ \E voter \in Server : LearnCommitted(s, voter)
    BY <1>1
  <2>2. CASE ~Apply(s)
    BY <2>1, <2>2, ServerGoes, OtherServersRead
  <2> QED BY <2>2, ApplyReads
<1>2. CASE \E m \in net : HandleQuery(m)
  BY <1>2, HandleQueryReads
<1>3. CASE \E m \in net : HandleSubscribe(m)
  BY <1>3, HandleSubscribeGoes, OtherServersRead
<1>4. CASE \/ \E s \in Server : Connect(s)
           \/ \E m \in net : HandleAnswer(m)
           \/ \E q \in Query : Ask(q) \/ ResendTimeout(q)
           \/ \E x \in Subscription : ChangeSubscription(x)
           \/ Publish \/ Process \/ Resubscribe \/ LoseServer \/ LoseLeader \/ ConnectLeader
  BY <1>4, ClientSends, ClientReads
<1> QED BY <1>1, <1>2, <1>3, <1>4 DEF Next

\* What is admitted before a step is admitted after it: a query keeps what it must see.
LEMMA HonestStays ==
    ASSUME TypeOK, Next, NEW m \in Request \cup Answer, Honest(m)
    PROVE  Honest(m)'
<1>1. \A q \in Query : Asked(q) => Asked(q)' /\ client'.query[q].after = client.query[q].after
  BY AskedStays
<1>2. m.type = "Query" => \A i \in 1 .. Len(m.ids) : m.ids[i] \in Query
  BY MessageTypes, ElementOfSeq
<1>3. m.type = "Answer" => m.id \in Query
  BY MessageTypes
<1>4. m.type = "Query" => \A i \in 1 .. Len(m.ids) : Asked(m.ids[i])'
  BY <1>1, <1>2 DEF Honest
<1>5. m.type = "Answer" => Asked(m.id)' /\ m.seen >= client'.query[m.id].after
  BY <1>1, <1>3 DEF Honest
<1> QED BY <1>4, <1>5 DEF Honest

LEMMA ReadStep ==
    ASSUME ReadInv, IInv, [Next /\ AppliedLeaders]_vars
    PROVE  ReadInv'
<1>1. CASE UNCHANGED vars
  BY <1>1 DEF vars, ReadInv, TypeOK, OnlyAsked, Asked, ReadsOwnWrites
<1>2. CASE Next /\ AppliedLeaders
  <2>1. TypeOK' /\ StepReads
    BY <1>2, TypeStep, EveryStepReads DEF ReadInv
  <2>2. \A m \in net : Honest(m) /\ m \in Request \cup Answer
    <3> TAKE m \in net
    <3>1. m \in Request \cup Answer
      BY DEF ReadInv, TypeOK
    <3> QED BY <3>1 DEF ReadInv, OnlyAsked, ReadsOwnWrites, Honest
  <2>3. ASSUME NEW m \in net' PROVE Honest(m)'
    <3>1. m \in Request \cup Answer /\ Honest(m)
      BY <2>1, <2>2 DEF StepReads
    <3> QED BY <1>2, <3>1, HonestStays DEF ReadInv
  <2>4. ASSUME NEW s \in Server, NEW i \in 1 .. Len(srv'[s].queue)
        PROVE  client'.query[srv'[s].queue[i]].state # "none"
    <3>1. PICK q : q = srv'[s].queue[i]
      OBVIOUS
    <3>2. q \in Query /\ Asked(q)
      BY <2>1, <3>1 DEF StepReads
    <3>3. Asked(q)'
      BY <1>2, <3>2, AskedStays DEF ReadInv
    <3> QED BY <3>1, <3>3 DEF Asked
  <2>5. OnlyAsked'
    BY <2>3, <2>4 DEF OnlyAsked, Honest, Asked
  <2>6. ReadsOwnWrites'
    BY <2>3 DEF ReadsOwnWrites, Honest
  <2> QED BY <2>1, <2>5, <2>6 DEF ReadInv
<1> QED BY <1>1, <1>2

LEMMA InitReads == Init => ReadInv
<1> SUFFICES ASSUME Init PROVE ReadInv
  OBVIOUS
<1>1. net = {} /\ \A s \in Server : Len(srv[s].queue) = 0
  BY DEF Init
<1> QED BY <1>1, InitTypes DEF ReadInv, OnlyAsked, ReadsOwnWrites

(***************************************************************************)
(* A query sees every message that its client published before it, for any *)
(* number of servers and any batches: whichever server answers it, after   *)
(* whatever losses, late answers and steps back of leaders.  The           *)
(* hypothesis is that a new leader applies what it learns to be committed  *)
(* before it answers, which the code leaves open.                          *)
(***************************************************************************)
THEOREM ReadsTheirWrites == Spec /\ [][AppliedLeaders]_vars => []ReadsOwnWrites
<1>1. ReadInv => ReadsOwnWrites
  BY DEF ReadInv
<1>2. [Next]_vars /\ [AppliedLeaders]_vars => [Next /\ AppliedLeaders]_vars
  OBVIOUS
<1> QED BY <1>1, <1>2, InitFlow, NextFlow, InitReads, ReadStep, PTL DEF Spec
=============================================================================
