---------------------------- MODULE ClientQuery -----------------------------
(***************************************************************************)
(* The queries and subscriptions of one client, which any server answers:  *)
(*   src/src/artos/client/query.rs               QueryProtocolImpl         *)
(*   src/src/artos/server/replication/query.rs   QueryProtocolImpl         *)
(* A query must see what its client published before it, so a server keeps *)
(* it until it has committed that.  A handler is one step.                 *)
(*                                                                         *)
(* The publications of the client are what PublishSession shows: ids       *)
(* 1 .. published, which every server applies in this order.  The client's *)
(* connection to the leader matters in that it is needed to connect for    *)
(* queries (the group has several servers, so not for more than that).     *)
(***************************************************************************)
EXTENDS Integers, FiniteSets, SequencesExt

CONSTANTS Server, NoServer,
          Subscription,    \* ids of subscriptions
          MaxBatch,        \* queries that fit into max_batch_size
          LockCapacity,    \* lock_queue_capacity
          UnlockCapacity,  \* unlock_queue_capacity
          MaxMessage,      \* bound: messages the client publishes
          MaxQuery,        \* bound: queries it asks
          MaxChanges,      \* bound: calls of subscribe and unsubscribe
          MaxFaults        \* bound: what breaks, and queries sent again though not lost

ASSUME ClientQueryAssumption ==
    /\ IsFiniteSet(Server) /\ NoServer \notin Server
    /\ {MaxBatch, LockCapacity} \subseteq Nat \ {0}
    /\ UnlockCapacity \in 0 .. LockCapacity - 1
    /\ {MaxMessage, MaxQuery, MaxChanges, MaxFaults} \subseteq Nat

VARIABLES srv,      \* srv[s]: what server s keeps of the client
          client,   \* the client
          net,      \* requests and answers under way
          changes, faults

vars == <<srv, client, net, changes, faults>>

Message == 0 .. MaxMessage
Query   == 1 .. MaxQuery

\* applied: the messages in the state machine; the others are of the session:
\* last_committed_message_id, query_queue and subscriptions.
ServerState == [applied : Message, committed : Message, queue : Seq(Query),
                subs : SUBSET Subscription]

\* after: last_published_message_id.  A query is in pending_queries, or in sent_queries
\* and due once its resend period is over.
QueryInfo == [after : Message, state : {"none", "pending", "sent", "due", "answered"}]

\* leader: whether the publish protocol is connected; server: where queries go, if anywhere.
Client == [published : Message, leader : BOOLEAN, server : Server \cup {NoServer},
           query : [Query -> QueryInfo], locked : BOOLEAN,
           subs : SUBSET Subscription, resubscribe : BOOLEAN]

Request == [type : {"Query"}, to : Server, ids : Seq(Query)]
           \cup [type : {"Subscribe"}, to : Server, subs : SUBSET Subscription]
Answer == [type : {"Answer"}, id : Query, seen : Message]

TypeOK ==
    /\ srv \in [Server -> ServerState]
    /\ client \in Client
    /\ net \subseteq (Request \cup Answer)
    /\ changes \in 0 .. MaxChanges /\ faults \in 0 .. MaxFaults

Fault == faults < MaxFaults /\ faults' = faults + 1

\* A set of numbers as a sequence, in their order
InOrder(Q) ==
    [i \in 1 .. Cardinality(Q) |-> CHOOSE q \in Q : Cardinality({r \in Q : r <= q}) = i]

\* Those of a sequence that are in a set, in the order of the sequence
Those(ids, Q) ==
    LET at == InOrder({i \in DOMAIN ids : ids[i] \in Q})
    IN  [i \in DOMAIN at |-> ids[at[i]]]

-----------------------------------------------------------------------------
(* The servers. *)

\* process_query: a query sees the state machine as it is.
AnswerTo(e, id) == [type |-> "Answer", id |-> id, seen |-> e.applied]

\* on_commit: the queue is answered up to the first query that still has to wait.
AnswerQueue(e) ==
    LET waits == {i \in DOMAIN e.queue : client.query[e.queue[i]].after > e.committed}
        n     == IF waits = {} THEN Len(e.queue) ELSE Min(waits) - 1
    IN  [answers |-> {AnswerTo(e, e.queue[i]) : i \in 1 .. n},
         server  |-> [e EXCEPT !.queue = SubSeq(e.queue, n + 1, Len(e.queue))]]

\* A commit of messages of the client (local_commit)
Apply(s) ==
    \E n \in srv[s].applied + 1 .. client.published :
        LET after == AnswerQueue([srv[s] EXCEPT !.applied = n,
                                                !.committed = Max({srv[s].committed, n})])
        IN  /\ srv' = [srv EXCEPT ![s] = after.server]
            /\ net' = net \cup after.answers
            /\ UNCHANGED <<client, changes, faults>>

\* apply_transient_state: a new leader learns from a voter what was committed, and may
\* not have applied it yet.
LearnCommitted(s, voter) ==
    /\ srv[s].committed < srv[voter].committed
    /\ srv' = [srv EXCEPT ![s].committed = srv[voter].committed]
    /\ UNCHANGED <<client, net, changes, faults>>

\* on_follower: a leader that steps down forgets the queries that wait.
StepDown(s) ==
    /\ srv[s].queue # <<>> /\ Fault
    /\ srv' = [srv EXCEPT ![s].queue = <<>>]
    /\ UNCHANGED <<client, net, changes>>

\* A session that times out (on_session_removed), or a server that restarts
SessionEnds(s) ==
    /\ Fault
    /\ srv' = [srv EXCEPT ![s] = [applied |-> srv[s].applied, committed |-> 0, queue |-> <<>>,
                                  subs |-> {}]]
    /\ UNCHANGED <<client, net, changes>>

AnswerAtOnce(m) ==
    LET e == srv[m.to]
    IN  /\ m.type = "Query" /\ net' = (net \ {m}) \cup {AnswerTo(e, id) : id \in ToSet(m.ids)}
        /\ UNCHANGED <<srv, client, changes, faults>>

\* handle_query_request: a query that is early waits, others are answered.
HandleQuery(m) ==
    LET e     == srv[m.to]
        early == {id \in ToSet(m.ids) : client.query[id].after > e.committed}
    IN  /\ m.type = "Query"
        /\ srv' = [srv EXCEPT ![m.to].queue = e.queue \o Those(m.ids, early)]
        /\ net' = (net \ {m}) \cup {AnswerTo(e, id) : id \in ToSet(m.ids) \ early}
        /\ UNCHANGED <<client, changes, faults>>

\* handle_subscription_request: a request without subscriptions changes nothing.
HandleSubscribe(m) ==
    /\ m.type = "Subscribe"
    /\ srv' = IF m.subs = {} THEN srv ELSE [srv EXCEPT ![m.to].subs = m.subs]
    /\ net' = net \ {m}
    /\ UNCHANGED <<client, changes, faults>>

SubscriptionTimesOutIfKnown(s) ==
    /\ srv[s].subs # {} /\ client.server # s
    /\ srv' = [srv EXCEPT ![s].subs = {}]
    /\ UNCHANGED <<client, net, changes, faults>>

\* handle_subscription_timeout: the client has not renewed its subscriptions.
SubscriptionTimesOut(s) ==
    /\ srv[s].subs # {} /\ (client.server # s \/ client.subs = {})
    /\ srv' = [srv EXCEPT ![s].subs = {}]
    /\ UNCHANGED <<client, net, changes, faults>>

-----------------------------------------------------------------------------
(* The client. *)

Queries(c, state) == {q \in Query : c.query[q].state = state}

QueueLen(c) == Cardinality(Queries(c, "pending") \cup Queries(c, "sent") \cup Queries(c, "due"))

SetState(c, Q, state) ==
    [c EXCEPT !.query = [q \in Query |-> IF q \in Q THEN [c.query[q] EXCEPT !.state = state]
                                                     ELSE c.query[q]]]

CheckFlowAtLock(c) ==
    [c EXCEPT !.locked = IF c.locked THEN QueueLen(c) >= UnlockCapacity
                                     ELSE QueueLen(c) >= LockCapacity]

\* check_flow
CheckFlow(c) ==
    [c EXCEPT !.locked = IF c.locked THEN QueueLen(c) > UnlockCapacity
                                     ELSE QueueLen(c) >= LockCapacity]

\* on_server_disconnected: all that was sent is due, and so are the subscriptions.
Disconnected(c) ==
    IF c.server = NoServer THEN c
    ELSE [SetState(c, Queries(c, "sent"), "due") EXCEPT !.server = NoServer, !.resubscribe = TRUE]

\* The first n of a set of queries: they are asked, and sent, in the order of their ids.
FirstOf(Q, n) == {q \in Q : Cardinality({r \in Q : r <= q}) <= n}

\* create_request: pending queries first, ...
PendingBatch(c) == FirstOf(Queries(c, "pending"), MaxBatch)

NoDueBatch(c) == {}

\* ... then those that are due, up to the batch size.
DueBatch(c) == FirstOf(Queries(c, "due"), MaxBatch - Cardinality(PendingBatch(c)))

Batch(c) == InOrder(PendingBatch(c)) \o InOrder(DueBatch(c))

\* The client publishes, which is all that happens of it here.
Publish ==
    /\ client.published < MaxMessage
    /\ client' = [client EXCEPT !.published = client.published + 1]
    /\ UNCHANGED <<srv, net, changes, faults>>

NewQueryAfterNext == [after |-> client.published + 1, state |-> "pending"]

NewQuery == [after |-> client.published, state |-> "pending"]

\* query
Ask(q) ==
    /\ {r \in 1 .. q : client.query[r].state = "none"} = {q} /\ ~client.locked
    /\ client' = CheckFlow([client EXCEPT !.query[q] = NewQuery])
    /\ UNCHANGED <<srv, net, changes, faults>>

\* subscribe, unsubscribe
ChangeSubscription(x) ==
    /\ changes < MaxChanges /\ changes' = changes + 1
    /\ client' = [client EXCEPT !.resubscribe = TRUE,
                      !.subs = IF x \in client.subs THEN client.subs \ {x} ELSE client.subs \cup {x}]
    /\ UNCHANGED <<srv, net, faults>>

\* process
Process ==
    LET batch == PendingBatch(client) \cup DueBatch(client)
    IN  /\ client.server # NoServer /\ batch # {}
        /\ client' = SetState(client, batch, "sent")
        /\ net' = net \cup {[type |-> "Query", to |-> client.server, ids |-> Batch(client)]}
        /\ UNCHANGED <<srv, changes, faults>>

\* request_heartbeat, ensure_message_sender: to any server, once the leader is connected.
Connect(s) ==
    /\ client.leader /\ client.server = NoServer
    /\ client' = [client EXCEPT !.server = s]
    /\ UNCHANGED <<srv, net, changes, faults>>

\* resubscribe, when subscriptions are to be sent again or by its timer
Resubscribe ==
    /\ client.server # NoServer
    /\ client.resubscribe \/ srv[client.server].subs # client.subs
    /\ client' = [client EXCEPT !.resubscribe = FALSE]
    /\ net' = net \cup {[type |-> "Subscribe", to |-> client.server, subs |-> client.subs]}
    /\ UNCHANGED <<srv, changes, faults>>

\* handle_server_timeout, handle_failed_response: what is under way is lost or is late.
LoseServer ==
    /\ client.server # NoServer /\ Fault
    /\ client' = Disconnected(client)
    /\ net' \in {net, {}}
    /\ UNCHANGED <<srv, changes>>

\* on_leader_disconnected: the connection for queries goes with it.
LoseLeader ==
    /\ client.leader /\ Fault
    /\ client' = [Disconnected(client) EXCEPT !.leader = FALSE]
    /\ UNCHANGED <<srv, net, changes>>

ConnectLeader ==
    /\ ~client.leader
    /\ client' = [client EXCEPT !.leader = TRUE]
    /\ UNCHANGED <<srv, net, changes, faults>>

\* The resend period of a query ends: it was lost, or takes long.
UnderWay(q) ==
    \/ \E m \in net : (m.type = "Query" /\ q \in ToSet(m.ids)) \/ (m.type = "Answer" /\ q = m.id)
    \/ \E s \in Server : q \in ToSet(srv[s].queue)

ResendTimeout(q) ==
    /\ client.query[q].state = "sent"
    /\ IF UnderWay(q) THEN Fault ELSE UNCHANGED faults
    /\ client' = SetState(client, {q}, "due")
    /\ UNCHANGED <<srv, net, changes>>

\* handle_query_response: on_query is called for a query that is sent and not answered.
HandleAnswer(m) ==
    /\ m.type = "Answer"
    /\ client' = IF client.query[m.id].state \in {"sent", "due"}
                 THEN CheckFlow(SetState(client, {m.id}, "answered")) ELSE client
    /\ net' = net \ {m}
    /\ UNCHANGED <<srv, changes, faults>>

-----------------------------------------------------------------------------
Init ==
    /\ srv = [s \in Server |-> [applied |-> 0, committed |-> 0, queue |-> <<>>, subs |-> {}]]
    /\ client = [published |-> 0, leader |-> FALSE, server |-> NoServer,
                 query |-> [q \in Query |-> [after |-> 0, state |-> "none"]], locked |-> FALSE,
                 subs |-> {}, resubscribe |-> FALSE]
    /\ net = {}
    /\ changes = 0 /\ faults = 0

Next ==
    \/ \E s \in Server :
        \/ Apply(s) \/ StepDown(s) \/ SessionEnds(s) \/ SubscriptionTimesOut(s) \/ Connect(s)
        \/ \E voter \in Server : LearnCommitted(s, voter)
    \/ \E m \in net : HandleQuery(m) \/ HandleSubscribe(m) \/ HandleAnswer(m)
    \/ \E q \in Query : Ask(q) \/ ResendTimeout(q)
    \/ \E x \in Subscription : ChangeSubscription(x)
    \/ Publish \/ Process \/ Resubscribe \/ LoseServer \/ LoseLeader \/ ConnectLeader

Spec == Init /\ [][Next]_vars

-----------------------------------------------------------------------------
(***************************************************************************)
(* A new leader that learns what is committed applies all of it, and that  *)
(* before a query reaches it.  The code does not see to it                 *)
(* (replication.rs:838 raises the committed id alone).                     *)
(***************************************************************************)
AppliedLeaders ==
    /\ \A m \in net \ net' : m.type = "Query" => srv[m.to].committed <= srv[m.to].applied
    /\ \A s \in Server : \/ srv'[s].applied = srv[s].applied
                         \/ srv'[s].committed <= srv'[s].applied

(***************************************************************************)
(* A query sees every message that its client published before it,         *)
(* whichever server answers it and however often it was sent.  It needs    *)
(* AppliedLeaders.                                                         *)
(***************************************************************************)
ReadsOwnWrites ==
    \A m \in net : m.type = "Answer" => m.seen >= client.query[m.id].after

(***************************************************************************)
(* Queries are held back exactly while there are too many: from the lock   *)
(* capacity on until no more than the unlock capacity is left.             *)
(***************************************************************************)
FlowFollowsQueue ==
    /\ client.locked => QueueLen(client) > UnlockCapacity
    /\ ~client.locked => QueueLen(client) < LockCapacity

-----------------------------------------------------------------------------
(***************************************************************************)
(* The event loops run, timers fire, what is not lost arrives, the servers *)
(* commit what is published, and the client finds its leader again.        *)
(***************************************************************************)
HandleQueries    == \E m \in net : HandleQuery(m)
HandleSubscribes == \E m \in net : HandleSubscribe(m)
HandleAnswers    == \E m \in net : HandleAnswer(m)
ResendTimeouts   == \E q \in Query : ~UnderWay(q) /\ ResendTimeout(q)
ConnectAny       == \E s \in Server : Connect(s)

Fairness ==
    /\ WF_vars(HandleQueries) /\ WF_vars(HandleSubscribes) /\ WF_vars(HandleAnswers)
    /\ WF_vars(Process) /\ WF_vars(Resubscribe) /\ WF_vars(ResendTimeouts)
    /\ WF_vars(ConnectAny) /\ WF_vars(ConnectLeader)
    /\ \A s \in Server : WF_vars(Apply(s)) /\ WF_vars(SubscriptionTimesOut(s))

FairSpec == Spec /\ Fairness

(***************************************************************************)
(* Every query is answered in the end: early ones are not forgotten, and   *)
(* what a broken connection or a leader that steps down has lost is asked  *)
(* again.                                                                  *)
(***************************************************************************)
EveryQueryAnswered ==
    \A q \in Query : client.query[q].state # "none" ~> client.query[q].state = "answered"

(***************************************************************************)
(* A server that the client stays with comes to have its subscriptions,    *)
(* the withdrawal of the last one included, though no request carries it.  *)
(***************************************************************************)
SubscriptionsFollow ==
    \A s \in Server : <>[](client.server = s) => <>[](srv[s].subs = client.subs)
=============================================================================
