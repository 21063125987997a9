--------------------------- MODULE PublishSession ---------------------------
(***************************************************************************)
(* The publications of one client, from its queue to the committed log:    *)
(*   src/src/artos/client/publish.rs                PublishProtocolImpl    *)
(*   src/src/artos/client/channel.rs, flow/blocking.rs                     *)
(*   src/src/artos/server/replication/session.rs    ClientSession          *)
(*   src/src/artos/server/replication/replication.rs  the requests of      *)
(*       clients, local_commit, apply_transient_state                      *)
(* A handler of the client or of a server is one step.  A message is its   *)
(* id; the queue of the client holds the ids committed + 1 .. next - 1.    *)
(*                                                                         *)
(* Elections and replication are taken as their contracts: a leader of a   *)
(* new term has a log not older than those of a majority, a follower       *)
(* copies its leader's log, and what a majority has copied is committed.   *)
(* A session that does not exist and a new one are the same: all zero.     *)
(* The group does not change, so that a request for the configuration is a *)
(* heartbeat.                                                              *)
(***************************************************************************)
EXTENDS Integers, FiniteSets, SequencesExt

CONSTANTS Server,          \* the servers of the group
          NoServer,        \* no leader known
          MaxBatch,        \* messages that fit into max_batch_size
          LockCapacity,    \* lock_queue_capacity
          UnlockCapacity,  \* unlock_queue_capacity
          MaxMessage,      \* bound: messages the client publishes
          MaxTerm,         \* bound: no leader is elected in a term above it
          MaxFaults        \* bound: lost connections, leaders that give up, lost sessions

ASSUME PublishSessionAssumption ==
    /\ IsFiniteSet(Server) /\ Server # {} /\ NoServer \notin Server
    /\ {MaxBatch, LockCapacity} \subseteq Nat \ {0}
    /\ UnlockCapacity \in 0 .. LockCapacity - 1
    /\ {MaxMessage, MaxTerm, MaxFaults} \subseteq Nat

VARIABLES srv,       \* srv[s]: the state of server s
          client,    \* the client
          net,       \* requests and responses of the client under way
          faults     \* the faults so far

vars == <<srv, client, net, faults>>

Id   == 0 .. MaxMessage      \* 0: none
Term == 0 .. MaxTerm

\* A log entry; id 0 for the configuration a first leader adds.
Entry == [term : Term, id : Id]

\* ClientSession: ids of the client's messages, as this server has seen them
Session == [received : Id, committed : Id, outOfOrder : BOOLEAN]

\* leader: leader_id
ServerState == [leads : BOOLEAN, term : Term, leader : Server \cup {NoServer},
                log : Seq(Entry), commit : Nat, session : Session]

\* link: no message sender, or one without or with a request in progress.
\* lock: the counter callers of publish wait on (SingleFlowLocker).
Client == [next : Id \cup {MaxMessage + 1}, sent : Id, committed : Id,
           leader : Server \cup {NoServer}, link : {"down", "idle", "busy"},
           locked : BOOLEAN, lock : Nat]

\* ids: the messages of a publication; sent: last_sent_message_id of a restart.
Request == [type : {"Publish", "Restart"}, to : Server, ids : Seq(Id), sent : Id]
Response == [type : {"Response"}, from : Server, accepted : BOOLEAN,
             leader : Server \cup {NoServer}, session : Session]

TypeOK ==
    /\ srv \in [Server -> ServerState]
    /\ client \in Client
    /\ net \subseteq (Request \cup Response)
    /\ faults \in 0 .. MaxFaults

-----------------------------------------------------------------------------
(* ClientSession. *)

NewSession == [received |-> 0, committed |-> 0, outOfOrder |-> FALSE]

\* receive: the message that is next in order is taken.
Receive(session, id) ==
    CASE id = session.received + 1 -> [session EXCEPT !.received = id, !.outOfOrder = FALSE]
      [] id > session.received + 1 -> [session EXCEPT !.outOfOrder = TRUE]
      [] OTHER -> session

\* commit
CommitId(session, id) ==
    LET committed == Max({session.committed, id})
    IN  IF session.received < committed
        THEN [received |-> committed, committed |-> committed, outOfOrder |-> FALSE]
        ELSE [session EXCEPT !.committed = committed]

-----------------------------------------------------------------------------
(* The log of a server. *)

\* The ids of its entries, in order
IdsOf(log) ==
    LET ids[n \in 0 .. Len(log)] == IF n = 0 THEN <<>>
                                    ELSE IF log[n].id = 0 THEN ids[n - 1]
                                    ELSE Append(ids[n - 1], log[n].id)
    IN  ids[Len(log)]

CommitEntry(session, x) == IF x.id = 0 THEN session ELSE CommitId(session, x.id)

\* local_commit: up to index n, or to the end of the log
LocalCommit(e, n) ==
    LET last == Min({n, Len(e.log)})
    IN  IF last <= e.commit THEN e
        ELSE [e EXCEPT !.commit = last,
                       !.session = FoldLeft(CommitEntry, e.session,
                                            SubSeq(e.log, e.commit + 1, last))]

\* What the voters know to be committed is so here.
RaiseCommitted(e, voters) ==
    LET known == Max({v.session.committed : v \in voters \cup {e}})
    IN  IF e.session.committed < known
        THEN [e EXCEPT !.session = CommitId(e.session, known)] ELSE e

\* apply_transient_state of the voters: what they know to be committed; then the last
\* message in the log after the least commit index counts as received.
ApplyTransientState(e, voters) ==
    LET raised == RaiseCommitted(e, voters)
        least  == Min({v.commit : v \in voters \cup {e}})
        after  == {i \in least + 1 .. Len(e.log) : e.log[i].id # 0}
    IN  IF after = {} THEN raised
        ELSE [raised EXCEPT !.session.received = e.log[Max(after)].id]

LastTerm(log) == IF log = <<>> THEN 0 ELSE Last(log).term

IsMajority(Q) == 2 * Cardinality(Q) > Cardinality(Server)

-----------------------------------------------------------------------------
(* The servers.  Elections and replication, by contract: *)

\* s is elected in a new term by a majority Q, itself included.
Elect(s, Q) ==
    LET t == 1 + Max({srv[q].term : q \in Q})
        e == ApplyTransientState([srv[s] EXCEPT !.leads = TRUE, !.term = t, !.leader = s],
                                 {srv[q] : q \in Q \ {s}})
        first == [term |-> t, id |-> 0]
    IN  /\ s \in Q /\ ~srv[s].leads /\ t <= MaxTerm
        /\ IsMajority(Q) /\ \A q \in Q : ~IsMajority(Q \ {q})
        /\ \A q \in Q : \/ LastTerm(srv[s].log) > LastTerm(srv[q].log)
                        \/ /\ LastTerm(srv[s].log) = LastTerm(srv[q].log)
                           /\ Len(srv[s].log) >= Len(srv[q].log)
        /\ srv' = [q \in Server |->
                      IF q = s THEN IF e.commit = 0 THEN [e EXCEPT !.log = Append(e.log, first)]
                                                    ELSE e
                      ELSE IF q \in Q THEN [srv[q] EXCEPT !.leads = FALSE, !.term = t]
                      ELSE srv[q]]
        /\ UNCHANGED <<client, net, faults>>

\* f copies the log of the leader s and commits as far as it knows s to have committed.
Replicate(s, f) ==
    LET e == [srv[f] EXCEPT !.leads = FALSE, !.term = srv[s].term, !.leader = s,
                            !.log = srv[s].log]
    IN  /\ s # f /\ srv[s].leads /\ srv[f].term <= srv[s].term
        /\ srv' = [srv EXCEPT ![f] = LocalCommit(e, srv[s].commit)]
        /\ UNCHANGED <<client, net, faults>>

\* A leader commits what a majority has copied in its term.
Commit(s) ==
    LET has(i) == {q \in Server : /\ srv[q].term = srv[s].term /\ i <= Len(srv[q].log)
                                  /\ SubSeq(srv[s].log, 1, i) = SubSeq(srv[q].log, 1, i)}
    IN  /\ srv[s].leads
        /\ \E i \in srv[s].commit + 1 .. Len(srv[s].log) :
              /\ IsMajority(has(i))
              /\ srv' = [srv EXCEPT ![s] = LocalCommit(srv[s], i)]
        /\ UNCHANGED <<client, net, faults>>

\* A leader that has lost its peers becomes a follower; leader_id stays.
StepDown(s) ==
    /\ srv[s].leads /\ faults < MaxFaults /\ faults' = faults + 1
    /\ srv' = [srv EXCEPT ![s].leads = FALSE]
    /\ UNCHANGED <<client, net>>

\* check_timed_out_sessions
SessionTimesOut(s) ==
    /\ srv[s].session # NewSession /\ faults < MaxFaults /\ faults' = faults + 1
    /\ srv' = [srv EXCEPT ![s].session = NewSession]
    /\ UNCHANGED <<client, net>>

\* The answer of a server in state e: that of a follower carries no session.
Answer(s, e, accepted) ==
    [type |-> "Response", from |-> s, accepted |-> accepted, leader |-> e.leader,
     session |-> IF accepted THEN e.session ELSE NewSession]

\* A leader appends the message if its session receives it.
Take(e, id) ==
    LET session == Receive(e.session, id)
    IN  [e EXCEPT !.session = session,
                  !.log = IF session.received = e.session.received THEN e.log
                          ELSE Append(e.log, [term |-> e.term, id |-> id])]

\* handle_publish_request of a leader; an empty request is a heartbeat, and
\* handle_configuration_request does the same.
Publication(e, m) == FoldLeft(Take, e, m.ids)

\* handle_restart_session_request of a leader
Restart(e, m) == [e EXCEPT !.session.received = m.sent, !.session.outOfOrder = FALSE]

HandleRequest(m) ==
    LET s == m.to
        e == IF m.type = "Publish" THEN Publication(srv[s], m) ELSE Restart(srv[s], m)
    IN  /\ m.type \in {"Publish", "Restart"}
        /\ IF srv[s].leads
           THEN /\ srv' = [srv EXCEPT ![s] = e]
                /\ net' = (net \ {m}) \cup {Answer(s, e, TRUE)}
           ELSE /\ net' = (net \ {m}) \cup {Answer(s, srv[s], FALSE)}
                /\ UNCHANGED srv
        /\ UNCHANGED <<client, faults>>

-----------------------------------------------------------------------------
(* The client. *)

QueueLen(c) == c.next - 1 - c.committed

CheckFlowUnasked(c) ==
    CASE QueueLen(c) >= LockCapacity -> [c EXCEPT !.locked = TRUE, !.lock = c.lock + 1]
      [] QueueLen(c) <= UnlockCapacity -> [c EXCEPT !.locked = FALSE, !.lock = c.lock - 1]
      [] OTHER -> c

CheckFlowAtLock(c) ==
    IF ~c.locked /\ QueueLen(c) >= LockCapacity THEN [c EXCEPT !.locked = TRUE, !.lock = c.lock + 1]
    ELSE IF c.locked /\ QueueLen(c) < UnlockCapacity
    THEN [c EXCEPT !.locked = FALSE, !.lock = c.lock - 1]
    ELSE c

\* check_flow
CheckFlow(c) ==
    CASE ~c.locked /\ QueueLen(c) >= LockCapacity ->
             [c EXCEPT !.locked = TRUE, !.lock = c.lock + 1]
      [] c.locked /\ QueueLen(c) <= UnlockCapacity ->
             [c EXCEPT !.locked = FALSE, !.lock = c.lock - 1]
      [] OTHER -> c

\* remove_committed_entries: what is committed leaves the queue one by one.
ReportFirst(c, id) == CheckFlow([c EXCEPT !.committed = id, !.sent = Max({c.sent, id})])

RemoveCommitted(c, id) ==
    FoldLeft(ReportFirst, c,
             [i \in 1 .. Min({id, c.next - 1}) - c.committed |-> c.committed + i])

\* on_leader_disconnected
Disconnected(c) ==
    IF c.leader = NoServer THEN c
    ELSE [c EXCEPT !.leader = NoServer, !.link = "down", !.sent = c.committed]

\* ensure_message_sender: to the leader it was told of, or to any server.
Connected(c, s) ==
    IF c.link = "down" THEN [c EXCEPT !.leader = s, !.link = "busy"] ELSE [c EXCEPT !.link = "busy"]

Candidates(c) == IF c.leader = NoServer THEN Server ELSE {c.leader}

\* create_request: what is in the queue beyond the last message sent, up to the batch size.
Batch(c) == [i \in 1 .. Min({MaxBatch, c.next - 1 - c.sent}) |-> c.sent + i]

PublishRequest(s, ids) == [type |-> "Publish", to |-> s, ids |-> ids, sent |-> 0]

\* publish: called before the flow was locked, or when it is not.
Publish ==
    /\ client.next <= MaxMessage
    /\ client' = CheckFlow([client EXCEPT !.next = client.next + 1])
    /\ UNCHANGED <<srv, net, faults>>

\* process: the event loop calls it before it looks at the timers.
Process ==
    /\ client.link = "idle" /\ Batch(client) # <<>>
    /\ client' = [client EXCEPT !.link = "busy"]
    /\ net' = net \cup {PublishRequest(client.leader, Batch(client))}
    /\ UNCHANGED <<srv, faults>>

\* request_heartbeat, request_configuration_update
Heartbeat ==
    /\ client.link = "down" \/ (client.link = "idle" /\ Batch(client) = <<>>)
    /\ \E s \in Candidates(client) :
        /\ client' = Connected(client, s)
        /\ net' = net \cup {PublishRequest(s, <<>>)}
    /\ UNCHANGED <<srv, faults>>

\* handle_failed_response, or the leader timeout before a late answer: what is under way
\* is lost or still arrives.
LoseConnection ==
    /\ client.link # "down" /\ faults < MaxFaults /\ faults' = faults + 1
    /\ client' = Disconnected(client)
    /\ net' \in {net, {}}
    /\ UNCHANGED srv

\* handle_leader_timeout: no accepted answer has come, and none will.
LeaderTimeout ==
    /\ client.link # "down" /\ ~srv[client.leader].leads
    /\ \A m \in net : m.type = "Response" => ~m.accepted
    /\ client' = Disconnected(client)
    /\ UNCHANGED <<srv, net, faults>>

\* handle_succeeded_response: any answer ends the request in progress.
AfterResponse == IF client.link = "busy" THEN [client EXCEPT !.link = "idle"] ELSE client

\* A response of another server than the one the client is at
IgnoredResponse(m) ==
    /\ m.from # client.leader
    /\ client' = AfterResponse
    /\ net' = net \ {m}

\* A server that does not lead, and may know who does
RejectedResponse(m) ==
    LET c == Disconnected(AfterResponse)
    IN  /\ m.from = client.leader /\ ~m.accepted
        /\ client' = IF m.leader = client.leader THEN AfterResponse
                     ELSE [c EXCEPT !.leader = m.leader]
        /\ net' = net \ {m}

\* The server has lost the session: the client asks for one that goes on where it is.
LostSession(m) == m.session.outOfOrder /\ m.session.received = 0 /\ client.committed > 0

RestartResponse(m) ==
    LET c == Connected(AfterResponse, m.from)
    IN  /\ m.from = client.leader /\ m.accepted /\ LostSession(m)
        /\ client' = RemoveCommitted(c, m.session.committed)
        /\ net' = (net \ {m}) \cup {[type |-> "Restart", to |-> m.from, ids |-> <<>>,
                                     sent |-> c.sent]}

\* handle_accepted_publish_response.  An answer out of order that is behind what was
\* committed meets the assertion, and the client panics (see AnswersNotBehind).
AcceptedResponse(m) ==
    LET c == IF m.session.outOfOrder THEN [AfterResponse EXCEPT !.sent = m.session.received]
                                     ELSE AfterResponse
    IN  /\ m.from = client.leader /\ m.accepted /\ ~LostSession(m)
        /\ m.session.outOfOrder => m.session.received >= client.committed
        /\ client' = RemoveCommitted(c, m.session.committed)
        /\ net' = net \ {m}

HandleResponse(m) ==
    /\ m.type = "Response"
    /\ IgnoredResponse(m) \/ RejectedResponse(m) \/ RestartResponse(m) \/ AcceptedResponse(m)
    /\ UNCHANGED <<srv, faults>>

-----------------------------------------------------------------------------
Init ==
    /\ srv = [s \in Server |-> [leads |-> FALSE, term |-> 0, leader |-> NoServer, log |-> <<>>,
                                commit |-> 0, session |-> NewSession]]
    /\ client = [next |-> 1, sent |-> 0, committed |-> 0, leader |-> NoServer, link |-> "down",
                 locked |-> FALSE, lock |-> 0]
    /\ net = {}
    /\ faults = 0

Next ==
    \/ \E s \in Server :
        \/ \E Q \in SUBSET Server : Elect(s, Q)
        \/ \E f \in Server : Replicate(s, f)
        \/ Commit(s) \/ StepDown(s) \/ SessionTimesOut(s)
    \/ \E m \in net : HandleRequest(m) \/ HandleResponse(m)
    \/ Publish \/ Process \/ Heartbeat \/ LoseConnection \/ LeaderTimeout

Spec == Init /\ [][Next]_vars

-----------------------------------------------------------------------------
(***************************************************************************)
(* The whole of it implements Delivery: messages are committed once each   *)
(* and in order, none is taken back, and the client is told of a commit    *)
(* only after it.                                                          *)
(***************************************************************************)
Delivered ==
    LET s == CHOOSE s \in Server : \A q \in Server : srv[q].commit <= srv[s].commit
    IN  IdsOf(SubSeq(srv[s].log, 1, srv[s].commit))

Promise == INSTANCE Delivery WITH published <- client.next - 1, delivered <- Delivered,
                                  reported <- client.committed

DeliversOnce == Promise!Spec

(***************************************************************************)
(* What DeliversOnce asks of the steps (README, "Findings").  Of elections *)
(* and replication: servers agree on what they have committed and keep it, *)
(* and whoever is elected has it.                                          *)
(***************************************************************************)
CommittedAgrees ==
    \A s, q \in Server : \A i \in 1 .. srv[s].commit \cap 1 .. srv[q].commit :
        srv[s].log[i] = srv[q].log[i]

CommittedStays ==
    \A s \in Server : \A i \in 1 .. srv[s].commit :
        i <= Len(srv'[s].log) /\ srv'[s].log[i] = srv[s].log[i]

Elected(s) == ~srv[s].leads /\ srv'[s].leads

ElectedHasCommitted ==
    \A s \in Server : Elected(s) =>
        \A q \in Server : \A i \in 1 .. srv[q].commit :
            i <= Len(srv[s].log) /\ srv[s].log[i] = srv[q].log[i]

ReplicationKeeps == CommittedAgrees' /\ CommittedStays /\ ElectedHasCommitted

\* The last message in a log
LastId(log) == Max({0} \cup {log[i].id : i \in DOMAIN log})

(***************************************************************************)
(* Of the sessions: a server that is elected has neither received what its *)
(* log has lost meanwhile, nor forgotten what it has committed, ...        *)
(***************************************************************************)
SessionFitsLog(e) ==
    /\ e.session.received <= LastId(e.log)
    /\ \A i \in 1 .. e.commit : e.log[i].id <= e.session.committed

ElectedFit == \A s \in Server : Elected(s) => SessionFitsLog(srv[s])

(***************************************************************************)
(* ... no session times out at a leader before all that it has received is *)
(* committed and the first message is reported, ...                        *)
(***************************************************************************)
FirstReported ==
    client.committed > 0 /\ \A m \in net : m.type = "Publish" => \A i \in DOMAIN m.ids : m.ids[i] # 1

TimeoutsAreLate ==
    \A s \in Server : srv[s].leads /\ SessionTimesOut(s) =>
        FirstReported /\ \A i \in srv[s].commit + 1 .. Len(srv[s].log) : srv[s].log[i].id = 0

(***************************************************************************)
(* ... and a session starts again where the log of the leader ends.        *)
(***************************************************************************)
RestartsGoOn ==
    \A m \in net : m.type = "Restart" /\ srv[m.to].leads /\ HandleRequest(m)
                    => m.sent = LastId(srv[m.to].log)

Calm == ReplicationKeeps /\ ElectedFit /\ TimeoutsAreLate /\ RestartsGoOn

(***************************************************************************)
(* The lock on the flow of publications is held once or not at all, and    *)
(* follows the queue: never held with a queue at the lower bound, never    *)
(* free with one at the upper.                                             *)
(***************************************************************************)
FlowFollowsQueue ==
    /\ client.lock = IF client.locked THEN 1 ELSE 0
    /\ client.locked => QueueLen(client) > UnlockCapacity
    /\ ~client.locked => QueueLen(client) < LockCapacity

(***************************************************************************)
(* An answer out of order that the client looks at says that the session   *)
(* is new, or is not behind what the client knows to be committed: the     *)
(* assertion of handle_accepted_publish_response (publish.rs:297).         *)
(***************************************************************************)
AnswersNotBehind ==
    \A m \in net :
        (m.type = "Response" /\ m.from = client.leader /\ m.accepted /\ m.session.outOfOrder)
        => LostSession(m) \/ m.session.received >= client.committed

=============================================================================
