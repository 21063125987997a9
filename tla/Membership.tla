----------------------------- MODULE Membership -----------------------------
(***************************************************************************)
(* Who belongs to the group: servers join and leave it, and are removed:   *)
(*   src/src/artos/server/membership/membership.rs   MembershipProtocolImpl *)
(*   src/src/artos/server/membership/join.rs         JoinGroupProtocolImpl  *)
(*   src/src/artos/server/membership/leave.rs        LeaveGroupProtocolImpl *)
(*   src/src/artos/server/client/follower.rs         FollowerMessageSender  *)
(* A leader uses a configuration once it is in its log, others once it is  *)
(* committed.  A handler is one step; elections, replication and state     *)
(* transfers are here by contract, as Election and Replication show them.  *)
(*                                                                         *)
(* Persistent are the term, the log, the commit index and the              *)
(* configuration in the state machine.                                     *)
(***************************************************************************)
EXTENDS Integers, FiniteSets, SequencesExt

CONSTANTS Server, NoServer,
          First,         \* the servers of the group when it is watched first
          FirstLeader,   \* the one that leads it then
          MinGap,        \* min_state_transfer_gap_log_entry_count
          MaxAttempts,   \* leave_group_attempt_count
          MaxTerm,       \* bound: term
          MaxLog,        \* bound: entries of a log
          MaxCalls,      \* bound: calls of leave_group and graceful_close
          MaxFaults      \* bound: what breaks: connections, servers, leaders

ASSUME MembershipAssumption ==
    /\ IsFiniteSet(Server) /\ NoServer \notin Server
    /\ First \subseteq Server /\ FirstLeader \in First /\ Cardinality(First) > 1
    /\ {MinGap, MaxAttempts} \subseteq Nat \ {0} /\ {MaxTerm, MaxLog} \subseteq Nat \ {0, 1}
    /\ {MaxCalls, MaxFaults} \subseteq Nat

VARIABLES srv, net, calls, faults

vars == <<srv, net, calls, faults>>

\* An entry that is no configuration has none.
Entry == [term : 1 .. MaxTerm, config : SUBSET Server]

\* saved: the configuration in the state machine; changing: configuration_changing;
\* catching: catching_up; join: whether the join group timer runs; attempt: that of the
\* leave group timer, 0 while it does not run; to: the leader_id of the two senders.
ServerState ==
    [leads : BOOLEAN, term : 1 .. MaxTerm, leader : Server \cup {NoServer},
     config : SUBSET Server, saved : SUBSET Server, log : Seq(Entry), commit : 0 .. MaxLog,
     changing : BOOLEAN, catching : BOOLEAN, locked : BOOLEAN,
     join : BOOLEAN, rewind : Nat \ {0}, transfer : 0 .. MaxLog,
     attempt : 0 .. MaxAttempts + 1, told : {"nothing", "left", "failed"},
     to : [{"Join", "Leave"} -> Server \cup {NoServer}]]

JoinRequest  == [type : {"Join"}, from : Server, to : Server, term : 0 .. MaxTerm, index : Nat]
LeaveRequest == [type : {"Leave"}, from : Server, to : Server]

\* transfer: where a state transfer is to start, if one is required.  A server that is
\* accepted and has not already joined is catching up.
JoinResponse  == [type : {"Joining"}, from : Server, to : Server, accepted : BOOLEAN,
                  leader : Server \cup {NoServer}, already : BOOLEAN, transfer : 0 .. MaxLog,
                  rewind : BOOLEAN]
LeaveResponse == [type : {"Leaving"}, from : Server, to : Server, accepted : BOOLEAN,
                  leader : Server \cup {NoServer}, already : BOOLEAN, config : SUBSET Server]

TypeOK ==
    /\ srv \in [Server -> ServerState]
    /\ net \subseteq (JoinRequest \cup LeaveRequest \cup JoinResponse \cup LeaveResponse)
    /\ calls \in 0 .. MaxCalls /\ faults \in 0 .. MaxFaults

Fault == faults < MaxFaults /\ faults' = faults + 1

-----------------------------------------------------------------------------
(* The configuration of a server.  e is what the handler makes of srv[s]. *)

Peers(e, s) == e.config \ {s}

MajorityOfPeers(e, s, Q) == 2 * Cardinality(Q) > Cardinality(Peers(e, s))

\* How many of the servers of e, s among them, decide
IsMajority(e, s, Q) == 2 * Cardinality(Q) > Cardinality(Peers(e, s)) + 1

\* on_left: whoever asked to leave is told.
OnLeft(e) ==
    [e EXCEPT !.attempt = 0, !.told = IF e.attempt > 0 THEN "left" ELSE e.told]

\* reconfigure_state
Reconfigure(e, s, config) ==
    LET left == s \in e.config \ config /\ ~e.catching
        f    == IF left THEN OnLeft(e) ELSE e
    IN  [f EXCEPT !.config = config, !.changing = FALSE]

\* commit_configuration, and write_configuration next to it
CommitConfiguration(e, s, config) ==
    LET f      == Reconfigure(e, s, config)
        joined == e.catching /\ s \in config
    IN  [f EXCEPT !.saved = config,
                  !.catching = IF joined THEN FALSE ELSE e.catching,
                  !.join = IF joined THEN FALSE ELSE e.join]

CommitEntry(e, s, x) == IF x.config = {} THEN e ELSE CommitConfiguration(e, s, x.config)

CommitEntries(e, s, entries) == FoldLeft(LAMBDA f, x : CommitEntry(f, s, x), e, entries)

\* local_commit: up to index n, or to the end of the log
LocalCommit(e, s, n) ==
    LET last == Min({n, Len(e.log)})
    IN  IF last <= e.commit THEN e
        ELSE [CommitEntries(e, s, SubSeq(e.log, e.commit + 1, last)) EXCEPT !.commit = last]

ChangeBeforeReconfigure(e, s, config) ==
    LET f == Reconfigure([e EXCEPT !.log = Append(e.log, [term |-> e.term, config |-> config]),
                                   !.changing = TRUE], s, config)
    IN  IF Peers(f, s) = {} THEN LocalCommit(f, s, Len(f.log)) ELSE f

\* The leader appends a configuration and uses it; without peers it commits it at once
\* (request_append_entries).
Change(e, s, config) ==
    LET f == [Reconfigure([e EXCEPT !.log = Append(e.log, [term |-> e.term, config |-> config])],
                          s, config) EXCEPT !.changing = TRUE]
    IN  IF Peers(f, s) = {} THEN LocalCommit(f, s, Len(f.log)) ELSE f

OnLeaderWithCommitted(e, s) ==
    LET f == [e EXCEPT !.leads = TRUE, !.leader = s, !.join = FALSE]
    IN  IF Peers(f, s) = {} THEN LocalCommit(f, s, Len(f.log)) ELSE f

UseEntry(e, s, x) ==
    IF x.config = {} THEN e ELSE [Reconfigure(e, s, x.config) EXCEPT !.changing = TRUE]

UseEntries(e, s, entries) == FoldLeft(LAMBDA f, x : UseEntry(f, s, x), e, entries)

\* on_leader: a configuration that is not committed is in use again.
OnLeader(e, s) ==
    LET f == [e EXCEPT !.leads = TRUE, !.leader = s, !.join = FALSE]
        g == UseEntries(f, s, SubSeq(e.log, e.commit + 1, Len(e.log)))
    IN  IF Peers(g, s) = {} THEN LocalCommit(g, s, Len(g.log)) ELSE g

-----------------------------------------------------------------------------
(* Elections and replication, by contract *)

LastTerm(log) == IF log = <<>> THEN 0 ELSE Last(log).term

TermAt(log, i) == IF i = 0 THEN 0 ELSE log[i].term

\* s is elected in a new term by Q, a majority of its own configuration; a server does not
\* vote for one that its configuration does not have.
Elect(s, Q) ==
    LET t == 1 + Max({srv[q].term : q \in Q \cup {s}})
    IN  /\ ~srv[s].leads /\ ~srv[s].catching /\ ~srv[s].locked /\ t <= MaxTerm
        /\ Q \subseteq Peers(srv[s], s) /\ IsMajority(srv[s], s, Q \cup {s})
        /\ \A q \in Q :
              /\ s \in srv[q].config
              /\ \/ LastTerm(srv[s].log) > LastTerm(srv[q].log)
                 \/ /\ LastTerm(srv[s].log) = LastTerm(srv[q].log)
                    /\ Len(srv[s].log) >= Len(srv[q].log)
        /\ srv' = [q \in Server |-> IF q = s THEN OnLeader([srv[s] EXCEPT !.term = t], s)
                                    ELSE IF q \in Q THEN [srv[q] EXCEPT !.leads = FALSE, !.term = t]
                                    ELSE srv[q]]
        /\ UNCHANGED <<net, calls, faults>>

\* A peer copies the log of the leader s, and commits what it knows s to have committed.
Replicate(s, f) ==
    LET e == [srv[f] EXCEPT !.leads = FALSE, !.term = srv[s].term, !.leader = s,
                            !.log = srv[s].log]
    IN  /\ srv[s].leads /\ f \in Peers(srv[s], s) /\ srv[f].term <= srv[s].term
        /\ s \in srv[f].config
        /\ srv' = [srv EXCEPT ![f] = LocalCommit(e, f, srv[s].commit)]
        /\ UNCHANGED <<net, calls, faults>>

\* Those of the leader's configuration that have copied its log up to i in its term
Matched(s, i) ==
    {q \in Peers(srv[s], s) \cup {s} :
        /\ srv[q].term = srv[s].term /\ i <= Len(srv[q].log)
        /\ SubSeq(srv[q].log, 1, i) = SubSeq(srv[s].log, 1, i)}

Commit(s) ==
    /\ srv[s].leads
    /\ \E i \in srv[s].commit + 1 .. Len(srv[s].log) :
          /\ IsMajority(srv[s], s, Matched(s, i))
          /\ srv' = [srv EXCEPT ![s] = LocalCommit(srv[s], s, i)]
    /\ UNCHANGED <<net, calls, faults>>

\* A leader that has lost its peers; leader_id stays, and so does its configuration.
StepDown(s) ==
    /\ srv[s].leads /\ Fault
    /\ srv' = [srv EXCEPT ![s].leads = FALSE]
    /\ UNCHANGED <<net, calls>>

\* A server that its configuration does not have is catching up.  All start asking to join.
Restart(s) ==
    /\ Fault
    /\ srv' = [srv EXCEPT ![s] =
                  [@ EXCEPT !.leads = FALSE, !.leader = NoServer, !.config = srv[s].saved,
                            !.changing = FALSE, !.catching = s \notin srv[s].saved,
                            !.locked = FALSE, !.join = TRUE, !.rewind = 1, !.transfer = 0,
                            !.attempt = 0, !.to = [k \in {"Join", "Leave"} |-> NoServer]]]
    /\ net' = {m \in net : m.to # s}
    /\ UNCHANGED calls

-----------------------------------------------------------------------------
(* The sender of a server that asks for something (follower.rs) *)

\* ensure_leader_configuration: the leader that it knows, or any server that it knows.
Target(s, kind) ==
    LET known == IF srv[s].to[kind] = NoServer THEN srv[s].leader ELSE srv[s].to[kind]
    IN  IF known \in Peers(srv[s], s) THEN {known} ELSE Peers(srv[s], s)

\* handle_succeeded_response: one that is not the leader may know who is.
Redirect(e, m, kind) ==
    IF ~m.accepted /\ m.leader # m.from THEN [e EXCEPT !.to[kind] = m.leader] ELSE e

\* A request or its response is lost (handle_failed_response).
Lose(m) ==
    LET asker == IF m.type \in {"Join", "Leave"} THEN m.from ELSE m.to
        kind  == IF m.type \in {"Join", "Joining"} THEN "Join" ELSE "Leave"
    IN  /\ Fault
        /\ srv' = [srv EXCEPT ![asker].to[kind] = NoServer]
        /\ net' = net \ {m}
        /\ UNCHANGED calls

-----------------------------------------------------------------------------
(* To join *)

\* request_join_group: with the last entry, or an earlier one after a rewind
JoinTimer(s) ==
    LET e == srv[s]
        i == Len(e.log) + 1 - e.rewind
    IN  /\ e.join /\ i >= 0 /\ Cardinality(e.config) > 1
        /\ \E to \in Target(s, "Join") :
              /\ net' = net \cup {[type |-> "Join", from |-> s, to |-> to,
                                   term |-> TermAt(e.log, i), index |-> i]}
              /\ srv' = [srv EXCEPT ![s].to["Join"] = to]
        /\ UNCHANGED <<calls, faults>>

\* Whether the last entry of who wants to join is in the log of the leader
LogOk(s, m) ==
    m.index = 0 \/ (m.index <= Len(srv[s].log) /\ m.term = TermAt(srv[s].log, m.index))

\* handle_join_group_request
HandleJoin(m) ==
    LET s == m.to
        e == srv[s]
        answer == [type |-> "Joining", from |-> s, to |-> m.from, accepted |-> TRUE,
                   leader |-> e.leader, already |-> FALSE, transfer |-> 0, rewind |-> FALSE]
        send(r) == net' = (net \ {m}) \cup {r}
    IN  /\ m.type = "Join"
        /\ IF ~e.leads \/ e.changing
           THEN send([answer EXCEPT !.accepted = FALSE]) /\ UNCHANGED srv
           ELSE IF m.from \in e.config
           THEN send([answer EXCEPT !.already = TRUE]) /\ UNCHANGED srv
           ELSE IF ~LogOk(s, m)
           THEN send([answer EXCEPT !.rewind = TRUE]) /\ UNCHANGED srv
           ELSE IF Len(e.log) - m.index >= MinGap
           THEN send([answer EXCEPT !.transfer = m.index + 1]) /\ UNCHANGED srv
           ELSE /\ Len(e.log) < MaxLog
                /\ srv' = [srv EXCEPT ![s] = Change(e, s, e.config \cup {m.from})]
                /\ send(answer)
        /\ UNCHANGED <<calls, faults>>

\* handle_join_group_response
HandleJoining(m) ==
    LET s == m.to
        e == srv[s]
    IN  /\ m.type = "Joining"
        /\ srv' = [srv EXCEPT ![s] =
              IF ~m.accepted THEN Redirect(e, m, "Join")
              ELSE IF m.already
              THEN [e EXCEPT !.rewind = 1, !.catching = FALSE, !.join = FALSE]
              ELSE [e EXCEPT !.rewind = IF m.rewind THEN 2 * e.rewind ELSE 1,
                             !.catching = TRUE,
                             !.join = IF m.transfer > 0 THEN FALSE ELSE e.join,
                             !.transfer = IF m.transfer > 0 THEN m.transfer ELSE e.transfer]]
        /\ net' = net \ {m}
        /\ UNCHANGED <<calls, faults>>

\* A state transfer from the leader l writes its log over that of s, from an index at which it
\* may (the assertion of MemoryLogStore::write); then on_state_transfer_completed.
ApplyTransfer(s, l) ==
    LET e   == srv[s]
        log == SubSeq(e.log, 1, e.transfer - 1)
               \o SubSeq(srv[l].log, e.transfer, Len(srv[l].log))
    IN  /\ e.transfer \in 1 .. Min({Len(srv[l].log), Len(e.log) + 1}) /\ srv[l].leads /\ ~e.leads
        /\ srv' = [srv EXCEPT ![s].log = log \o SubSeq(e.log, Len(log) + 1, Len(e.log)),
                              ![s].transfer = 0, ![s].join = TRUE]
        /\ UNCHANGED <<net, calls, faults>>

-----------------------------------------------------------------------------
(* To leave *)

\* become_follower and lock_election
Resign(e) == [e EXCEPT !.leads = FALSE, !.locked = TRUE]

\* graceful_close
GracefulClose(s) ==
    /\ srv[s].leads /\ Peers(srv[s], s) # {} /\ calls < MaxCalls /\ calls' = calls + 1
    /\ srv' = [srv EXCEPT ![s] = Resign(srv[s])]
    /\ UNCHANGED <<net, faults>>

\* leave_group
LeaveGroup(s) ==
    LET e == IF srv[s].leads THEN Resign(srv[s]) ELSE srv[s]
    IN  /\ srv[s].attempt = 0 /\ calls < MaxCalls /\ calls' = calls + 1
        /\ srv' = [srv EXCEPT ![s] = IF Peers(srv[s], s) = {} THEN [srv[s] EXCEPT !.told = "failed"]
                                     ELSE [e EXCEPT !.attempt = 1, !.told = "nothing"]]
        /\ UNCHANGED <<net, faults>>

LeaveTimerOnceMore(s) ==
    /\ srv[s].attempt > 0
    /\ IF srv[s].attempt > MaxAttempts + 1
       THEN srv' = [srv EXCEPT ![s].attempt = 0, ![s].told = "failed"] /\ UNCHANGED net
       ELSE \E to \in Target(s, "Leave") :
               /\ net' = net \cup {[type |-> "Leave", from |-> s, to |-> to]}
               /\ srv' = [srv EXCEPT ![s].attempt = @ + 1, ![s].to["Leave"] = to]
    /\ UNCHANGED <<calls, faults>>

\* request_leave_group
LeaveTimer(s) ==
    /\ srv[s].attempt > 0
    /\ IF srv[s].attempt > MaxAttempts
       THEN srv' = [srv EXCEPT ![s].attempt = 0, ![s].told = "failed"] /\ UNCHANGED net
       ELSE \E to \in Target(s, "Leave") :
               /\ net' = net \cup {[type |-> "Leave", from |-> s, to |-> to]}
               /\ srv' = [srv EXCEPT ![s].attempt = @ + 1, ![s].to["Leave"] = to]
    /\ UNCHANGED <<calls, faults>>

\* handle_leave_group_request
HandleLeave(m) ==
    LET s == m.to
        e == srv[s]
        answer == [type |-> "Leaving", from |-> s, to |-> m.from, accepted |-> TRUE,
                   leader |-> e.leader, already |-> FALSE, config |-> {}]
        send(r) == net' = (net \ {m}) \cup {r}
    IN  /\ m.type = "Leave"
        /\ IF ~e.leads \/ e.changing
           THEN send([answer EXCEPT !.accepted = FALSE]) /\ UNCHANGED srv
           ELSE IF m.from \notin e.config
           THEN send([answer EXCEPT !.already = TRUE, !.config = e.config]) /\ UNCHANGED srv
           ELSE /\ Len(e.log) < MaxLog
                /\ srv' = [srv EXCEPT ![s] = Change(e, s, e.config \ {m.from})]
                /\ send(answer)
        /\ UNCHANGED <<calls, faults>>

HasLeftWhenAccepted(m, s) == m.accepted /\ s \notin m.config /\ s \in srv[s].config

\* Whether the response says that the server s, which believes to be in the group, is not
HasLeft(m, s) == m.accepted /\ m.already /\ s \notin m.config /\ s \in srv[s].config

\* handle_leave_group_response
HandleLeaving(m) ==
    LET s == m.to
        e == srv[s]
    IN  /\ m.type = "Leaving"
        /\ srv' = [srv EXCEPT ![s] =
              IF HasLeft(m, s) THEN [Reconfigure(e, s, m.config) EXCEPT !.saved = m.config]
              ELSE Redirect(e, m, "Leave")]
        /\ net' = net \ {m}
        /\ UNCHANGED <<calls, faults>>

\* handle_auto_leave_group_timeout: the peers Q have been silent for too long.
AutoLeave(s, Q) ==
    /\ srv[s].leads /\ ~srv[s].changing /\ Fault
    /\ Q # {} /\ Q \subseteq Peers(srv[s], s) /\ Len(srv[s].log) < MaxLog
    /\ srv' = [srv EXCEPT ![s] = Change(srv[s], s, srv[s].config \ Q)]
    /\ UNCHANGED <<net, calls>>

-----------------------------------------------------------------------------
\* The group works under its first leader; any other server starts, with an empty log or
\* an entry that nobody else has.
Init ==
    /\ \E others \in 0 .. 1, stale \in BOOLEAN :
          srv = [s \in Server |->
            LET in == s \in First
            IN  [leads |-> s = FirstLeader, term |-> IF in THEN 2 ELSE 1,
                 leader |-> IF in THEN FirstLeader ELSE NoServer, config |-> First, saved |-> First,
                 log |-> IF in
                         THEN <<[term |-> 2, config |-> First]>>
                              \o [i \in 1 .. others |-> [term |-> 2, config |-> {}]]
                         ELSE IF stale THEN <<[term |-> 1, config |-> {}]>> ELSE <<>>,
                 commit |-> IF in THEN 1 + others ELSE 0,
                 changing |-> FALSE, catching |-> ~in, locked |-> FALSE, join |-> ~in,
                 rewind |-> 1, transfer |-> 0, attempt |-> 0, told |-> "nothing",
                 to |-> [k \in {"Join", "Leave"} |-> NoServer]]]
    /\ net = {} /\ calls = 0 /\ faults = 0

Next ==
    \/ \E s \in Server :
        \/ Commit(s) \/ StepDown(s) \/ Restart(s)
        \/ JoinTimer(s) \/ LeaveTimer(s) \/ LeaveGroup(s) \/ GracefulClose(s)
        \/ \E Q \in SUBSET Server : Elect(s, Q) \/ AutoLeave(s, Q)
        \/ \E r \in Server : Replicate(s, r) \/ ApplyTransfer(s, r)
    \/ \E m \in net :
        HandleJoin(m) \/ HandleJoining(m) \/ HandleLeave(m) \/ HandleLeaving(m) \/ Lose(m)

Spec == Init /\ [][Next]_vars

-----------------------------------------------------------------------------
(* The configurations in a log *)

Configured(log) == {i \in DOMAIN log : log[i].config # {}}

Newest(log) == log[Max(Configured(log))].config

\* Those that are not committed
Pending(e) == {i \in Configured(e.log) : i > e.commit}

(***************************************************************************)
(* A leader works with the newest configuration of its log, committed or   *)
(* not: it counts those, and replicates to those, who are in it.           *)
(***************************************************************************)
LeaderUsesNewest ==
    \A s \in Server : srv[s].leads => srv[s].config = Newest(srv[s].log)

(***************************************************************************)
(* A leader makes one change at a time: it appends no configuration while  *)
(* an earlier one is not committed, whoever appended that, and whether     *)
(* servers ask to join, ask to leave or are removed for their silence.     *)
(***************************************************************************)
OneChangeAtATime ==
    \A s \in Server : srv[s].leads => \A i, j \in Pending(srv[s]) : i = j

(***************************************************************************)
(* Two servers agree on what both have committed, though each counted with *)
(* the configuration that it had.                                          *)
(***************************************************************************)
CommittedAgree ==
    \A s, q \in Server :
        \A i \in 1 .. Min({srv[s].commit, srv[q].commit}) : srv[s].log[i] = srv[q].log[i]

(***************************************************************************)
(* Whoever is told that it has left is not in the configuration that some  *)
(* server has committed last: it is told of no change that may still fail. *)
(***************************************************************************)
LeftIsCommitted ==
    [][\A s \in Server :
          (srv[s].told # "left" /\ srv'[s].told = "left") =>
              \E l \in Server :
                  LET committed == SubSeq(srv[l].log, 1, srv[l].commit)
                  IN  Configured(committed) # {} /\ s \notin Newest(committed)]_vars

(***************************************************************************)
(* What changes of the group ask of the steps (README, "Findings").  A     *)
(* server that is elected knows of all changes but the last to be          *)
(* committed, ...                                                          *)
(***************************************************************************)
Elected(s) == ~srv[s].leads /\ srv'[s].leads

OnePending == \A s \in Server : Elected(s) => \A i, j \in Pending(srv[s]) : i = j

(***************************************************************************)
(* ... a leader belongs to the group that it leads, ...                    *)
(***************************************************************************)
LeadersBelong == \A s \in Server : srv'[s].leads => s \in srv'[s].config

(***************************************************************************)
(* ... no log loses what is committed, ...                                 *)
(***************************************************************************)
CommittedKept ==
    \A s \in Server : \A i \in DOMAIN srv[s].log :
        i <= srv[s].commit
        => i <= Len(srv'[s].log) /\ srv'[s].log[i].config = srv[s].log[i].config

(***************************************************************************)
(* ... nor the configuration in use, which nothing takes back.             *)
(***************************************************************************)
UsedKept ==
    \A s \in Server : \A i \in DOMAIN srv[s].log :
        srv[s].log[i].config = srv[s].config
        => i <= Len(srv'[s].log) /\ srv'[s].log[i].config = srv[s].log[i].config

=============================================================================
