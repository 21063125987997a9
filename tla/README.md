# A verification development of artos-rust

artos-rust is a replicated log in Rust after Raft: a group of servers elects a
leader, the leader replicates a log of entries published by clients, and every
server applies the committed entries to its state machine.  Beside these files
lie TLA+ modules translated from the source, TLC configurations that check
them on small instances, and proofs checked by TLAPS for all instances.  All
paths below are relative to `src/src/artos/` unless they begin with `src/`.

Contents: 1 the system, 2 the modules, 3 the runs, 4 findings, 5 the proofs,
6 what is left out, 7 what could follow.

## 1. The system

| Component (source) | State | Operations | What makes it correct |
|---|---|---|---|
| Election (`server/election/election.rs`, `server/utils.rs`) | role, persistent term and vote, the round (voted servers, votes, pre-vote, completed), election timer, next voting time, lock | timer, vote request, vote response, become follower, delay or lock election | one vote per term across crashes; counted votes were given; a leader is up to date; one leader per term; a group that can elect a leader does |
| Server channel (`server/channel/server.rs`, `common.rs`) | the server state shared by all protocols | event loop dispatch, `check_term` | a response of another term is never handled |
| Log store (`server/log/memory.rs`) | start index, entries, commit index, compaction lock, behind a mutex | append, set_at, clear, commit, get, read, write, lock and unlock compaction | an entry keeps its index; committed entries are never replaced; compaction keeps the last committed entry |
| Replication (`server/replication/replication.rs`) | quick commit index, transfer in progress, commit lock | publish, append entries and their responses, commit, heartbeats, step-down | committed entries are final and the same everywhere; a lagging peer catches up; assertions hold |
| Server peer (`server/channel/peer.rs`) | next and matched index, rewind step, in progress, heartbeat period, timeouts | send, responses, heartbeat, peer timeout | one request in flight; after a failure it is asked again |
| Client sessions (`server/replication/session.rs`, `client/publish.rs`) | received and committed message ids; queue and sent id on the client | publish, receive, commit, restart session, time out | every message enters the log once and in order; a success is reported only for a committed message |
| Queries (`server/replication/query.rs`, `client/query.rs`) | queued queries and subscriptions; pending and sent queries | query, subscribe, commit, time out | a client reads what it wrote; one answer for each query |
| Leader client (`server/client/leader.rs`) | queue of its own publications, flow lock | publish, commit, change of role | each publication is answered once; the flow is unlocked again |
| Membership (`server/membership/*.rs`, `server/client/follower.rs`) | configuration, configuration changing, catching up, the sender to the leader | join, leave, hand over, configuration commit | one change at a time; a leaver is told once |
| State transfer (`server/state/*.rs`) | files read, sent and applied | request, acquire, send, apply | the copy is faithful; a transfer ends |
| Compartment (`src/src/compartment/*.rs`) | bounded queue, delayed events, condition variable, timers | send, receive, delay, wake up | no event is lost; nobody waits for ever |

One server is one *compartment*: a thread that takes events from a bounded
queue, handles them one after the other, runs the timers and waits.  The
protocols of a server share its `ServerState` and call each other directly
(`become_follower` of the election calls the membership protocol, which calls
all the others), servers exchange requests and responses, a state transfer has
threads of its own.  So the hard behaviours are: messages between servers that
are late, lost or overtaken; a crash between two writes to the state machine
within one handler; terms that change in the middle of a round; a second thread
at the log store; sessions and queries that outlive a leader; assertions of the
code that panic the server when a protocol lets them fail.
`PROJECT.json` lists them under "hazards" at their lines.

## 2. The modules

| Module | What it is |
|---|---|
| `Ballot` | abstract: what an election promises about votes, a book in which each voter's term goes forward and its vote is written before it is cast |
| `Election` | the election of a group, one action for each handler |
| `MCElection` | its instance for TLC: bounds on timeouts and faults, the view, the symmetry |
| `MCElectionClaims` | what the repository says and the code does not keep, and the fairness for it |
| `BallotProofs`, `ElectionProofs` | theorems: the disks and the votes; the rounds and who may lead |
| `CommittedLog` | abstract: one sequence of entries whose committed prefix only grows |
| `LogStore` | the operations of `MemoryLogStore` as operators from a log to a log |
| `MemoryLog` | the log store at work, with a state transfer that reads it by pieces |
| `MCMemoryLog` | its instance for TLC |
| `MemoryLogProofs` | theorems |
| `Replication` | a leader's log brought to the other servers, with peers, commits and state transfers |
| `MCReplication` | its instances for TLC: many terms, or one leader under fairness |
| `ReplicationProofs` | theorems: leaders and terms, logs, answers and next indexes |
| `CommitProofs` | theorems: what is committed |
| `Delivery` | abstract: what the group promises a client that publishes |
| `PublishSession` | the publications of one client, from its queue to the committed log |
| `MCPublishSession` | its instances for TLC: a group at work |
| `PublishProofs` | theorems: types, the flow of publications, what is delivered |
| `ClientQuery` | the queries and subscriptions of one client at the servers |
| `MCClientQuery` | its instance for TLC |
| `ClientQueryProofs` | theorems: the flow of queries, types, what a query sees |
| `Membership` | who belongs to the group: joining, leaving, removal, and the leader's use of configurations |
| `MCMembership` | its instance for TLC |
| `MembershipProofs` | theorems: types, one change at a time, the configuration in use |

How they compose.  `Election` and `MemoryLog` are about single mechanisms in
full detail.  `Replication` uses `LogStore`, and takes the election as one step
by its contract: a majority whose terms are lower and whose logs are not newer.
`PublishSession` and `Membership` take elections *and* replication so (a follower
copies its leader's log, what a majority has copied is committed), which lets them
show clients and configurations over changes of leader.  `ClientQuery` takes the
publications of its client as what `Delivery` promises.  The detailed modules
implement abstract ones: `Election` implements `Ballot`, `MemoryLog` implements
`CommittedLog`, `PublishSession` implements `Delivery`.

### Election

`srv[s]` is the state of server `s`.  Its fields are those of `ServerState` and
of the election's `State`; `disk` is what the state machine has committed.
`timer` says that the election timer is started and `heard` that
`next_voting_time` has not come.  Helper operators carry the methods' names
(`BecomeFollower`, `DelayElection`, `BecomeLeader`, `BecomeCandidate`,
`UpdateTerm`) and map a server's state to its state; a handler composes them in
the order of the code's calls.

| Action | Code |
|---|---|
| `ElectionTimeout` | `on_timer`, `request_election`, `request_pre_vote_for_self` |
| `HandleVoteRequest` (`RejectVoteRequest`, `GrantPreVote`, `GrantVote`) | `handle_vote_request`, `is_vote_request_accepted` |
| `HandleVoteResponse` (`ResponseOfOtherTerm`, `IgnoredResponse`, `CountedResponse`) | `check_term`, `handle_vote_response` |
| `HandleAppendEntries`, `HandleAppendResponse` | the part of replication that moves the election |
| `VotingTimePasses` | the clock passes `next_voting_time` |
| `LoseConnections` | step-down in replication's `on_timer` |
| `GracefulClose` | `graceful_close` and `leave_group` on a leader |
| `Restart`, `CrashEnteringCandidacy`, `CrashHandlingVoteRequest` | the process stops, between handlers or between two writes of one, and starts from disk |

A message is delivered at most once, since a connection is a TCP stream and a
response belongs to a request; it may be lost (nothing forces its delivery),
arrive late, or be overtaken.  Two equal messages in flight are one message of
the model: each could be delivered twice only where the code sent it twice, and
a late copy of it is the same as a late original.  The timer does not fire
while the server hears a leader: `delay_election` and every restart of the
timer set it to at least the period that `next_voting_time` allows.  `grants`
and `answers` are history: what a server did, to speak about it later.

### LogStore and MemoryLog

A log is a record of `start`, `commit`, `locked`, `entries` and `aged`, the
number of entries (from the front, they are appended in order of time) that are
older than `min_retention_period`.  Each operator is one method.  `gone` is
history, the entries compacted away, so that an entry can be named by its index
for ever.  Every operation of the store holds its mutex and is one step; the
reading thread of a state transfer and the event loop interleave between steps.

| Action | Code |
|---|---|
| `AppendEntry`, `ReplaceEntry`, `CommitEntry` | what `append_entries` and `local_commit` of replication do to the store: `append`, `set_at`, `commit` with its compaction |
| `TimePasses` | an entry reaches its retention period |
| `BeginTransfer`, `ReadPiece` | an acquirer locks the compaction, reads piece by piece, and unlocks |
| `WritePiece`, `EndTransfer`, `BreakTransfer` | the files are sent and applied in order, or the connection breaks |

The acquirer and the applier of a transfer are traits that the program using
the library implements; they are modelled after the use of `read` and `write` in
`server/log/memory_tests.rs:246` and after what the compaction lock is for.
Two assumptions are made for them, and both are hazards if they fail: a
server whose log is being read does not replace entries (it leads, and a leader
only appends), and the lock is taken after the first commit, since
`unlock_compaction` before it subtracts an index from a smaller one.  Every
entry has room in a piece (`Size(e) <= MaxSize`): otherwise `read` returns the
index it was given and a transfer never ends.

### Replication

`srv[s]` holds the role, the persistent term and commit index, the quick commit
index, the log (a log of `LogStore`), the transfer that was asked for, and one `Peer` per other
server: its next and matched index, the rewind step and `link`, which says whether
there is a message sender and a request in progress.

| Action | Code |
|---|---|
| `Elect` | `on_leader`: peers start, a first leader appends the configuration |
| `Publish` | `handle_publish_request` of one message, and a request to every idle peer |
| `Heartbeat` | `on_timer`, `can_heartbeat`, `create_append_entries_request` |
| `HandleRequest` (`Refuses`, `LogOk`, `AppendEntries`, `LocalCommit`) | `handle_append_entries_request` |
| `HandleResponse` (`ResponseOfOtherTerm`, `ResponseToFollower`, `Accepted`, `Rejected` with `Rewind`) | `check_term`, `handle_append_entries_response` |
| `LoseConnection` | a failure or a timeout of a peer; what is under way may still arrive |
| `StepDown` | the step-down in `on_timer` |
| `ApplyTransfer`, `CompleteTransfer` | the transfer (external), and `on_state_transfer_completed`, which comes after a success and after a failure |

### PublishSession and Delivery

A message is its id.  `client` holds the ids given, sent and known to be committed, the
leader, the connection and the lock on the flow with the counter that callers
wait on; `srv[s].session` is the `ClientSession`, of which a missing one is the
same as a new one.  `Delivery` promises that messages are committed once, in the
order of publication, and reported after that.

| Action | Code |
|---|---|
| `Publish`, `Process`, `Heartbeat` | `publish`, `process`, the timers of `PublishProtocolImpl` |
| `HandleRequest` (`Publication`, a fold of `Take`; `Restart`) | `handle_publish_request`, `handle_configuration_request`, `handle_restart_session_request` |
| `HandleResponse` (`IgnoredResponse`, `RejectedResponse`, `RestartResponse`, `AcceptedResponse`; `RemoveCommitted`, a fold of `ReportFirst`) | `handle_succeeded_response`, `handle_accepted_publish_response`, `remove_committed_entries` |
| `LoseConnection`, `LeaderTimeout` | `handle_failed_response`, `handle_leader_timeout` |
| `Elect` (with `ApplyTransientState`), `Replicate`, `Commit` (with `LocalCommit`, a fold of `CommitEntry`), `StepDown` | the group, by contract; what it does to sessions in full |
| `SessionTimesOut` | `check_timed_out_sessions` |

### ClientQuery

`client.query[q]` says after which publication query `q` was asked and where it
is: in `pending_queries`, in `sent_queries`, due to be sent again, or answered.
A server keeps early queries in `queue`; `applied` is its state machine,
`committed` what its session says.

| Action | Code |
|---|---|
| `Ask`, `ChangeSubscription`, `Process`, `Resubscribe`, `Connect`, `ResendTimeout`, `HandleAnswer`, `LoseServer`, `LoseLeader`, `ConnectLeader` | `client/query.rs` |
| `HandleQuery`, `HandleSubscribe`, `Apply` (`AnswerQueue`), `StepDown`, `SessionEnds`, `SubscriptionTimesOut` | `server/replication/query.rs` |
| `LearnCommitted` | `apply_transient_state` |
| `Publish` | what happens of publishing here |

### Membership

`srv[s]` holds the configuration in use (`config`) and the one in the state machine
(`saved`), the flags `changing`, `catching` and `locked`, the log (of
configurations and other entries), the join and leave timers and the leader that
the two senders know.

| Action | Code |
|---|---|
| `JoinTimer`, `HandleJoin`, `HandleJoining`, `ApplyTransfer` | `server/membership/join.rs` |
| `LeaveGroup`, `GracefulClose`, `LeaveTimer`, `HandleLeave`, `HandleLeaving`, `AutoLeave` | `server/membership/leave.rs` |
| `Lose`, with `Target` and `Redirect` of the others | `server/client/follower.rs` |
| `Elect` (`OnLeader`), `Replicate`, `Commit` (`CommitConfiguration`), `StepDown`, `Restart` | the group, by contract; what it does to configurations in full (`membership.rs`) |
| `CommitEntries`, `UseEntries` (folds over entries) | the loops of `local_commit` and `on_leader` that commit or use the configurations of a log (`server/replication/replication.rs`) |

## 3. The runs

| Run | Instance | What it shows |
|---|---|---|
| `election_safety` | 3 servers, one log behind the others, terms up to 2, 2 election timeouts, 1 fault | `TypeOK`, `OneVotePerTerm`, `VotesOnDisk`, `VotesAreBacked`, `LeaderIsUpToDate`, `LeaderTimerStopped`, `CandidateVotedForItself`, and that elections keep the ballot book (`KeepsTheBook`, a refinement) |
| `two_leaders` | 2 servers, term 1 | violated: see section 4 |
| `split_vote` | 3 servers of which 2 run, terms up to 2, under fairness | violated: see section 4 |
| `replication_safety` | 3 servers, 2 terms, 2 publications, batches of 2, transfers at a gap of 3 that end in their term, 1 lost connection or late answer, 3 messages (2 after the fault) | `TypeOK`, `LogMatching`, `AnswersHold`, `NextInBounds`, `CommittedAgree`, `LeaderKeepsItsLog` |
| `replication_progress` | 3 servers, one leader, state transfers, 1 lost connection, under fairness | `CommittedOnMajority`, `FollowersCatchUpWithIt` (liveness) |
| `figure_8` | 3 servers, 4 terms, no fault, 2 messages | violated: see section 4 |
| `stale_transfer` | 3 servers, 2 terms, transfers at a gap of 2 | violated: see section 4 |
| `publish_delivery` | 3 servers, 2 terms, 2 messages, batches of 1, 1 fault, 2 messages under way after a fault or a second election (1 before and after both), steps that are `Calm` | `TypeOK`, `FlowFollowsQueue`, `DeliversOnce` (a refinement) |
| `stale_leader` | 3 servers, 2 terms, 3 messages, batches of 2, 2 faults, any step | violated: see section 4 |
| `query_answers` | 2 servers, 2 messages, 2 queries (one request takes both) or 2 changes of a subscription, 1 fault, under fairness | `TypeOK`, `ReadsOwnWrites`, `FlowFollowsQueue`, `EveryQueryAnswered`, `SubscriptionsFollow` (liveness) |
| `group_changes` | 3 servers of which 2 are members, 4 terms, 3 indexes, 1 call to leave, 1 fault, steps under the conditions of `CalmNext` | `TypeOK`, `LeaderUsesNewest`, `OneChangeAtATime`, `CommittedAgree`, `LeftIsCommitted` |
| `log_transfer` | 2 entries of sizes 1 and 2, pieces of size 2, 4 indexes, under fairness | `TypeOK`, `CommittedEntryStays`, `TransferInBounds`, `CopyIsFaithful`, `KeepsTheLog` (a refinement), `TransferEnds` (liveness) |

**Bounds of the election.**  Three servers are the smallest group in which a
majority is not everybody.  Two timeouts start two rounds, of one server or
of two, whose messages mix; a fault between them (a crash, a crash in the
middle of a handler, a leader cut off or handing over) can make a server forget
or repeat a round.  Two terms are what two rounds can reach.  One log ends in an older
term and is the longer one, so that comparing lengths alone is seen to be
wrong.  The view leaves out messages and answers of terms their receiver has
left: no action and no property depends on them.  Servers are symmetric; no
liveness is checked there.  A deadlock check would only report that all bounds
are used up.

**Bounds of the log.**  Four indexes hold a compacted entry, the last
committed one, one to be read and one to be replaced; sizes 1 and 2 make a
piece that is full and one that an entry does not fit in.

**Bounds of replication.**  Two terms and two publications, with the
configuration of a first leader, let that leader leave entries that the second one
overwrites, with requests of the first still under way.  With `MinGap = 3` entries travel in
batches of one or two and, to a server that lacks three or more, by a state transfer.
Two constraints are no bounds but assumptions, both named in `Replication` and broken by
the code (section 4): `TransfersInTerm`, a transfer ends in the term it was asked for in, and
`AnswersWithin`, a follower that begins a transfer does not have the longer log.  The
run stops where they are broken.  The proofs use the same two, each where it is needed, and
show in `WithoutTransfers` that a group without transfers needs neither.  Symmetry is
used where no liveness is checked.

**Bounds of publishing.**  The group starts at work under a first leader,
which costs nothing but the election of that leader.  Two messages, one to a request,
are sent again after a lost connection, overtake one another, restart a session, and
come to a second leader.  Two messages can overtake one another only after something broke or
another server was elected: two are under way after either, one before and after both.  Batches of two are in `stale_leader`, any batch in the proofs.
A lock capacity of 2 and an unlock capacity of 0 put the flow through both bounds.

**Bounds of queries.**  Two servers are one that answers and one that lags; batches of
one query make a second query wait, be sent again, or both.  A client asks or
subscribes in one behaviour, not both, as they share only the connection.

**Bounds of the membership.**  Two members and one that joins is the smallest
group in which the majority changes with the configuration.  The joiner has an
entry of its own to rewind over, or is behind by as much as a transfer
takes; three indexes hold the first configuration and two changes.  The group is watched from its
second term.  Two messages are under way in that term as long as nobody leaves and nothing
breaks, one otherwise.  In the third another leader replaces the first one, with nothing under
way if there were both a call and a fault; in the fourth a server that had been replaced can be elected
again, with nothing under way and a call or a fault before it, not both.  The run
stops where a condition of section 4 is broken: `OneSilent`, `OnePending`, `LeadersBelong`,
`UsedKept`, `MembersLeave`.

No run but those under fairness checks for deadlocks of interest: every
model stops where its bounds are used up.

**Fairness.**  `MemoryLog` assumes only that the threads of a transfer run:
nothing is asked of clients, commits or time.  `MCElectionClaims` assumes that
the servers in `Up` run, that what one of them sends to another arrives, and
that a started timer fires once the answers to the earlier round are in (the
election timeout is much longer than an exchange).  A server runs one event
loop that serves its queue and its timers in turn, which is what justifies weak
fairness of each kind of step.  `MCReplication` assumes the same of the one leader and
of those that hear it, and that a transfer goes on; a server is given time to end
its transfer before it handles the next request (`PromptTransfers`), since otherwise
the leader, refused meanwhile, steps back and asks for a transfer again and again.
`ClientQuery` assumes that event loops run, that what is not lost arrives, that
servers apply what is published and that the client finds a leader again; it does
not assume that a query sent is answered, nor that the connection stays.

Every property of a passing run has a mutant in `PROJECT.json`: an operator that
puts a plausible mistake in place of a definition, with which TLC finds the
property violated.  The mutated operators stand before the ones they would replace
(`ForgetfulUpdateTerm` before `UpdateTerm`, for example) and are used nowhere.

## 4. Findings

What the code does against what it says, each shown by a run:

* **Two leaders in one term** (`two_leaders`).  `handle_vote_response` calls
  `election_completed` as soon as all servers have answered, which clears
  `pre_vote_phase`; then it tests the majority and, the flag being cleared,
  takes the pre-vote for an election: the server leads in its present term, with no
  new term and without votes.  It takes the answer that completes a round to
  be the one that gives the majority, which is every answer in a group of two.
  Two servers can do so in one term, and the heartbeat of one panics the other
  (`assert_ne!` at `server/replication/replication.rs:481`).  This is why the
  model states no election safety ("one leader per term") as an invariant.
* **Candidates for ever** (`split_vote`).  `become_candidate` is skipped when the
  role is `Candidate` already, so a candidate never starts a second term; two
  candidates that split a vote stay as they are.  A server that is not a
  candidate, or another leader, would have to end it.
* **An old entry is committed by counting** (`figure_8`).
  `handle_append_entries_response` commits what a majority has matched, also an entry of an
  earlier term (`replication.rs:600-609`).  The counterexample is figure 8 of the Raft
  paper: four elections, and two servers commit different entries at index 1.
  With two terms this cannot happen, which is the bound of `replication_safety`.
* **A transfer for a leader of the past** (`stale_transfer`).  The request for
  a state transfer is served before the term of the request is compared
  (`replication.rs:493` before `524`), so a deposed leader that has not noticed overwrites
  committed entries of a follower.
* **The client trusts an old leader** (`stale_leader`).  A leader cut off answers
  clients until it steps down.  It answers a message it cannot place with the last id
  that it knows, which may be behind what the client knows to be committed: the
  assertion at `client/publish.rs:297` panics the client.

What was met while modelling and keeps a property from holding without an
assumption.  Each assumption has a name, in the module or in its MC module:

* `ElectedFit` (`PublishSession`).  Who is elected may have a session that does not fit its
  log, in two ways.  A leader that is elected again still has in its session the ids of
  messages that were overwritten meanwhile and takes them for received (`session.rs:114`): they
  are never in the log.  And a server whose session has timed out, and that is elected by voters that
  lag behind it, is told by them of less than its own log has committed
  (`replication.rs:838`): what it has received is then found only behind the least of their
  commit indexes, and it may take messages a second time.
* `TimeoutsAreLate`.  A session of a leader that times out with messages unacknowledged starts
  from zero (`session.rs:188`), and the client's resends enter the log a second time.
* `RestartsGoOn`.  `handle_restart_session_request` sets the received id to the one the
  client sends, without a look at the log (`replication.rs:425`): a restart that comes twice or late lets
  messages in twice.  Any response, also an old one, ends the request in
  progress (`publish.rs:213`), which is how a restart is sent twice.
* `ReplicationKeeps`.  Servers agree on what they commit, keep it, and elect nobody without it.  That
  is `CommitProofs`' subject, where it takes conditions of its own.
* `AppliedLeaders` (`ClientQuery`).  A new leader raises the committed id of a session to what its
  voters know (`replication.rs:838`) before it has applied that: a query is then answered
  by a state machine that lacks the client's messages.
* `KeptSessions`.  A server whose session ended after the last commit of the client
  knows of no committed message and keeps its queries waiting until the next one.
* `PromptTransfers` (`MCReplication`): section 3, fairness.
* `OneSilent` (`MCMembership`).  A leader removes all silent peers in one change
  (`leave.rs:511-526`): of three servers, one that is cut off becomes a group of its own
  and commits alone.  The step-down that should come first does not, as a failed
  request also counts as a response (`peer.rs:211`).
* `OnePending` (`Membership`).  A new leader with two uncommitted configurations in its log goes back to
  the older one when that is committed, and takes changes again with the second one pending
  (`membership.rs:194`).
* `LeadersBelong` (`Membership`).  A server that finds the
  configuration without itself pending in its log uses it when it is elected
  (`replication.rs:667-679`) and leads a group it is not in; and an old leader that does not know of the next one, and is
  told that it has left drops its configuration and goes on leading.
* `UsedKept` (`Membership`).  A deposed leader works on with the configuration it appended when the
  next leader overwrites that entry: nothing takes it back (`membership.rs:264`).  Elected once more
  it leads a group that no log knows of.  Without this condition and `LeadersBelong` TLC finds
  `LeaderUsesNewest` violated in the fourth term, by a behaviour of thirteen states.
* `CommittedKept` (`Membership`, for the proofs; it holds in the run).  No log loses what is
  committed, which is `CommitProofs`' subject for a group that does not change.
* `MembersLeave`.  A leave answer that arrives after the same server has joined again, or a
  join that is late, makes a member believe that it left (`leave.rs:422`).

And some facts that no run states, found in reading for the model:

* A follower that begins a state transfer answers the end of its own log
  (`replication.rs:533-540`), and `replication.rs:616` takes that for the next index of the
  peer unconditionally, where the other rejections only take a smaller one (621).  A
  server that led term 1 and appended three entries nobody else has is told of a leader of
  term 2 with two entries, steps back to index 1, is offered a transfer, and answers 4: the next
  request to it meets the assertion at 1029, which panics the leader.  TLC finds this
  in eleven steps when `replication_safety` is given `MinGap = 2`, `MaxEntries = 1`, `MaxIndex = 3`
  and no `AnswersWithin`.
* A follower commits what nobody has compared.  `handle_append_entries_request` commits up to the
  request's commit index and the end of the follower's own log (`replication.rs:551` and 1096-1159),
  also when the request, whose entries are limited to a batch, verified less of it.  A server leads term 1
  and has two entries more than the others; they go on to commit other entries at indexes 2 and 3
  in term 2; the leader of term 3 steps back from index 4 to 3 and, doubling, to 1, and sends
  the one entry at index 1, which is there already and so truncates nothing, with commit index 3.
  The follower commits its own entries at 2 and 3.  No transfer, no restart and no figure 8 is part of it; TLC finds it
  with `MaxEntries = 1`, `MaxTerm = 3`, `MaxIndex = 3` and the steps before it laid out for it, and
  does not when `ComparedCommits` is required of the same steps.
* The matched index of a peer survives a change of leader: neither `on_leader`
  (`replication.rs:649-687`) nor `ServerPeer::start` (`peer.rs:99`) resets it, so a leader that is elected again
  counts what the peer, or it itself, has replaced since (`MatchesWithin`).
* Borrows, which the models leave out.  `membership.rs:129` holds its state
  mutably while `on_leader` of replication calls `reconfigure` (a first leader, or
  one with a pending configuration, panics); `leave.rs:338` borrows what
  `leave.rs:411` holds (the answer to a leaver panics it), and the same through
  `leave.rs:328`; `replication.rs:645` borrows what every handler of replication holds when
  its call to `become_follower` reaches the queries.  Nothing in the repository wires the
  protocols together yet (`ServerImplFactory` at `server.rs:387` is a TODO), so
  the models assume calls that return.
* A joiner whose log has two entries that nobody else has underflows at
  `join.rs:475`; a joiner of a group of one server meets the assertion at
  `follower.rs:254`.  The models do not go on from there.
* A late accepted answer makes a joined server a joiner again for good
  (`join.rs:428`); a deposed leader keeps its uncommitted configuration and
  `configuration_changing` (`membership.rs:264`), and would refuse every change when
  it leads again; a second `leave_group` replaces the completion handler of the first
  (`leave.rs:572`); the election lock of a leaver is never released.
* A removed peer is no longer sent entries, so it learns of its removal only by the
  answer to its own leave request.

## 5. The proofs

`ElectionProofs` proves for every finite set of servers, every bound on terms
and all last entries:

* `TypeCorrect`: `Spec => []TypeOK`;
* `ElectionKeepsTheBook`: `Spec => KeepsTheBook`, the refinement of `Ballot`;
* `VotesAreSafe`: `Spec => [](OneVotePerTerm /\ VotesOnDisk)`.

The argument.  A server's memory and disk may only differ inside a handler, so
`MemoryOnDisk` (the term and the vote in memory are those on disk) is the
strengthening that makes `TypeOK` inductive for the disks: `IInv == TypeOK /\
MemoryOnDisk`.  Given it, every handler is shown, one lemma each, to change the
disks and the grants by a step of the ballot book or not at all; that a book
step keeps every grant on disk (`BookIsSafe`, proved in `BallotProofs` about the
abstract book) is then inherited through the refinement, and one vote per term
follows, because a disk holds one vote for its term.  `OneVotePerTerm` alone is
not inductive: two grants in a term contradict each other only through the disk.
The assumptions are `ElectionAssumption`: the servers are finitely many, `None` is none
of them, terms and indexes are naturals.

Its second part goes on from there, from the same assumptions, to what a round
counts and who may lead by it:

* `RoundsAreBacked`: `Spec => []VotesAreBacked`;
* `LeadersAreUpToDate`: `Spec => []LeaderIsUpToDate`;
* `LeadersStopTheirTimer`: `Spec => []LeaderTimerStopped`;
* `CandidatesVoteForThemselves`: `Spec => []CandidateVotedForItself`;
* `VotesStayOnDisk`: `Spec => []VotesOnDisk`.

The argument.  `VInv` adds to `IInv` what ties a round to the answers on record:
the votes a server counts are at most its supporters and itself (`RoundOK`), the
round of a leader is over, so that nothing is counted in it any more, an accepting
response under way is on record and comes from another server (`ResponseOK`), a request
tells the end of its sender's log (`RequestOK`), and nobody accepted a candidate
whose log is behind its own (`AnswerOK`).  `VotesAreBacked` alone is not inductive:
that one more vote means one more supporter (`CountVoteOK`) needs that the answer in
flight is on record in the server's present term and that its sender has not
been counted.  Answers are only added and a term's answers stay, so
a step of one server never takes the support of another away (`MoreAnswers`).  A leader's
supporters compared their logs with its own, and they and the leader are a majority.

`MemoryLogProofs` proves for all entries, sizes and bounds:

* `TypeCorrect`: `Spec => []TypeOK`, no index or age is ever below zero;
* `LogIsKept`: `Spec => KeepsTheLog`, the refinement of `CommittedLog`;
* `CommittedStays`: `Spec => []CommittedEntryStays`;
* `TransferStaysInBounds`: `Spec => []TransferInBounds`;
* `CopiesAreFaithful`: `Spec => []CopyIsFaithful`.

The argument.  What each operator of `LogStore` returns is a lemma of its own
(`CompactRemovesPrefix`, `ReadTakesPrefix`, `WriteReplacesRest`); that a
compaction moves entries from the log to `gone` without a change to
`gone \o log.entries` is `ShiftKeepsAll`.  The inductive invariant is `IInv ==
LogOK /\ TransferOK /\ CopyOK`.  `LogOK` says what is gone ends where the log
starts and that the log holds its committed entry.  `TransferOK` adds what lies
between two steps of a transfer: the log is locked while it is read, the pieces
not yet written follow one another up to the next read, and the first of them
begins (`Reached`) inside the log of the other server.  Without it not even the type is
inductive: a write outside of the log trims to a negative length.  `CopyOK` says
that what was copied or read equals the log wherever that may be relied on:
everywhere while reading, when nothing is replaced, and up to the commit index
of the last read (`sure`) afterwards, since only uncommitted entries are
replaced.  `LogMovesOn` shows once, for every step of replication and of time,
that a log that keeps these entries keeps the invariant; each step of a transfer
has a lemma of its own.  The assumptions of the module (`MemoryLogAssumption`) give the bounds
their types; the proofs do not need that an entry fits into a piece, which only
the end of a transfer needs (`TransferEnds`).

`ClientQueryProofs` proves, for any group, number of queries and messages, batch size
and capacities with the unlock capacity below the lock capacity:

* `FlowIsRight`: `Spec => []FlowFollowsQueue`;
* `TypeCorrect`: `Spec => []TypeOK`;
* `ReadsTheirWrites`: `Spec /\ [][AppliedLeaders]_vars => []ReadsOwnWrites`.

The flow depends on the client alone, so the inductive invariant is the client's type
and the property.  A query is kept while it is pending, sent or due: being sent, lost
or sent again moves it among the three and changes no count (`StillKept`), and only a
call and the first answer change the count, by one and followed by `check_flow`
(`CheckFlowOK`).  For `ReadsTheirWrites` the invariant adds that only queries that
were asked are under way or wait at a server (`OnlyAsked`): such a query keeps what it
must see (`AskedStays`), so an answer that was right stays right however late it comes.
A server answers a query only when it has committed enough (`AnswerQueueOK`,
`HandleQueryGoes`), and `AppliedLeaders` says that it has then applied enough too; of
the other assumptions of the run the proof needs none.  Batches and queues are
sequences made from sets (`InOrder`, `Those`), for which the module proves that they
hold just members of the sets.

`ReplicationProofs` proves for every group, gap, batch size and bound on faults:

* `CoreHolds`: `Spec => []Core`, among it that two servers never lead one term;
* `TypeCorrect`: `Spec => []TypeOK`;
* `LeaderKeepsLog`: `Spec => LeaderKeepsItsLog`;
* `CurrentHolds`: `Spec => []Current`, what a leader has sent is in its log, and so is
  what was accepted of it;
* `LogsMatch`: `Spec /\ []TransfersInTerm => []LogMatching`;
* `AnswersStay`: `Spec /\ []TransfersInTerm => []AnswersHold`;
* `NextIndexInBounds`: `Spec /\ []AnswersWithin => []NextInBounds`;
* `WithoutTransfers`: if no log gets as long as the gap, `Spec =>
  [](LogMatching /\ AnswersHold /\ NextInBounds)`, with no assumption on what happens.

The argument.  A handler composes a dozen operators; what each does to a server's
role, term, log and transfer is a lemma of its own, and `StepDoes` sums them up: whatever
action is taken, one server keeps its log, appends one entry, refuses a request, takes its
entries, copies another's log, or wins an election.  Everything after it has
six cases instead of all the handlers.

`TypeOK` is not inductive: that a log stays within the bound of `Index` counts one
entry per publication and one per election, and an election is always in a new term.  So
`Core` adds to the types what ties terms to majorities: a term that a server, an entry or a message
knows of was reached by a majority (`Reached`), a log is no longer than the publications and the
terms before it allow (`Fits`), and a term has one leader.  Two majorities meet
(`Cardinality` of the two sets and of the group), and who voted in a term is beyond it.

`LogMatching` is about two logs and says nothing of what is under way, so it is not
inductive either.  The invariant speaks of *links*: an entry, its index and the term before
it, in a log or in a request.  `LinksAgree` says that two links with one index and one
term are the same link, which makes two logs agree all the way down from where they
have a term in common (an induction, done by a least counterexample);
`LeaderOwns` says that no link of a leader's term lies beyond its log, so that the link that
its next entry makes is a new one.  `TransfersAgree` says that a transfer begins where the logs of both
agree.  `AnswersAgree` is `AnswersHold` in the same terms.  It needs `Current`: when a request is
late, the log of the leader that sent it still has it.

What the two assumptions are for.  A transfer that ends in a later term writes the log of a
former leader from the index that was compared with another log: `TransfersAgree` then fails, and
`LogMatching` with it.  The finding `stale_transfer` is the same fault, seen from the commits.
`AnswersWithin` fails by itself (section 4).  Neither is needed for `CoreHolds`, `TypeCorrect`,
`LeaderKeepsLog` and `CurrentHolds`.  The assumptions on constants are those of
`ReplicationAssumption`: finitely many servers, natural bounds, and
`NoRetention = FALSE`, entries do not expire while logs are compared (a compaction that
overtakes a follower is `MemoryLog`'s subject).

`CommitProofs` goes on from there to what is committed.  `CommittedAgree` is false of the code
(`figure_8`, `stale_transfer`, and section 4 for a third way).  What is proved is that there is no
other way, for every group, batch size and bound on terms, indexes and faults, with what is lost, late
or repeated:

* `CommitsAgree`: `Spec /\ []TransfersInTerm /\ [][OwnTermCommits /\ ComparedCommits /\
  MatchesWithin]_vars => []CommittedAgree`;
* `CommitsOnMajority`: `=> []CommittedOnMajority` from the same;
* `CommitsWithoutTransfers`: if no log gets as long as the gap, both from the last three alone.

The four are conditions on behaviours, each of them what a repair of one line would give: a leader
counts up to an entry of its term, a follower commits what the request has compared or brought, or
what ends with an entry of the leader's term, a new leader starts to count anew, a transfer ends
with its term.  A group whose first leader stays has them all.  They are sufficient, and not said to
be necessary one by one: for the first, the second and the last there is a counterexample, for
`MatchesWithin` there is the reading of the code.

The argument is that of Raft, found again for this code.  Terms in a log do not fall, and
a term is in one piece and in its leader's log (`Ordered`): that gives the order of logs that an
election compares its meaning (`ElectedHas`, `RunHas`).  A log `p` is *open* if every log
with an entry of a later term contains it, every leader of its term or a later one has it,
and no request of these terms contradicts it.  A server in the term of an open log keeps its agreement with it
through whatever it takes or copies (`AgreeStays`), and the log stays open unless voters none of
whom has it elect a leader (`OpenStays`, `Escapes`).

Openness of what a leader has counted is not inductive: the entry is counted answer by answer, and between two of them
another server may be elected.  `Committable` is what holds in between: a leader's log
up to an entry of its term is open and all that are counted for it, or have an accepted answer under way, have it, or a
majority has gone on to later terms uncounted and this leader will never commit it (`EscapeBlocks`; `BlockedStays`: a server of a
later term gives no answer in this one).  So what is counted on a majority is *kept*: open,
and on a majority, which has a voter in every later election (`KeptStays`).  `QuickKnown` says that what a server or a
request knows to be committed is within a kept log, `CommitKept` that what a server has committed
agrees with one; two kept logs are in the log of one server, so they agree.  `StepCommits` sums up for
all handlers how the quick commit index, the commit index and the matched indexes change.

`PublishProofs` proves for any group, batch size, capacities and bounds:

* `TypeCorrect`: `Spec => []TypeOK`;
* `FlowCorrect`: `Spec => []FlowFollowsQueue`;
* `DeliversWhenCalm`: `Spec /\ [][Calm]_vars => DeliversOnce`, the refinement of `Delivery`.

The first two hold in every behaviour.  Neither is inductive alone: the lock is a natural
number only because it follows the queue, so `TypeInv` has both, and that a client with
a connection knows its leader.  `check_flow` takes and gives back the lock right from every state in
which the counter fits the flag (`CheckFlowFollows`), whatever the queue is; `RemoveCommittedIs` carries
that over the messages that leave the queue.

`Calm` is the four conditions of section 4 (`ReplicationKeeps`, `ElectedFit`,
`TimeoutsAreLate`, `RestartsGoOn`), conditions on steps and not on states, and each
one what a repair would give.  The run `publish_delivery` has the same ones.  All but the first are about sessions; a group whose
leader stays and whose sessions do not time out has them all.  What remains for the proof is everything a calm
behaviour does: elections by any majority, followers that lag, requests and answers
that are lost, late, out of order or sent to a server that no longer leads.

The argument.  `DeliveryInv` says of every log that its messages are 1, 2, ... in their
order (`InOrder`).  A leader appends what its session takes, which is in order only
if the message received last is the last one in its log (`IsLast`).  That is not
inductive by itself: an election has to make it so (`NewLeaderFits`, from what voters know to
be committed and the rest of the log), and a session that has timed out knows nothing.
Such a leader takes nothing a second time while message 1, the only one that
a new session takes, is neither queued nor under way: the second case of
`Fits`.  What a session, an answer or the client knows to be committed is so at some
server (`CommittedIn`).  The committed prefixes agree, so the longest one delivers
exactly the messages up to its last (`DeliveredIs`): the abstract sequence is 1, ..., n, and
a step that commits, publishes or reports moves `Delivery` by one of its actions or not at all
(`StepDelivers`).

`LocalCommit`, `RemoveCommitted` and `Publication` are folds over sequences.  Each lemma
`Fold...` turns one into a chain of values from the first to the last, along which `UpTo`
carries what a single step keeps.

`MembershipProofs` proves for any servers, any first group, and all bounds:

* `TypeCorrect`: `Spec => []TypeOK`;
* `OneChangeCorrect`: `Spec /\ [][OnePending /\ LeadersBelong]_vars => []OneChangeAtATime`;
* `NewestInUse`: `Spec /\ [][OnePending /\ LeadersBelong /\ CommittedKept /\ UsedKept]_vars => []LeaderUsesNewest`.

The argument.  Fifteen handlers do one of seven things to a server (`Moves`): it keeps its log and
its configuration, commits, gets another log, is elected, adds a configuration, is told that it has left, or
starts again.  `ServersMove` is shown once for every action, and what follows has seven cases.
`local_commit` and `on_leader` run through entries; the result is that of the last of them with a
configuration (`Adopts`, `Reuses`), carried along the chain of `FoldCommit` and `FoldUse`.

`OneChangeAtATime` is not inductive: nothing in it stops a leader from adding a
second configuration.  `OneChange` ties the pending configuration to `configuration_changing`, which
the handlers look at.  Every commit clears the flag, of whatever configuration
(`membership.rs:194`), so the flag is right only while what is committed is the pending one
(`CommitsOne`): that is why an election with two pending ones (`OnePending`) breaks it.

`LeaderUsesNewest` says nothing of the servers that may lead next.  `Placed` does: a server that its
configuration has finds it in its log, as the last one if it leads, else as the last committed one
or among those behind; and what a restart falls back to is the last committed.  A server that is not in its
configuration is not asked for anything, which is why who joins or has left needs no
entry of its own.  A log that is copied keeps the place (`CopiesPlaced`, from `CommittedKept` and `UsedKept`), an election moves
it to the last configuration (`ReusesPlaced`), and a commit keeps a leader at its last because the one it
commits is the only one pending (`CommitsPlaced`, from `OneChange`).

The assumptions on constants are those of `MembershipAssumption`: finitely many servers, a first
group of two or more with a leader in it, and bounds of which those on terms and logs leave
room for the states the group is watched from.

Left to TLC: liveness and everything under fairness (`TransferEnds`,
`FollowersCatchUpWithIt`, `EveryQueryAnswered`, `SubscriptionsFollow`); `CommittedAgree` and
`LeftIsCommitted` of `Membership`.  These two need that majorities of one configuration and the next meet, and
over elections as well: the argument of `CommitProofs` with a group that changes, under the
conditions of both, and for `LeftIsCommitted` that no answer outlives the stay it is about
(`MembersLeave`).

## 6. What is left out

* The content of entries, names, formats, logging, metering and tracking.
* The growth of the log and changes of the group during the detailed election
  (`lastEntry` and `Server` are fixed there); the contract in the other modules has both.
* Real time: timers are conditions and steps; how heartbeats slow down.
* Snapshots (`server/state/snapshot.rs` is a stub), sockets, files, checksums and the
  poisoned mutex after a panic in the log store.
* The leader client (`server/client/leader.rs`): its queue and flow control are
  those of the publishing client, and it runs on the server's own thread.
* The compartment (`src/src/compartment/*.rs`): one event loop is the reason why a handler is one
  step.  Its bounded queue blocks a handler that sends to itself; a missed wake-up
  costs one dispatch period.
* `RefCell` borrows (section 4).
* Single-server groups (`SingleServerJoinGroupProtocolImpl` and its like do nothing), the membership
  events for listeners, several clients at once (sessions do not meet), and a client
  whose connection for queries is that to the leader.
* Crashes of servers in `Replication` and `PublishSession`: the persistent state is written at each
  commit, and the log store in the repository is in memory, so what a restart
  keeps is up to the user's log store.  `Election` and `Membership` have restarts.

## 7. What could follow

A proof that committed entries agree over changes of the group (end of section 5).  `Borrows`, a module of which protocol holds its state while it calls
which other; `Compartment`, if its queue gets a non-blocking send.
