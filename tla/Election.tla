------------------------------ MODULE Election ------------------------------
(***************************************************************************)
(* The leader election of one group of servers:                            *)
(*   src/src/artos/server/election/election.rs   ElectionProtocolImpl      *)
(*   src/src/artos/server/utils.rs               update_term               *)
(*   src/src/artos/server/channel/server.rs      dispatch, check_term      *)
(* and, of the protocols that drive it, the steps that change its state:   *)
(* the heartbeat part of replication.rs and the hand-over of leave.rs.     *)
(*                                                                         *)
(* One server runs one event loop, so a handler is one step.  srv[s] is    *)
(* the state of server s; its field "disk" is what the state machine has   *)
(* committed, all that survives a crash.  The helpers take a server's      *)
(* state to its state, in the order the code makes its calls.              *)
(*                                                                         *)
(* The group is fixed (see the membership modules for its changes) and the *)
(* logs do not grow during an election.  A vote response also carries the  *)
(* voter's transient state, and a leader's name is kept for the clients:   *)
(* both belong to the client sessions and are left out here.               *)
(***************************************************************************)
EXTENDS Integers, FiniteSets

CONSTANTS Server,       \* the servers of the group
          None,         \* voted_for: none
          MaxTerm,      \* bound: no candidate starts a term above it
          LastEntries   \* the last log entries a server may have: [term, index]

Term == 0 .. MaxTerm

ASSUME ElectionAssumption ==
    /\ IsFiniteSet(Server)
    /\ None \notin Server
    /\ MaxTerm \in Nat
    /\ LastEntries \subseteq [term : Nat, index : Nat]

VARIABLES srv,        \* srv[s]: the state of server s
          msgs,       \* vote requests, their responses, refused heartbeats
          lastEntry,  \* lastEntry[s]: term and index of the last entry of s's log
          leads,      \* the <<server, term>> that send heartbeats: AppendEntries
          grants,     \* history: every vote handed out
          answers     \* history: every accepting response, to a pre-vote or a vote

vars == <<srv, msgs, lastEntry, leads, grants, answers>>

Role == {"Follower", "Candidate", "Leader"}
Disk == [term : Term, votedFor : Server \cup {None}]

\* State of election.rs that clear_election_state resets: voted_servers,
\* votes_granted, election_completed and pre_vote_phase.
Round == [voted : SUBSET Server, granted : Nat, completed : BOOLEAN, preVote : BOOLEAN]

\* timer: the election timer is started; heard: now < next_voting_time.
ServerState == [role : Role, term : Term, votedFor : Server \cup {None}, disk : Disk,
                round : Round, timer : BOOLEAN, locked : BOOLEAN, heard : BOOLEAN]

Request  == [type : {"VoteRequest"}, from : Server, to : Server, term : Term,
             last : LastEntries, preVote : BOOLEAN]
Response == [type : {"VoteResponse"}, from : Server, to : Server, term : Term,
             accepted : BOOLEAN]
Vote     == [voter : Server, term : Term, candidate : Server]
Refusal  == [type : {"AppendResponse"}, from : Server, to : Server, term : Term]

TypeOK ==
    /\ srv \in [Server -> ServerState]
    /\ msgs \subseteq (Request \cup Response \cup Refusal)
    /\ lastEntry \in [Server -> LastEntries]
    /\ leads \subseteq (Server \X Term)
    /\ grants \subseteq Vote
    /\ answers \subseteq Vote

GroupSize == Cardinality(Server)
Peers(s)  == Server \ {s}
\* votes_granted > (peers.len() + 1) / 2
Majority(n) == n > GroupSize \div 2

-----------------------------------------------------------------------------
(* Helpers: methods of ElectionProtocolImpl on a server's state. *)

ClearElectionState ==
    [voted |-> {}, granted |-> 0, completed |-> FALSE, preVote |-> FALSE]

\* The state after start() with d read from the state machine.
Started(d) ==
    [role |-> "Follower", term |-> d.term, votedFor |-> d.votedFor, disk |-> d,
     round |-> ClearElectionState, timer |-> TRUE, locked |-> FALSE, heard |-> FALSE]

\* write_state of a transaction that is committed.
WriteState(e) == [e EXCEPT !.disk = [term |-> e.term, votedFor |-> e.votedFor]]

ForgetfulUpdateTerm(e, t) == WriteState([e EXCEPT !.term = t])

UpdateTerm(e, t) == WriteState([e EXCEPT !.term = t, !.votedFor = None])

BecomeFollower(e) ==
    [e EXCEPT !.role = "Follower", !.round = ClearElectionState, !.timer = TRUE]

\* A higher term seen: update_term, then become_follower.
StepDown(e, t) == BecomeFollower(UpdateTerm(e, t))

DelayElection(e) == [e EXCEPT !.timer = TRUE, !.locked = FALSE, !.heard = TRUE]

BecomeLeaderWithTimer(e) ==
    [e EXCEPT !.role = "Leader", !.round.completed = TRUE, !.round.preVote = FALSE]

BecomeLeader(e) ==
    [e EXCEPT !.role = "Leader", !.round.completed = TRUE, !.round.preVote = FALSE,
              !.timer = FALSE]

\* request_votes: the server's own vote opens the round.
OpenRound(s, preVote) ==
    [voted |-> {s}, granted |-> 1, completed |-> FALSE, preVote |-> preVote]

\* become_candidate up to its write_state.
EnterCandidacy(e) ==
    WriteState([e EXCEPT !.role = "Candidate", !.term = e.term + 1, !.votedFor = None])

CandidateWithoutVote(s, e) ==
    [EnterCandidacy(e) EXCEPT !.round = OpenRound(s, FALSE), !.timer = TRUE]

\* become_candidate of a server that is no candidate yet, and the
\* request_vote_for_self it ends with.
BecomeCandidate(s, e) ==
    LET c == [EnterCandidacy(e) EXCEPT !.round = ClearElectionState, !.timer = TRUE]
    IN  IF Peers(s) = {}
        THEN BecomeLeader(c)
        ELSE WriteState([c EXCEPT !.votedFor = s, !.round = OpenRound(s, FALSE)])

VoteRequests(s, e, preVote) ==
    {[type |-> "VoteRequest", from |-> s, to |-> p, term |-> e.term,
      last |-> lastEntry[s], preVote |-> preVote] : p \in Peers(s)}

VoteResponse(s, m, e, accepted) ==
    [type |-> "VoteResponse", from |-> s, to |-> m.from, term |-> e.term,
     accepted |-> accepted]

AsUpToDateByIndex(l, k) == l.index >= k.index

\* request_log_newer_or_equal: log end l of a candidate against k of the voter.
AsUpToDate(l, k) == l.term > k.term \/ (l.term = k.term /\ l.index >= k.index)

-----------------------------------------------------------------------------
(* The steps of server s. *)

\* A message is delivered once at most; it may be lost, late or overtaken.
Consume(m) == msgs \ {m}

Become(s, e) == srv' = [srv EXCEPT ![s] = e]

\* The state of s wins its election: it is a leader and sends heartbeats.
Announce(s, e) == leads' = IF e.role = "Leader" THEN leads \cup {<<s, e.term>>} ELSE leads

\* The vote of s for itself, if it has become a candidate.
VoteForSelf(s, e) ==
    grants' = IF e.votedFor = s
              THEN grants \cup {[voter |-> s, term |-> e.term, candidate |-> s]}
              ELSE grants

StartCandidacy(s, e, inFlight) ==
    LET c == BecomeCandidate(s, e)
    IN  /\ e.term < MaxTerm
        /\ Become(s, c)
        /\ msgs' = inFlight \cup VoteRequests(s, c, FALSE)
        /\ Announce(s, c)
        /\ VoteForSelf(s, c)

\* on_timer with the election timer fired: request_election and
\* request_pre_vote_for_self.  The timer was restarted when next_voting_time was
\* set, with at least the same period: it does not fire while s hears a leader.
ElectionTimeout(s) ==
    LET e == srv[s] IN
    /\ e.timer /\ ~e.heard /\ ~e.locked
    /\ e.role # "Leader"                           \* assert_ne!(role, Leader)
    /\ IF Peers(s) = {}
       THEN StartCandidacy(s, [e EXCEPT !.round = ClearElectionState], msgs)
       ELSE /\ Become(s, [e EXCEPT !.round = OpenRound(s, TRUE)])
            /\ msgs' = msgs \cup VoteRequests(s, e, TRUE)
            /\ UNCHANGED <<leads, grants>>
    /\ UNCHANGED <<lastEntry, answers>>

\* The term of the request is taken over, unless it asks for a pre-vote.
AfterTermOf(e, m) == IF ~m.preVote /\ m.term > e.term THEN StepDown(e, m.term) ELSE e

AcceptsAnyVote(s, e, m) ==
    /\ m.term = e.term
    /\ AsUpToDate(m.last, lastEntry[s])

Accepts(s, e, m) ==
    /\ m.term = e.term
    /\ AsUpToDate(m.last, lastEntry[s])
    /\ m.preVote \/ e.votedFor \in {None, m.from}

VoteBy(s, m, e) == [voter |-> s, term |-> e.term, candidate |-> m.from]

RejectVoteRequest(s, m) ==
    LET e == IF srv[s].heard THEN srv[s] ELSE AfterTermOf(srv[s], m) IN
    /\ srv[s].heard \/ ~Accepts(s, e, m)
    /\ Become(s, e)
    /\ msgs' = Consume(m) \cup {VoteResponse(s, m, e, FALSE)}
    /\ UNCHANGED <<grants, answers>>

GrantPreVote(s, m) ==
    /\ ~srv[s].heard /\ m.preVote /\ Accepts(s, srv[s], m)
    /\ msgs' = Consume(m) \cup {VoteResponse(s, m, srv[s], TRUE)}
    /\ answers' = answers \cup {VoteBy(s, m, srv[s])}
    /\ UNCHANGED <<srv, grants>>

VolatileGrant(e, c) == [e EXCEPT !.votedFor = c]

\* set_voted_for and write_state.
Grant(e, c) == WriteState([e EXCEPT !.votedFor = c])

GrantVote(s, m) ==
    LET e == AfterTermOf(srv[s], m) IN
    /\ ~srv[s].heard /\ ~m.preVote /\ Accepts(s, e, m)
    /\ Become(s, Grant(e, m.from))
    /\ msgs' = Consume(m) \cup {VoteResponse(s, m, e, TRUE)}
    /\ grants' = grants \cup {VoteBy(s, m, e)}
    /\ answers' = answers \cup {VoteBy(s, m, e)}

HandleVoteRequest(s) ==
    /\ \E m \in msgs :
        /\ m.type = "VoteRequest" /\ m.to = s
        /\ RejectVoteRequest(s, m) \/ GrantPreVote(s, m) \/ GrantVote(s, m)
    /\ UNCHANGED <<lastEntry, leads>>

\* check_term: a response of another term is not handled; a higher one is taken over.
ResponseOfOtherTerm(s, m) ==
    /\ m.term # srv[s].term
    /\ Become(s, IF m.term > srv[s].term THEN StepDown(srv[s], m.term) ELSE srv[s])
    /\ msgs' = Consume(m)
    /\ UNCHANGED <<leads, grants>>

RefusalTakesAVote(r, m) ==
    LET voted == r.voted \cup {m.from}
        all   == Cardinality(voted) >= GroupSize
    IN  [voted |-> voted, granted |-> r.granted + (IF m.accepted THEN 1 ELSE -1),
         completed |-> all, preVote |-> r.preVote /\ ~all]

\* voted_servers.push, votes_granted += 1, and election_completed once all have voted.
CountVote(r, m) ==
    LET voted == r.voted \cup {m.from}
        all   == Cardinality(voted) >= GroupSize
    IN  [voted |-> voted, granted |-> r.granted + (IF m.accepted THEN 1 ELSE 0),
         completed |-> all, preVote |-> r.preVote /\ ~all]

RepeatedAnswer(r, m) == r.completed

\* The round is over, or m comes from a server that has answered already.
NotCounted(r, m) == r.completed \/ m.from \in r.voted

IgnoredResponse(s, m) ==
    /\ NotCounted(srv[s].round, m)
    /\ msgs' = Consume(m)
    /\ UNCHANGED <<srv, leads, grants>>

\* m is the answer that gives s the majority of a pre-vote, with some server still
\* to answer, and s does not lead or stand as a candidate yet.
WinsPreVote(s, m) ==
    LET r == CountVote(srv[s].round, m) IN
    /\ m.type = "VoteResponse" /\ m.to = s /\ m.term = srv[s].term
    /\ ~NotCounted(srv[s].round, m)
    /\ Majority(r.granted) /\ r.preVote /\ srv[s].role # "Candidate"

CountedResponse(s, m) ==
    LET e == [srv[s] EXCEPT !.round = CountVote(srv[s].round, m)]
        won == Majority(e.round.granted)
    IN  /\ ~NotCounted(srv[s].round, m)
        /\ \/ WinsPreVote(s, m) /\ StartCandidacy(s, e, Consume(m))
           \/ /\ won /\ ~e.round.preVote
              /\ Become(s, BecomeLeader(e))
              /\ Announce(s, BecomeLeader(e))
              /\ msgs' = Consume(m)
              /\ UNCHANGED grants
           \/ /\ ~won \/ (e.round.preVote /\ e.role = "Candidate")
              /\ Become(s, e)
              /\ msgs' = Consume(m)
              /\ UNCHANGED <<leads, grants>>

\* handle_peer_response of a vote response: check_term, then handle_vote_response.
HandleVoteResponse(s) ==
    /\ \E m \in msgs :
        /\ m.type = "VoteResponse" /\ m.to = s
        /\ \/ ResponseOfOtherTerm(s, m)
           \/ m.term = srv[s].term /\ (IgnoredResponse(s, m) \/ CountedResponse(s, m))
    /\ UNCHANGED <<lastEntry, answers>>

\* The part of handle_append_entries_request that concerns the election, for a
\* heartbeat of leader l in term t.  A server that leads the same term panics on it.
HandleAppendEntries(s) ==
    /\ \E l \in Peers(s), t \in Term :
        LET e == IF t > srv[s].term THEN StepDown(srv[s], t) ELSE srv[s] IN
        /\ <<l, t>> \in leads
        /\ t = e.term => e.role # "Leader"         \* assert_ne!(role, Leader)
        /\ Become(s, IF t < e.term THEN e
                     ELSE IF e.role = "Candidate" THEN BecomeFollower(e)
                     ELSE DelayElection(e))
        /\ msgs' = IF t < e.term
                   THEN msgs \cup {[type |-> "AppendResponse", from |-> s, to |-> l,
                                    term |-> e.term]}
                   ELSE msgs
    /\ UNCHANGED <<lastEntry, leads, grants, answers>>

\* check_term on the response to a heartbeat; the rest of it is replication's.
HandleAppendResponse(s) ==
    /\ \E m \in msgs :
        /\ m.type = "AppendResponse" /\ m.to = s
        /\ Become(s, IF m.term > srv[s].term THEN StepDown(srv[s], m.term) ELSE srv[s])
        /\ msgs' = Consume(m)
    /\ UNCHANGED <<lastEntry, leads, grants, answers>>

\* next_voting_time passes.
VotingTimePasses(s) ==
    /\ srv[s].heard
    /\ Become(s, [srv[s] EXCEPT !.heard = FALSE])
    /\ UNCHANGED <<msgs, lastEntry, leads, grants, answers>>

\* on_timer of replication.rs: the leader steps down when more than half of the
\* group is disconnected, which needs that many peers.
LoseConnections(s) ==
    /\ srv[s].role = "Leader"
    /\ Majority(Cardinality(Peers(s)))
    /\ Become(s, BecomeFollower(srv[s]))
    /\ UNCHANGED <<msgs, lastEntry, leads, grants, answers>>

\* graceful_close and leave_group on a leader: it hands over and stays out of elections.
GracefulClose(s) ==
    /\ srv[s].role = "Leader" /\ Peers(s) # {}
    /\ Become(s, [BecomeFollower(srv[s]) EXCEPT !.locked = TRUE])
    /\ UNCHANGED <<msgs, lastEntry, leads, grants, answers>>

\* The process stops and starts again from what the state machine holds.
RestartFrom(s, d) ==
    /\ Become(s, Started(d))
    /\ UNCHANGED <<msgs, lastEntry, leads, grants, answers>>

Restart(s) == RestartFrom(s, srv[s].disk)

\* A crash between the two write_state of one handler: after a server has entered
\* the term of its candidacy and before it has voted for itself, ...
CrashEnteringCandidacy(s) ==
    /\ \E m \in msgs : WinsPreVote(s, m)
    /\ srv[s].term < MaxTerm
    /\ RestartFrom(s, EnterCandidacy(srv[s]).disk)

\* ... and after it has taken over the term of a request and before it answers.
CrashHandlingVoteRequest(s) ==
    \E m \in msgs :
        /\ m.type = "VoteRequest" /\ m.to = s
        /\ ~srv[s].heard /\ ~m.preVote /\ m.term > srv[s].term
        /\ RestartFrom(s, UpdateTerm(srv[s], m.term).disk)

-----------------------------------------------------------------------------
Init ==
    /\ srv = [s \in Server |-> Started([term |-> 0, votedFor |-> None])]
    /\ msgs = {}
    /\ lastEntry \in [Server -> LastEntries]
    /\ leads = {}
    /\ grants = {}
    /\ answers = {}

Crash(s) == Restart(s) \/ CrashEnteringCandidacy(s) \/ CrashHandlingVoteRequest(s)

Step(s) ==
    \/ ElectionTimeout(s)
    \/ HandleVoteRequest(s)
    \/ HandleVoteResponse(s)
    \/ HandleAppendEntries(s)
    \/ HandleAppendResponse(s)
    \/ VotingTimePasses(s)

Next == \E s \in Server : Step(s) \/ LoseConnections(s) \/ GracefulClose(s) \/ Crash(s)

Spec == Init /\ [][Next]_vars

-----------------------------------------------------------------------------
(***************************************************************************)
(* Nobody votes twice: no server hands its vote of one term to two         *)
(* candidates, whatever it forgets in a crash (handle_vote_request,        *)
(* request_vote_for_self, update_term).                                    *)
(***************************************************************************)
OneVotePerTerm ==
    \A v, w \in grants :
        v.voter = w.voter /\ v.term = w.term => v.candidate = w.candidate

(***************************************************************************)
(* A vote is on disk before anybody hears of it: for every vote handed     *)
(* out, the voter's disk names that candidate or a later term.             *)
(***************************************************************************)
VotesOnDisk ==
    \A v \in grants :
        LET d == srv[v.voter].disk IN
        d.term > v.term \/ (d.term = v.term /\ d.votedFor = v.candidate)

\* The servers whose acceptance s has counted in its present round and term.
Supporters(s) ==
    {p \in srv[s].round.voted \ {s} :
        [voter |-> p, term |-> srv[s].term, candidate |-> s] \in answers}

(***************************************************************************)
(* What a server counts it was given: each vote in votes_granted, other    *)
(* than its own, is an accepting response of a different server in the     *)
(* server's present term, and who leads has counted a majority.  This is   *)
(* what voted_servers, the reset of a round and check_term are for.        *)
(***************************************************************************)
VotesAreBacked ==
    \A s \in Server :
        /\ srv[s].round.granted <= Cardinality(Supporters(s)) + 1
        /\ srv[s].role = "Leader" /\ Peers(s) # {} =>
              Majority(Cardinality(Supporters(s)) + 1)

\* A log that ends with l has all that is committed in a log that ends with k.
Covers(l, k) == k.term < l.term \/ (k.term = l.term /\ k.index <= l.index)

(***************************************************************************)
(* A leader's log is as up to date as the logs of some majority: without   *)
(* it a committed entry could be lost.  It must survive everything that    *)
(* goes wrong with the rounds, since the leader's log overwrites others.   *)
(***************************************************************************)
LeaderIsUpToDate ==
    \A s \in Server :
        srv[s].role = "Leader" =>
            Majority(Cardinality({p \in Server : Covers(lastEntry[s], lastEntry[p])}))

(***************************************************************************)
(* The assertion of request_election, assert_ne!(role, Leader): the timer  *)
(* of a leader is stopped and no late answer or request restarts it.       *)
(***************************************************************************)
LeaderTimerStopped ==
    \A s \in Server : srv[s].role = "Leader" => ~srv[s].timer

(***************************************************************************)
(* A candidate has voted for itself and for nobody else, on disk.          *)
(***************************************************************************)
CandidateVotedForItself ==
    \A s \in Server :
        srv[s].role = "Candidate" /\ Peers(s) # {} =>
            srv[s].disk = [term |-> srv[s].term, votedFor |-> s]

(***************************************************************************)
(* Elections as seen from the disks keep the promise of the ballot book:   *)
(* terms go forward and a vote once on disk is neither withdrawn nor       *)
(* changed in its term, in particular not by a restart.                    *)
(***************************************************************************)
Book == INSTANCE Ballot WITH ballot <- [s \in Server |-> srv[s].disk],
                             cast   <- grants

KeepsTheBook == Book!Spec

(***************************************************************************)
(* The assertion of handle_append_entries_request (replication.rs:481):    *)
(* a leader never hears another leader of its own term.                    *)
(***************************************************************************)
LeaderNeverHearsALeader ==
    \A s \in Server : srv[s].role = "Leader" =>
        \A l \in Peers(s) : <<l, srv[s].term>> \notin leads
=============================================================================
