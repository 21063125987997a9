---------------------------- MODULE Replication -----------------------------
(***************************************************************************)
(* The replication of a leader's log to the other servers of its group:    *)
(*   src/src/artos/server/replication/replication.rs                       *)
(*   src/src/artos/server/channel/peer.rs       ServerPeer                 *)
(*   src/src/artos/server/channel/server.rs     dispatch, check_term       *)
(*   src/src/artos/server/log/memory.rs         as LogStore                *)
(* A handler is one step.  srv[s] is the state of server s; the helpers    *)
(* take a server's state to its state in the order of the code's calls.    *)
(*                                                                         *)
(* A leader is chosen in one step by the contract of an election: a        *)
(* majority whose terms are lower and whose logs are not newer.  (What the *)
(* code's election does instead is the matter of the module Election.)     *)
(* The group is fixed, the log keeps its entries (nothing expires), and    *)
(* sessions, queries and the meaning of entries have modules of their own. *)
(***************************************************************************)
EXTENDS LogStore, FiniteSets

CONSTANTS Server,      \* the servers of the group
          NoServer,    \* no source of a state transfer
          MinGap,      \* min_state_transfer_gap_log_entry_count
          MaxEntries,  \* max_publishing_log_entry_count
          MaxTerm,     \* bound: no leader is elected in a term above it
          MaxIndex,    \* bound: no entry is published at an index above it
          MaxFaults    \* bound: lost connections and failed transfers

ASSUME ReplicationAssumption ==
    /\ IsFiniteSet(Server) /\ NoServer \notin Server
    /\ {MinGap, MaxEntries} \subseteq Nat \ {0}
    /\ {MaxTerm, MaxIndex, MaxFaults} \subseteq Nat
    /\ NoRetention = FALSE
    /\ [term : 1 .. MaxTerm, type : {"Application", "Configuration"}] \subseteq Entry

VARIABLES srv,      \* srv[s]: the state of server s
          msgs,     \* requests and responses under way
          faults    \* the faults so far

vars == <<srv, msgs, faults>>

Term  == 0 .. MaxTerm
Index == 0 .. MaxIndex + MaxTerm + 1

\* link: no message sender, or one without or with a request in progress.
Peer == [next : Index \ {0}, matched : Index, rewind : Nat, link : {"down", "idle", "busy"}]

\* A state transfer asked for: the source, and the first index wanted.
Transfer == [from : Server \cup {NoServer}, start : Index, applied : BOOLEAN]
NoTransfer == [from |-> NoServer, start |-> 0, applied |-> FALSE]

\* quick: quick_commit_index; commit: commit_index of the persistent state.
ServerState == [role : {"Follower", "Leader"}, term : Term, quick : Index, commit : Index,
                log : Log, transfer : Transfer, peers : [Server -> Peer]]

Request == [type : {"Request"}, from : Server, to : Server, term : Term, lastTerm : Term,
            lastIndex : Index, commit : Index, entries : Seq(Entry), transfer : BOOLEAN]
Response == [type : {"Response"}, from : Server, to : Server, accepted : BOOLEAN,
             term : Term, next : Index, transfer : BOOLEAN]

TypeOK ==
    /\ srv \in [Server -> ServerState]
    /\ msgs \subseteq (Request \cup Response)
    /\ faults \in 0 .. MaxFaults

Peers(s) == Server \ {s}
LastIndex(l) == EndIndex(l) - 1
LastTerm(l)  == IF l.entries = <<>> THEN 0 ELSE Last(l.entries).term

-----------------------------------------------------------------------------
(* Helpers: methods of ReplicationProtocolImpl and ServerPeer. *)

\* term_for_log_index; MAX, which no term equals, below the start of the log.
TermAt(l, i) ==
    CASE i = 0 -> 0
      [] i >= l.start -> GetAt(l, i).term
      [] OTHER -> MaxTerm + 1

WithPeer(e, p, peer) == [e EXCEPT !.peers[p] = peer]

\* ServerPeer::handle_succeeded_response: any response ends the request in progress.
Answered(e, p) ==
    IF e.peers[p].link = "busy" THEN [e EXCEPT !.peers[p].link = "idle"] ELSE e

DisconnectedWhileBusy(e, p) ==
    IF e.peers[p].link = "busy" THEN e ELSE [e EXCEPT !.peers[p].link = "down"]

\* on_peer_disconnected
Disconnected(e, p) == [e EXCEPT !.peers[p].link = "down"]

\* on_follower: the peers are stopped.
BecomeFollower(e) ==
    [e EXCEPT !.role = "Follower",
              !.peers = [p \in Server |-> [e.peers[p] EXCEPT !.link = "down"]]]

\* update_term and, if it did, become_follower
SeeTerm(e, t) == IF t > e.term THEN BecomeFollower([e EXCEPT !.term = t]) ELSE e

\* request_append_entries_peer for the peers P: those connected and not busy are sent to.
SendTo(e, P) ==
    [e EXCEPT !.peers = [p \in Server |->
        IF p \in P /\ e.peers[p].link = "idle" THEN [e.peers[p] EXCEPT !.link = "busy"]
                                               ELSE e.peers[p]]]

\* local_commit: up to quick_commit_index and the end of the log.
LocalCommit(e) ==
    LET n == Min({e.quick, LastIndex(e.log)})
    IN  IF n <= e.commit THEN e ELSE [e EXCEPT !.commit = n, !.log = Commit(e.log, n)]

\* commit: a leader tells its peers at once.
CommitTo(s, e, i) ==
    LET raised == [e EXCEPT !.quick = Max({e.quick, i})]
    IN  LocalCommit(IF i > e.quick /\ e.role = "Leader" THEN SendTo(raised, Peers(s))
                                                         ELSE raised)

\* request_append_entries_state
RequestAppendEntries(s, e) ==
    IF Peers(s) = {} THEN CommitTo(s, e, LastIndex(e.log)) ELSE SendTo(e, Peers(s))

\* create_append_entries_request to peer p.  A request for a state transfer carries the
\* address of the leader in place of entries.
CreateRequest(s, e, p) ==
    LET last == e.peers[p].next - 1
        gap  == LastIndex(e.log) - last >= MinGap
        upTo == Min({LastIndex(e.log), last + MaxEntries})
    IN  [type |-> "Request", from |-> s, to |-> p, term |-> e.term,
         lastTerm |-> TermAt(e.log, last), lastIndex |-> last, commit |-> e.quick,
         entries |-> IF gap THEN <<>>
                     ELSE SubSeq(e.log.entries, last - e.log.start + 2, upTo - e.log.start + 1),
         transfer |-> gap]

\* What the step from e to f of server s has sent: one request for each peer it made
\* busy.  Beyond the end of the log the assertion of create_append_entries_request panics
\* the leader instead (see NextInBounds).
Sent(s, e, f) ==
    {CreateRequest(s, f, p) :
        p \in {q \in Peers(s) : /\ e.peers[q].link # "busy" /\ f.peers[q].link = "busy"
                               /\ f.peers[q].next <= EndIndex(f.log)}}

\* append_entries keeping what it has from index i on
AppendEntriesKeepingTail(l, es, i) ==
    [l EXCEPT !.entries = l.entries \o SubSeq(es, EndIndex(l) - i + 1, Len(es))]

\* append_entries: what agrees by its term stays; from the first difference on, the
\* log is trimmed (set_at) and the rest appended.
AppendEntries(l, es, i) ==
    LET new  == {k \in 1 .. Len(es) :
                    i + k > EndIndex(l) \/ GetAt(l, i + k - 1).term # es[k].term}
        k    == Min(new)
        kept == Trim(l, i + k - 1)
    IN  IF new = {} THEN l ELSE [kept EXCEPT !.entries = kept.entries \o SubSeq(es, k, Len(es))]

LogOkByIndex(l, m) == m.lastIndex < EndIndex(l)

\* log_ok: the entry before those of the request is in the log, with its term.
LogOk(l, m) ==
    \/ m.lastIndex = 0
    \/ m.lastIndex < EndIndex(l) /\ m.lastTerm = TermAt(l, m.lastIndex)

\* A request that offers a state transfer, from where the log agrees with the leader's.
AsksTransfer(l, m) == m.transfer /\ LogOk(l, m)

RefusesBrokenLog(e, m) == ~LogOk(e.log, m) \/ e.transfer # NoTransfer

\* What handle_append_entries_request does not append, but for the transfer it asks for.
Refuses(e, m) == m.term < e.term \/ ~LogOk(e.log, m) \/ e.transfer # NoTransfer

HalfMatched(s, e) ==
    LET matched == [q \in Server |-> IF q = s THEN LastIndex(e.log) ELSE e.peers[q].matched]
    IN  Max({i \in {matched[q] : q \in Server} :
                2 * Cardinality({q \in Server : matched[q] >= i}) >= Cardinality(Server) - 1})

\* The matched indexes sorted downwards, at half of their number.
MajorityMatched(s, e) ==
    LET matched == [q \in Server |-> IF q = s THEN LastIndex(e.log) ELSE e.peers[q].matched]
    IN  Max({i \in {matched[q] : q \in Server} :
                2 * Cardinality({q \in Server : matched[q] >= i}) > Cardinality(Server)})

-----------------------------------------------------------------------------
(* The steps of server s. *)

\* s goes from e to f, which sends requests; messages "gone" were handled, "answers" sent.
Step(s, e, f, gone, answers) ==
    \E before \in {e}, after \in {f} :   \* evaluated once
        /\ srv' = [srv EXCEPT ![s] = after]
        /\ msgs' = (msgs \ gone) \cup answers \cup Sent(s, before, after)

\* s wins an election among the voters Q and becomes leader (on_leader).  The requests for
\* their votes have connected it to them; a heartbeat connects it to the others.
Elect(s, Q) ==
    LET t == 1 + Max({srv[q].term : q \in Q})
        upToDate(q) == \/ LastTerm(srv[s].log) > LastTerm(srv[q].log)
                       \/ /\ LastTerm(srv[s].log) = LastTerm(srv[q].log)
                          /\ LastIndex(srv[s].log) >= LastIndex(srv[q].log)
        e0 == [srv[s] EXCEPT !.role = "Leader", !.term = t]
        e1 == IF e0.quick # 0 THEN e0
              ELSE [e0 EXCEPT !.log = AppendTo(e0.log, [term |-> t, type |-> "Configuration"])]
        e2 == [e1 EXCEPT !.peers = [p \in Server |->
                  [e1.peers[p] EXCEPT !.next = EndIndex(e1.log),
                                      !.link = IF p \in Q THEN "idle" ELSE "down"]]]
        e3 == RequestAppendEntries(s, e2)
    IN  /\ s \in Q /\ 2 * Cardinality(Q) > Cardinality(Server)
        /\ srv[s].role = "Follower" /\ t <= MaxTerm
        /\ \A q \in Q : upToDate(q)
        /\ srv' = [q \in Server |-> IF q = s THEN e3
                                    ELSE IF q \in Q THEN SeeTerm(srv[q], t) ELSE srv[q]]
        /\ msgs' = msgs \cup Sent(s, e2, e3)
        /\ UNCHANGED faults

\* handle_publish_request with one new message, or publish of the leader's own client
Publish(s) ==
    LET e == srv[s]
        f == [e EXCEPT !.log = AppendTo(e.log, [term |-> e.term, type |-> "Application"])]
    IN  /\ e.role = "Leader" /\ EndIndex(e.log) <= MaxIndex
        /\ Step(s, f, RequestAppendEntries(s, f), {}, {})
        /\ UNCHANGED faults

\* on_timer of a leader, for a peer that can_heartbeat: it is connected if it was not.
Heartbeat(s, p) ==
    LET e == srv[s]
        f == IF e.peers[p].link = "down" THEN [e EXCEPT !.peers[p].link = "idle"] ELSE e
    IN  /\ e.role = "Leader" /\ p # s /\ e.peers[p].link # "busy"
        /\ Step(s, f, SendTo(f, {p}), {}, {})
        /\ UNCHANGED faults

\* on_timer of a leader with too many peers disconnected
StepDown(s) ==
    /\ srv[s].role = "Leader"
    /\ Cardinality({p \in Peers(s) : srv[s].peers[p].link = "down"})
           > Cardinality(Server) \div 2
    /\ srv' = [srv EXCEPT ![s] = BecomeFollower(srv[s])]
    /\ UNCHANGED <<msgs, faults>>

\* handle_failed_response or handle_peer_timeout: what is under way is lost or late.
LoseConnection(s, p) ==
    /\ faults < MaxFaults /\ faults' = faults + 1
    /\ p # s /\ srv[s].role = "Leader" /\ srv[s].peers[p].link # "down"
    /\ srv' = [srv EXCEPT ![s] = Disconnected(srv[s], p)]
    /\ \E lost \in {{}, {m \in msgs : {m.from, m.to} = {s, p}}} : msgs' = msgs \ lost

\* handle_append_entries_request.  A leader never gets one of its own term, or it panics
\* (assert_ne!).  The state transfer is asked for once.
HandleRequest(s, m) ==
    /\ m.type = "Request" /\ m.to = s
    /\ \E e \in {SeeTerm(srv[s], m.term)} :
        LET asks   == AsksTransfer(e.log, m)
            reject == asks \/ Refuses(e, m)
            asked  == [from |-> m.from, start |-> m.lastIndex + 1, applied |-> FALSE]
            answer == [type |-> "Response", from |-> s, to |-> m.from, accepted |-> ~reject,
                       term |-> e.term, transfer |-> asks,
                       next |-> IF reject THEN EndIndex(e.log)
                                          ELSE m.lastIndex + Len(m.entries) + 1]
        IN  /\ ~(e.role = "Leader" /\ m.term = e.term)
            /\ IF reject
               THEN Step(s, e, IF asks /\ e.transfer = NoTransfer
                               THEN [e EXCEPT !.transfer = asked] ELSE e, {m}, {answer})
               ELSE \E l \in {AppendEntries(e.log, m.entries, m.lastIndex + 1)} :
                        Step(s, e, CommitTo(s, [e EXCEPT !.log = l], m.commit), {m}, {answer})
    /\ UNCHANGED faults

RewindToAnswer(peer, next) == [peer EXCEPT !.next = next, !.rewind = 1]

\* The peer after a rejection by a log that does not match: the step back doubles.
Rewind(peer, next) ==
    CASE next < peer.next -> [peer EXCEPT !.next = next, !.rewind = 1]
      [] next >= peer.next /\ peer.next > peer.rewind ->
             [peer EXCEPT !.next = peer.next - peer.rewind, !.rewind = 2 * peer.rewind]
      [] OTHER -> [peer EXCEPT !.next = 1, !.rewind = 1]

\* A response of another term: only the end of the request counts (check_term).
ResponseOfOtherTerm(s, m) ==
    /\ m.term # srv[s].term
    /\ Step(s, srv[s], SeeTerm(Answered(srv[s], m.from), m.term), {m}, {})

\* handle_append_entries_response of a server that leads no more
ResponseToFollower(s, m) ==
    /\ m.term = srv[s].term /\ srv[s].role = "Follower"
    /\ Step(s, srv[s], Answered(srv[s], m.from), {m}, {})

\* handle_append_entries_response: the peer has the log up to m.next - 1.
Accepted(s, m) ==
    /\ m.accepted
    /\ \E e \in {Answered(srv[s], m.from)} :
       \E f \in {WithPeer(e, m.from, [e.peers[m.from] EXCEPT !.next = m.next,
                                        !.matched = m.next - 1, !.rewind = 1])} :
       \E i \in {MajorityMatched(s, f)} :
       \E g \in {CommitTo(s, f, i)} :
           Step(s, f, IF m.next < EndIndex(f.log) THEN SendTo(g, {m.from}) ELSE g, {m}, {})

\* handle_append_entries_response: the peer is transferring the log, or steps back.
Rejected(s, m) ==
    LET e == Answered(srv[s], m.from)
        peer == e.peers[m.from]
        waits == WithPeer(e, m.from, [peer EXCEPT !.next = m.next, !.rewind = 1])
        f == WithPeer(e, m.from, Rewind(peer, m.next))
    IN  /\ ~m.accepted
        /\ IF m.transfer THEN Step(s, waits, waits, {m}, {})
                         ELSE Step(s, f, SendTo(f, {m.from}), {m}, {})

HandleResponse(s, m) ==
    /\ m.type = "Response" /\ m.to = s
    /\ \/ ResponseOfOtherTerm(s, m)
       \/ ResponseToFollower(s, m)
       \/ /\ m.term = srv[s].term /\ srv[s].role = "Leader"
          /\ Accepted(s, m) \/ Rejected(s, m)
    /\ UNCHANGED faults

\* The applier of a state transfer writes the log of the source, read at one moment,
\* over that of s.  It is taken to serve leaders only and to write to followers only
\* (the hooks on_leader and on_follower of StateTransferProtocol).
ApplyTransfer(s) ==
    LET e   == srv[s]
        src == srv[e.transfer.from].log
    IN  /\ e.role = "Follower" /\ e.transfer # NoTransfer /\ ~e.transfer.applied
        /\ srv[e.transfer.from].role = "Leader"
        /\ e.transfer.start \in src.start .. EndIndex(src)
        /\ srv' = [srv EXCEPT ![s].log =
                       Write(e.log, [from |-> e.transfer.start,
                                     entries |-> SubSeq(src.entries,
                                         e.transfer.start - src.start + 1, Len(src.entries))]),
                              ![s].transfer.applied = TRUE]
        /\ UNCHANGED <<msgs, faults>>

\* on_state_transfer_completed: the event of a transfer that was applied, or has failed.
CompleteTransfer(s) ==
    /\ srv[s].transfer # NoTransfer
    /\ IF srv[s].transfer.applied THEN UNCHANGED faults
       ELSE faults < MaxFaults /\ faults' = faults + 1
    /\ srv' = [srv EXCEPT ![s].transfer = NoTransfer]
    /\ UNCHANGED msgs

NewPeerAtZero == [next |-> 0, matched |-> 0, rewind |-> 1, link |-> "down"]

NewPeer == [next |-> 1, matched |-> 0, rewind |-> 1, link |-> "down"]

\* start() of a new server
Init ==
    /\ srv = [s \in Server |->
                 [role |-> "Follower", term |-> 0, quick |-> 0, commit |-> 0, log |-> EmptyLog,
                  transfer |-> NoTransfer, peers |-> [p \in Server |-> NewPeer]]]
    /\ msgs = {}
    /\ faults = 0

Next ==
    \E s \in Server :
        \/ \E Q \in SUBSET Server : Elect(s, Q)
        \/ Publish(s)
        \/ \E p \in Server : Heartbeat(s, p) \/ LoseConnection(s, p)
        \/ StepDown(s)
        \/ \E m \in msgs : HandleRequest(s, m) \/ HandleResponse(s, m)
        \/ ApplyTransfer(s)
        \/ CompleteTransfer(s)

Spec == Init /\ [][Next]_vars

-----------------------------------------------------------------------------
Leads(s, t) == srv[s].role = "Leader" /\ srv[s].term = t

(***************************************************************************)
(* A state transfer ends in the term it was asked for in, and no late      *)
(* request asks for one.  The code does not see to it: what holds of logs  *)
(* as long as it is so is a matter of its own.                             *)
(***************************************************************************)
TransfersInTerm ==
    /\ \A s \in Server : srv[s].transfer # NoTransfer =>
           srv[s].role = "Follower" /\ Leads(srv[s].transfer.from, srv[s].term)
    /\ \A m \in msgs : m.type = "Request" /\ m.transfer => m.term >= srv[m.to].term

(***************************************************************************)
(* A follower that begins a state transfer answers the end of its log,     *)
(* which is no further than the leader's.  The code does not see to this   *)
(* either, and takes that answer for the next index.                       *)
(***************************************************************************)
AnswersWithin ==
    \A m \in msgs : (m.type = "Response" /\ m.transfer /\ Leads(m.to, m.term))
                    => m.next <= EndIndex(srv[m.to].log)

(***************************************************************************)
(* Two logs with an entry of one term at one index agree up to it.  The    *)
(* code compares terms only (append_entries, log_ok), at one index, and    *)
(* trusts this for all that comes before, whichever late request of which  *)
(* leader it is handling.                                                  *)
(***************************************************************************)
LogMatching ==
    \A s, q \in Server : \A i \in srv[s].log.start .. LastIndex(srv[s].log) :
        (i \in srv[q].log.start .. LastIndex(srv[q].log)
             /\ GetAt(srv[s].log, i).term = GetAt(srv[q].log, i).term)
        => \A k \in srv[s].log.start .. i : GetAt(srv[s].log, k) = GetAt(srv[q].log, k)

(***************************************************************************)
(* An accepted answer stays true: as long as the one who gave it is in its *)
(* term, its log agrees with the leader's up to the index it answered,     *)
(* whatever it handles before the answer arrives.  Commits count on it.    *)
(***************************************************************************)
AnswersHold ==
    \A m \in msgs :
        LET l == srv[m.to].log
            f == srv[m.from].log
        IN  (m.type = "Response" /\ m.accepted /\ srv[m.to].role = "Leader"
                 /\ m.term = srv[m.to].term /\ m.term = srv[m.from].term)
            => m.next - 1 <= Min({LastIndex(l), LastIndex(f)})
               /\ \A i \in 1 .. m.next - 1 : GetAt(l, i) = GetAt(f, i)

(***************************************************************************)
(* The next index of a peer is within the leader's log or its end: the     *)
(* assertion of create_append_entries_request (replication.rs:1029), which *)
(* panics the leader, and the range it reads.                              *)
(***************************************************************************)
NextInBounds ==
    \A s \in Server : srv[s].role = "Leader" =>
        \A p \in Peers(s) : srv[s].peers[p].next <= EndIndex(srv[s].log)

(***************************************************************************)
(* While a server leads a term, its log only grows: no late request and no *)
(* state transfer takes an entry back that it may have counted.            *)
(***************************************************************************)
LeaderKeepsItsLog ==
    [][\A s \in Server :
          (srv[s].role = "Leader" /\ srv'[s].role = "Leader" /\ srv[s].term = srv'[s].term)
          => IsPrefix(srv[s].log.entries, srv'[s].log.entries)]_vars

(***************************************************************************)
(* A leader counts matched indexes only up to an entry of its own term     *)
(* (Raft, 5.4.2).  handle_append_entries_response counts for an entry of   *)
(* any term.                                                               *)
(***************************************************************************)
OwnTermCommits ==
    \A s \in Server : srv'[s].role = "Leader" /\ srv'[s].quick > srv[s].quick
                      => TermAt(srv'[s].log, srv'[s].quick) = srv'[s].term

(***************************************************************************)
(* A follower commits only what the request has compared or brought, or    *)
(* what ends with an entry of the leader's term.                           *)
(* handle_append_entries_request takes the commit index of the request up  *)
(* to the end of the follower's log, whatever is there.                    *)
(***************************************************************************)
ComparedCommits ==
    \A s \in Server : \A m \in msgs :
        HandleRequest(s, m) =>
            \/ srv'[s].commit <= Max({srv[s].commit, m.lastIndex + Len(m.entries)})
            \/ LastTerm(srv'[s].log) = m.term

(***************************************************************************)
(* What a new leader has matched, in an earlier term, is no further than   *)
(* its log.  Neither on_leader nor ServerPeer::start resets matched_index. *)
(***************************************************************************)
MatchesWithin ==
    \A s \in Server : srv[s].role = "Follower" /\ srv'[s].role = "Leader" =>
        \A p \in Peers(s) : srv[s].peers[p].matched <= LastIndex(srv[s].log)

(***************************************************************************)
(* What one server has committed, no other has committed otherwise.        *)
(***************************************************************************)
CommittedAgree ==
    \A s, q \in Server : \A i \in 1 .. Min({srv[s].commit, srv[q].commit}) :
        GetAt(srv[s].log, i) = GetAt(srv[q].log, i)

(***************************************************************************)
(* What any server has committed is in the logs of a majority.             *)
(***************************************************************************)
CommittedOnMajority ==
    \A s \in Server :
        LET l == srv[s].log
            has(q) == \A i \in 1 .. srv[s].commit :
                          i <= LastIndex(srv[q].log) /\ GetAt(srv[q].log, i) = GetAt(l, i)
        IN  Cardinality({q \in Server : has(q)}) > Cardinality(Server) \div 2

-----------------------------------------------------------------------------
HandleRequestFrom(s, p)  == \E m \in msgs : m.from = p /\ HandleRequest(s, m)
HandleResponseFrom(s, p) == \E m \in msgs : m.from = p /\ HandleResponse(s, m)
CompleteApplied(s) == srv[s].transfer.applied /\ CompleteTransfer(s)

(***************************************************************************)
(* The event loops run, timers fire, a connection that is not lost         *)
(* delivers, and a transfer goes on.  Nothing is asked of clients, of      *)
(* elections, or of a leader to step down.                                 *)
(***************************************************************************)
FairLeader(s) ==
    \A p \in Peers(s) : /\ WF_vars(Heartbeat(s, p))
                        /\ WF_vars(HandleRequestFrom(p, s))
                        /\ WF_vars(HandleResponseFrom(s, p))
FairTransfer(s) == WF_vars(ApplyTransfer(s)) /\ WF_vars(CompleteApplied(s))

FairSpec == Spec /\ \A s \in Server : FairLeader(s) /\ FairTransfer(s)

(***************************************************************************)
(* A server that leads for good brings every log to its own, and commits   *)
(* all of it: however far apart the logs are, stepping back finds where    *)
(* they agree, and no lost connection leaves a peer busy.                  *)
(***************************************************************************)
Replicated(s) ==
    \A q \in Server : /\ srv[q].log.entries = srv[s].log.entries
                      /\ srv[q].commit = LastIndex(srv[s].log)

CatchUpWith(s) == <>[](srv[s].role = "Leader") => <>[]Replicated(s)
=============================================================================
