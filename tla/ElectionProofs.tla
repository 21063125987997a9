--------------------------- MODULE ElectionProofs ---------------------------
(***************************************************************************)
(* Proofs about Election, for any group, any logs and any bound on the     *)
(* terms: first what a server remembers of its vote, and that Election     *)
(* implements Ballot; then what is counted in a round, and who may lead by *)
(* it.                                                                     *)
(***************************************************************************)
EXTENDS Election, FiniteSetTheorems, TLAPS

USE ElectionAssumption

(***************************************************************************)
(* What a server remembers of its vote is what is on its disk: no handler  *)
(* ends with a term or a vote that a crash would take back.                *)
(***************************************************************************)
Remembers(e) == e.disk = [term |-> e.term, votedFor |-> e.votedFor]

\* The inductive invariant: the types, and MemoryOnDisk.
MemoryOnDisk == \A s \in Server : Remembers(srv[s])

IInv == TypeOK /\ MemoryOnDisk

-----------------------------------------------------------------------------
(* What the helpers return. *)

LEMMA RoundTypes ==
    ASSUME NEW s \in Server, NEW p \in BOOLEAN
    PROVE  ClearElectionState \in Round /\ OpenRound(s, p) \in Round
BY DEF ClearElectionState, OpenRound, Round

LEMMA StateTypes ==
    ASSUME NEW e \in ServerState, Remembers(e), NEW t \in Term, NEW c \in Server
    PROVE  /\ UpdateTerm(e, t) \in ServerState /\ Remembers(UpdateTerm(e, t))
           /\ BecomeFollower(e) \in ServerState /\ Remembers(BecomeFollower(e))
           /\ StepDown(e, t) \in ServerState /\ Remembers(StepDown(e, t))
           /\ DelayElection(e) \in ServerState /\ Remembers(DelayElection(e))
           /\ BecomeLeader(e) \in ServerState /\ Remembers(BecomeLeader(e))
           /\ Grant(e, c) \in ServerState /\ Remembers(Grant(e, c))
<1>1. ClearElectionState \in Round
  BY RoundTypes
<1> USE DEF ServerState, Remembers, Role, Disk, Round
<1>2. UpdateTerm(e, t) \in ServerState /\ Remembers(UpdateTerm(e, t))
  BY DEF UpdateTerm, WriteState
<1>3. BecomeFollower(e) \in ServerState /\ Remembers(BecomeFollower(e))
  BY <1>1 DEF BecomeFollower
<1>4. StepDown(e, t) \in ServerState /\ Remembers(StepDown(e, t))
  <2> DEFINE u == UpdateTerm(e, t)
  <2>1. u \in ServerState /\ Remembers(u)
    BY <1>2
  <2> HIDE DEF u
  <2>2. BecomeFollower(u) \in ServerState /\ Remembers(BecomeFollower(u))
    BY <1>1, <2>1 DEF BecomeFollower
  <2> QED BY <2>2 DEF StepDown, u
<1>5. DelayElection(e) \in ServerState /\ Remembers(DelayElection(e))
  BY DEF DelayElection
<1>6. BecomeLeader(e) \in ServerState /\ Remembers(BecomeLeader(e))
  BY DEF BecomeLeader
<1>7. Grant(e, c) \in ServerState /\ Remembers(Grant(e, c))
  BY DEF Grant, WriteState
<1> QED BY <1>2, <1>3, <1>4, <1>5, <1>6, <1>7

\* The steps of a candidacy: the next term is entered without a vote, and then the
\* server votes for itself, unless it is alone.
LEMMA CandidacyTypes ==
    ASSUME NEW e \in ServerState, e.term < MaxTerm, NEW s \in Server
    PROVE  /\ EnterCandidacy(e).disk = [term |-> e.term + 1, votedFor |-> None]
           /\ BecomeCandidate(s, e) \in ServerState
           /\ Remembers(BecomeCandidate(s, e))
           /\ BecomeCandidate(s, e).term = e.term + 1
           /\ BecomeCandidate(s, e).votedFor = IF Peers(s) = {} THEN None ELSE s
<1> DEFINE c == [EnterCandidacy(e) EXCEPT !.round = ClearElectionState, !.timer = TRUE]
<1>1. ClearElectionState \in Round /\ OpenRound(s, FALSE) \in Round
  BY RoundTypes
<1>2. e.term \in Nat /\ e.term + 1 \in Term
  BY DEF ServerState, Term
<1>3. EnterCandidacy(e).disk = [term |-> e.term + 1, votedFor |-> None]
  BY DEF EnterCandidacy, WriteState, ServerState
<1>4. /\ c \in ServerState /\ Remembers(c)
      /\ c.term = e.term + 1 /\ c.votedFor = None
  BY <1>1, <1>2 DEF EnterCandidacy, WriteState, ServerState, Remembers, Role, Disk
<1> HIDE DEF c
<1>5. CASE Peers(s) = {}
  <2>1. BecomeCandidate(s, e) = BecomeLeader(c)
    BY <1>5 DEF BecomeCandidate, c
  <2>2. BecomeLeader(c) \in ServerState /\ Remembers(BecomeLeader(c))
    BY <1>2, <1>4, StateTypes
  <2>3. BecomeLeader(c).term = c.term /\ BecomeLeader(c).votedFor = c.votedFor
    BY <1>4 DEF BecomeLeader, ServerState
  <2> QED BY <1>3, <1>4, <1>5, <2>1, <2>2, <2>3
<1>6. CASE Peers(s) # {}
  <2> DEFINE d == WriteState([c EXCEPT !.votedFor = s, !.round = OpenRound(s, FALSE)])
  <2>1. BecomeCandidate(s, e) = d
    BY <1>6 DEF BecomeCandidate, c
  <2>2. d \in ServerState /\ Remembers(d) /\ d.term = c.term /\ d.votedFor = s
    BY <1>1, <1>4 DEF WriteState, ServerState, Remembers, Disk
  <2> QED BY <1>3, <1>4, <1>6, <2>1, <2>2
<1> QED BY <1>5, <1>6

\* What the helpers leave on disk.
LEMMA HelperDisks ==
    ASSUME NEW e \in ServerState, NEW t \in Term, NEW c \in Server
    PROVE  /\ BecomeFollower(e).disk = e.disk
           /\ DelayElection(e).disk = e.disk
           /\ BecomeLeader(e).disk = e.disk
           /\ StepDown(e, t).disk = [term |-> t, votedFor |-> None]
           /\ StepDown(e, t).term = t /\ StepDown(e, t).votedFor = None
           /\ Grant(e, c).disk = [term |-> e.term, votedFor |-> c]
BY DEF BecomeFollower, DelayElection, BecomeLeader, StepDown, UpdateTerm, Grant, WriteState,
       ServerState

LEMMA MessageKinds ==
    ASSUME TypeOK, NEW m \in msgs
    PROVE  /\ m.type = "VoteRequest" => m \in Request
           /\ m.type = "VoteResponse" => m \in Response
           /\ m.type = "AppendResponse" => m \in Refusal
BY DEF TypeOK, Request, Response, Refusal

LEMMA SentTypes ==
    ASSUME TypeOK, NEW s \in Server, NEW e, e.term \in Term, NEW p \in BOOLEAN
    PROVE  /\ VoteRequests(s, e, p) \subseteq Request
           /\ \A m \in Request : VoteResponse(s, m, e, p) \in Response
<1>1. ASSUME NEW q \in Peers(s)
      PROVE  [type |-> "VoteRequest", from |-> s, to |-> q, term |-> e.term,
              last |-> lastEntry[s], preVote |-> p] \in Request
  BY DEF TypeOK, Request, Peers
<1>2. \A m \in Request : VoteResponse(s, m, e, p) \in Response
  BY DEF VoteResponse, Request, Response
<1> QED BY <1>1, <1>2 DEF VoteRequests

-----------------------------------------------------------------------------
(***************************************************************************)
(* The refinement mapping: the disks are the ballots of the book, and the  *)
(* votes handed out those it records.                                      *)
(***************************************************************************)
disks == [s \in Server |-> srv[s].disk]

BookStep == Book!Next \/ UNCHANGED <<disks, grants>>

(***************************************************************************)
(* What a handler that turns the state of s into e must show: that e is    *)
(* well formed and remembered, that s goes to a later term without a vote, *)
(* votes, or leaves its disk alone, and that the other variables keep      *)
(* their types.                                                            *)
(***************************************************************************)
NewVote(s, e, c) ==
    /\ e.term >= srv[s].term
    /\ e.term = srv[s].term => srv[s].votedFor \in {None, c}
    /\ e.votedFor = c
    /\ grants' = grants \cup {[voter |-> s, term |-> e.term, candidate |-> c]}

Outcome(s, e) ==
    /\ e \in ServerState /\ Remembers(e)
    /\ Become(s, e)
    /\ \/ e.disk = srv[s].disk /\ grants' = grants
       \/ e.term > srv[s].term /\ e.votedFor = None /\ grants' = grants
       \/ \E c \in Server : NewVote(s, e, c)

OthersTyped ==
    /\ msgs' \subseteq (Request \cup Response \cup Refusal)
    /\ lastEntry' \in [Server -> LastEntries]
    /\ leads' \subseteq (Server \X Term)
    /\ answers' \subseteq Vote

LEMMA OutcomeIsSafe ==
    ASSUME IInv, NEW s \in Server, NEW e, Outcome(s, e), OthersTyped
    PROVE  IInv' /\ BookStep
<1>1. /\ e \in ServerState /\ Remembers(e)
      /\ srv \in [Server -> ServerState]
      /\ srv' = [srv EXCEPT ![s] = e]
  BY DEF Outcome, IInv, TypeOK, Become
<1>2. srv' \in [Server -> ServerState]
  BY <1>1
<1>3. MemoryOnDisk'
  BY <1>1 DEF IInv, MemoryOnDisk
<1>4. /\ disks' = [disks EXCEPT ![s] = e.disk] /\ disks[s] = srv[s].disk
      /\ e.disk = [term |-> e.term, votedFor |-> e.votedFor]
      /\ srv[s].disk = [term |-> srv[s].term, votedFor |-> srv[s].votedFor]
  BY <1>1 DEF disks, Remembers, IInv, MemoryOnDisk
<1>5. e.term \in Term /\ srv[s].term \in Term /\ Term \subseteq Nat
  BY <1>1 DEF ServerState, Term
<1>6. CASE e.disk = srv[s].disk /\ grants' = grants
  <2>1. grants' \subseteq Vote
    BY <1>6 DEF IInv, TypeOK
  <2>2. disks' = disks
    BY <1>1, <1>6 DEF disks
  <2> QED BY <1>2, <1>3, <1>6, <2>1, <2>2 DEF IInv, TypeOK, OthersTyped, BookStep
<1>7. CASE e.term > srv[s].term /\ e.votedFor = None /\ grants' = grants
  <2>1. grants' \subseteq Vote
    BY <1>7 DEF IInv, TypeOK
  <2>2. Book!EnterTerm(s, e.term)
    BY <1>4, <1>7 DEF Book!EnterTerm, disks
  <2> QED BY <1>2, <1>3, <1>5, <2>1, <2>2 DEF IInv, TypeOK, OthersTyped, BookStep, Book!Next
<1>8. ASSUME NEW c \in Server, NewVote(s, e, c)
      PROVE  IInv' /\ BookStep
  <2>1. grants' \subseteq Vote
    BY <1>5, <1>8 DEF IInv, TypeOK, NewVote, Vote
  <2>2. Book!CastVote(s, e.term, c)
    <3>1. /\ disks[s].term = srv[s].term /\ disks[s].votedFor = srv[s].votedFor
          /\ e.disk = [term |-> e.term, votedFor |-> c]
      BY <1>4, <1>8 DEF NewVote
    <3>2. \/ e.term > disks[s].term
          \/ e.term = disks[s].term /\ disks[s].votedFor \in {None, c}
      <4>1. e.term \in Nat /\ srv[s].term \in Nat /\ e.term >= srv[s].term
        BY <1>5, <1>8 DEF NewVote
      <4>2. e.term > srv[s].term \/ e.term = srv[s].term
        BY <4>1
      <4>3. e.term = srv[s].term => srv[s].votedFor \in {None, c}
        BY <1>8 DEF NewVote
      <4> QED BY <3>1, <4>2, <4>3
    <3>3. disks' = [disks EXCEPT ![s] = [term |-> e.term, votedFor |-> c]]
      BY <1>4, <3>1
    <3> QED BY <1>8, <3>2, <3>3 DEF Book!CastVote, disks, NewVote
  <2> QED BY <1>2, <1>3, <1>5, <2>1, <2>2 DEF IInv, TypeOK, OthersTyped, BookStep, Book!Next
<1> QED BY <1>6, <1>7, <1>8 DEF Outcome

-----------------------------------------------------------------------------
(* The handlers, one by one. *)

LEMMA StateOf ==
    ASSUME IInv, NEW s \in Server
    PROVE  /\ srv[s] \in ServerState /\ Remembers(srv[s])
           /\ srv[s].disk = [term |-> srv[s].term, votedFor |-> srv[s].votedFor]
           /\ srv[s].disk \in Disk /\ srv[s].term \in Term /\ srv[s].term \in Nat
BY DEF IInv, TypeOK, MemoryOnDisk, Remembers, ServerState, Term

\* A candidacy is one outcome: the server enters a term and votes in it for itself.
LEMMA StartCandidacySafe ==
    ASSUME IInv, NEW s \in Server, NEW e \in ServerState, NEW inFlight,
           e.disk = srv[s].disk, e.term = srv[s].term,
           inFlight \subseteq msgs, StartCandidacy(s, e, inFlight),
           UNCHANGED <<lastEntry, answers>>
    PROVE  IInv' /\ BookStep
<1> DEFINE c == BecomeCandidate(s, e)
<1>1. /\ e.term < MaxTerm
      /\ Become(s, c)
      /\ msgs' = inFlight \cup VoteRequests(s, c, FALSE)
      /\ Announce(s, c)
      /\ VoteForSelf(s, c)
  BY DEF StartCandidacy
<1>2. /\ c \in ServerState /\ Remembers(c) /\ c.term = e.term + 1
      /\ c.votedFor = IF Peers(s) = {} THEN None ELSE s
  BY <1>1, CandidacyTypes
<1> HIDE DEF c
<1>3. /\ c.term \in Term
      /\ c.term > srv[s].term /\ c.term >= srv[s].term /\ c.term # srv[s].term
  <2>1. srv[s].term \in Nat /\ c.term = srv[s].term + 1
    BY <1>2, StateOf
  <2>2. c.term \in Term
    BY <1>2 DEF ServerState
  <2>3. c.term > srv[s].term /\ c.term >= srv[s].term /\ c.term # srv[s].term
    BY <2>1
  <2> QED BY <2>2, <2>3
<1>4. Outcome(s, c)
  <2>1. CASE c.votedFor = s
    <3>1. NewVote(s, c, s)
      BY <1>1, <1>3, <2>1 DEF VoteForSelf, NewVote
    <3> QED BY <1>1, <1>2, <3>1 DEF Outcome
  <2>2. CASE c.votedFor # s
    BY <1>1, <1>2, <1>3, <2>2 DEF Outcome, VoteForSelf
  <2> QED BY <2>1, <2>2
<1>5. OthersTyped
  <2>1. VoteRequests(s, c, FALSE) \subseteq Request
    BY <1>3, SentTypes DEF IInv
  <2>2. msgs' \subseteq (Request \cup Response \cup Refusal)
    BY <1>1, <2>1 DEF IInv, TypeOK
  <2>3. leads' \subseteq (Server \X Term)
    BY <1>1, <1>3 DEF IInv, TypeOK, Announce
  <2> QED BY <2>2, <2>3 DEF OthersTyped, IInv, TypeOK
<1> QED BY <1>4, <1>5, OutcomeIsSafe

LEMMA ElectionTimeoutSafe ==
    ASSUME IInv, NEW s \in Server, ElectionTimeout(s)
    PROVE  IInv' /\ BookStep
<1>1. /\ srv[s] \in ServerState /\ Remembers(srv[s]) /\ srv[s].term \in Term
      /\ ClearElectionState \in Round /\ OpenRound(s, TRUE) \in Round
  BY StateOf, RoundTypes
<1>2. CASE Peers(s) = {}
  <2> DEFINE e == [srv[s] EXCEPT !.round = ClearElectionState]
  <2>1. e \in ServerState /\ e.disk = srv[s].disk /\ e.term = srv[s].term
    BY <1>1 DEF ServerState
  <2>2. StartCandidacy(s, e, msgs) /\ UNCHANGED <<lastEntry, answers>>
    BY <1>2 DEF ElectionTimeout
  <2> HIDE DEF e
  <2> QED BY <2>1, <2>2, StartCandidacySafe
<1>3. CASE Peers(s) # {}
  <2> DEFINE e == [srv[s] EXCEPT !.round = OpenRound(s, TRUE)]
  <2>1. e \in ServerState /\ Remembers(e) /\ e.disk = srv[s].disk
    BY <1>1 DEF ServerState, Remembers
  <2>2. /\ Become(s, e)
        /\ msgs' = msgs \cup VoteRequests(s, srv[s], TRUE)
        /\ UNCHANGED <<leads, grants, lastEntry, answers>>
    BY <1>3 DEF ElectionTimeout
  <2> HIDE DEF e
  <2>3. Outcome(s, e)
    BY <2>1, <2>2 DEF Outcome
  <2>4. VoteRequests(s, srv[s], TRUE) \subseteq Request
    BY <1>1, SentTypes DEF IInv
  <2>5. OthersTyped
    BY <2>2, <2>4 DEF OthersTyped, IInv, TypeOK
  <2> QED BY <2>3, <2>5, OutcomeIsSafe
<1> QED BY <1>2, <1>3

\* Taking over the term of a request is a legal page of the book.
LEMMA AfterTermOfTypes ==
    ASSUME IInv, NEW s \in Server, NEW m \in Request
    PROVE  LET e == AfterTermOf(srv[s], m)
           IN  /\ e \in ServerState /\ Remembers(e)
               /\ \/ e = srv[s]
                  \/ e.term > srv[s].term /\ e.votedFor = None
<1>1. m.term \in Term /\ srv[s] \in ServerState /\ Remembers(srv[s])
  BY StateOf DEF Request
<1>2. CASE ~m.preVote /\ m.term > srv[s].term
  <2>1. AfterTermOf(srv[s], m) = StepDown(srv[s], m.term)
    BY <1>2 DEF AfterTermOf
  <2> DEFINE e == StepDown(srv[s], m.term)
  <2>2. e \in ServerState /\ Remembers(e)
    BY <1>1, StateTypes
  <2>3. e.term = m.term /\ e.votedFor = None
    BY <1>1, HelperDisks
  <2>4. e.term > srv[s].term
    BY <1>2, <2>3
  <2> QED BY <2>1, <2>2, <2>3, <2>4
<1>3. CASE ~(~m.preVote /\ m.term > srv[s].term)
  BY <1>1, <1>3 DEF AfterTermOf
<1> QED BY <1>2, <1>3

LEMMA HandleVoteRequestSafe ==
    ASSUME IInv, NEW s \in Server, HandleVoteRequest(s)
    PROVE  IInv' /\ BookStep
<1>1. PICK m \in msgs :
        /\ m.type = "VoteRequest" /\ m.to = s
        /\ RejectVoteRequest(s, m) \/ GrantPreVote(s, m) \/ GrantVote(s, m)
  BY DEF HandleVoteRequest
<1>2. UNCHANGED <<lastEntry, leads>>
  BY DEF HandleVoteRequest
<1>3. m \in Request /\ m.from \in Server
  BY <1>1, MessageKinds DEF IInv, Request
<1>4. srv[s] \in ServerState /\ Remembers(srv[s]) /\ srv[s].term \in Term
  BY StateOf
<1> DEFINE a == AfterTermOf(srv[s], m)
<1>5. /\ a \in ServerState /\ Remembers(a)
      /\ a = srv[s] \/ (a.term > srv[s].term /\ a.votedFor = None)
  BY <1>3, AfterTermOfTypes
<1>6. /\ a.term \in Term
      /\ \A p \in BOOLEAN : VoteResponse(s, m, a, p) \in Response
      /\ \A p \in BOOLEAN : VoteResponse(s, m, srv[s], p) \in Response
      /\ VoteBy(s, m, a) \in Vote /\ VoteBy(s, m, srv[s]) \in Vote
  <2>1. a.term \in Term
    BY <1>5 DEF ServerState
  <2> HIDE DEF a
  <2> QED BY <2>1, <1>3, <1>4, SentTypes DEF VoteBy, Vote, IInv
<1> HIDE DEF a
<1>7. CASE RejectVoteRequest(s, m)
  <2> DEFINE e == IF srv[s].heard THEN srv[s] ELSE a
  <2>1. /\ Become(s, e)
        /\ msgs' = Consume(m) \cup {VoteResponse(s, m, e, FALSE)}
        /\ UNCHANGED <<grants, answers>>
    BY <1>7 DEF RejectVoteRequest, a
  <2>2. Outcome(s, e)
    BY <1>4, <1>5, <2>1 DEF Outcome
  <2>3. OthersTyped
    BY <1>2, <1>6, <2>1 DEF OthersTyped, IInv, TypeOK, Consume
  <2> QED BY <2>2, <2>3, OutcomeIsSafe
<1>8. CASE GrantPreVote(s, m)
  <2>1. Become(s, srv[s])
    BY <1>8 DEF GrantPreVote, Become, IInv, TypeOK
  <2>2. Outcome(s, srv[s])
    BY <1>4, <1>8, <2>1 DEF Outcome, GrantPreVote
  <2>3. OthersTyped
    BY <1>2, <1>6, <1>8 DEF OthersTyped, IInv, TypeOK, Consume, GrantPreVote
  <2> QED BY <2>2, <2>3, OutcomeIsSafe
<1>9. CASE GrantVote(s, m)
  <2>1. /\ ~m.preVote /\ Accepts(s, a, m)
        /\ Become(s, Grant(a, m.from))
        /\ msgs' = Consume(m) \cup {VoteResponse(s, m, a, TRUE)}
        /\ grants' = grants \cup {VoteBy(s, m, a)}
        /\ answers' = answers \cup {VoteBy(s, m, a)}
    BY <1>9 DEF GrantVote, a
  <2> DEFINE e == Grant(a, m.from)
  <2>2. /\ e \in ServerState /\ Remembers(e)
        /\ e.term = a.term /\ e.votedFor = m.from
    <3>1. e.term = a.term /\ e.votedFor = m.from
      BY <1>5 DEF Grant, WriteState, ServerState
    <3> QED BY <1>3, <1>5, <1>6, <3>1, StateTypes
  <2>3. a.votedFor \in {None, m.from}
    BY <2>1 DEF Accepts
  <2> HIDE DEF e
  <2>4. NewVote(s, e, m.from)
    BY <1>4, <1>5, <1>6, <2>1, <2>2, <2>3 DEF NewVote, VoteBy, Term
  <2>5. Outcome(s, e)
    BY <1>3, <2>1, <2>2, <2>4 DEF Outcome, e
  <2>6. OthersTyped
    BY <1>2, <1>6, <2>1 DEF OthersTyped, IInv, TypeOK, Consume
  <2> QED BY <2>5, <2>6, OutcomeIsSafe
<1> QED BY <1>1, <1>7, <1>8, <1>9

LEMMA HandleVoteResponseSafe ==
    ASSUME IInv, NEW s \in Server, HandleVoteResponse(s)
    PROVE  IInv' /\ BookStep
<1>1. PICK m \in msgs :
        /\ m.type = "VoteResponse" /\ m.to = s
        /\ \/ ResponseOfOtherTerm(s, m)
           \/ m.term = srv[s].term /\ (IgnoredResponse(s, m) \/ CountedResponse(s, m))
  BY DEF HandleVoteResponse
<1>2. UNCHANGED <<lastEntry, answers>>
  BY DEF HandleVoteResponse
<1>3. m \in Response /\ m.from \in Server /\ m.term \in Term /\ m.accepted \in BOOLEAN
  BY <1>1, MessageKinds DEF IInv, Response
<1>4. srv[s] \in ServerState /\ Remembers(srv[s])
  BY StateOf
<1>5. Consume(m) \subseteq msgs
  BY DEF Consume
<1>6. CASE ResponseOfOtherTerm(s, m)
  <2> DEFINE e == IF m.term > srv[s].term THEN StepDown(srv[s], m.term) ELSE srv[s]
  <2>1. Become(s, e) /\ msgs' = Consume(m) /\ UNCHANGED <<leads, grants>>
    BY <1>6 DEF ResponseOfOtherTerm
  <2>2. Outcome(s, e)
    <3>1. CASE m.term > srv[s].term
      <4>1. /\ e \in ServerState /\ Remembers(e)
            /\ e.term = m.term /\ e.votedFor = None
        BY <1>3, <1>4, <3>1, StateTypes, HelperDisks
      <4> HIDE DEF e
      <4>2. e.term > srv[s].term
        BY <3>1, <4>1
      <4> QED BY <2>1, <4>1, <4>2 DEF Outcome
    <3>2. CASE ~(m.term > srv[s].term)
      BY <1>4, <2>1, <3>2 DEF Outcome
    <3> QED BY <3>1, <3>2
  <2>3. OthersTyped
    BY <1>2, <1>5, <2>1 DEF OthersTyped, IInv, TypeOK
  <2> QED BY <2>2, <2>3, OutcomeIsSafe
<1>7. CASE IgnoredResponse(s, m)
  <2>1. Outcome(s, srv[s])
    BY <1>4, <1>7 DEF Outcome, IgnoredResponse, Become, IInv, TypeOK
  <2>2. OthersTyped
    BY <1>2, <1>5, <1>7 DEF OthersTyped, IInv, TypeOK, IgnoredResponse
  <2> QED BY <2>1, <2>2, OutcomeIsSafe
<1>8. CASE CountedResponse(s, m)
  <2> DEFINE r == CountVote(srv[s].round, m)
             e == [srv[s] EXCEPT !.round = r]
  <2>1. r \in Round
    <3>1. srv[s].round \in Round
      BY <1>4 DEF ServerState
    <3>2. srv[s].round.voted \cup {m.from} \in SUBSET Server
      BY <1>3, <3>1 DEF Round
    <3>3. IsFiniteSet(srv[s].round.voted \cup {m.from})
      BY <3>2, FS_Subset
    <3>4. /\ Cardinality(srv[s].round.voted \cup {m.from}) \in Nat
          /\ GroupSize \in Nat
      BY <3>3, FS_CardinalityType DEF GroupSize
    <3>5. (Cardinality(srv[s].round.voted \cup {m.from}) >= GroupSize) \in BOOLEAN
      BY <3>4
    <3>6. srv[s].round.granted + (IF m.accepted THEN 1 ELSE 0) \in Nat
      BY <3>1 DEF Round
    <3> QED BY <3>1, <3>2, <3>5, <3>6 DEF CountVote, Round
  <2> HIDE DEF r
  <2>2. e \in ServerState /\ Remembers(e) /\ e.disk = srv[s].disk /\ e.term = srv[s].term
    BY <1>4, <2>1 DEF ServerState, Remembers
  <2>3. CASE StartCandidacy(s, e, Consume(m))
    <3> HIDE DEF e
    <3> QED BY <1>2, <1>5, <2>2, <2>3, StartCandidacySafe
  <2>4. CASE /\ Become(s, BecomeLeader(e)) /\ Announce(s, BecomeLeader(e))
             /\ msgs' = Consume(m) /\ UNCHANGED grants
    <3> DEFINE l == BecomeLeader(e)
    <3> HIDE DEF e
    <3>1. /\ l \in ServerState /\ Remembers(l) /\ l.disk = srv[s].disk
          /\ l.term \in Term
      <4>1. l \in ServerState /\ Remembers(l) /\ l.disk = srv[s].disk
        BY <1>3, <2>2, StateTypes, HelperDisks
      <4> QED BY <4>1 DEF ServerState
    <3> HIDE DEF l
    <3>2. Outcome(s, l)
      BY <2>4, <3>1 DEF Outcome, l
    <3>3. OthersTyped
      BY <1>2, <1>5, <2>4, <3>1 DEF OthersTyped, IInv, TypeOK, Announce, l
    <3> QED BY <3>2, <3>3, OutcomeIsSafe
  <2>5. CASE Become(s, e) /\ msgs' = Consume(m) /\ UNCHANGED <<leads, grants>>
    <3> HIDE DEF e
    <3>1. Outcome(s, e)
      BY <2>2, <2>5 DEF Outcome
    <3>2. OthersTyped
      BY <1>2, <1>5, <2>5 DEF OthersTyped, IInv, TypeOK
    <3> QED BY <3>1, <3>2, OutcomeIsSafe
  <2> QED BY <1>8, <2>3, <2>4, <2>5 DEF CountedResponse, WinsPreVote, r
<1> QED BY <1>1, <1>6, <1>7, <1>8

\* A term t that s hears of, in a heartbeat or in an answer to one.
LEMMA TermHeard ==
    ASSUME IInv, NEW s \in Server, NEW t \in Term
    PROVE  LET e == IF t > srv[s].term THEN StepDown(srv[s], t) ELSE srv[s]
           IN  /\ e \in ServerState /\ Remembers(e) /\ e.term \in Term
               /\ \/ e = srv[s]
                  \/ e.term > srv[s].term /\ e.votedFor = None
<1>1. /\ srv[s] \in ServerState /\ Remembers(srv[s]) /\ srv[s].term \in Term
  BY StateOf
<1>2. CASE t > srv[s].term
  <2> DEFINE e == StepDown(srv[s], t)
  <2>1. e \in ServerState /\ Remembers(e) /\ e.term = t /\ e.votedFor = None
    BY <1>1, StateTypes, HelperDisks
  <2>2. e.term > srv[s].term
    BY <1>2, <2>1
  <2> QED BY <1>2, <2>1, <2>2
<1>3. CASE ~(t > srv[s].term)
  BY <1>1, <1>3
<1> QED BY <1>2, <1>3

\* Any step of s that keeps the term and the disk of e, which s has after TermHeard.
LEMMA SameDiskOutcome ==
    ASSUME IInv, NEW s \in Server, NEW e \in ServerState, NEW f \in ServerState,
           Remembers(e), Remembers(f), f.disk = e.disk,
           e = srv[s] \/ (e.term > srv[s].term /\ e.votedFor = None),
           Become(s, f), UNCHANGED grants
    PROVE  Outcome(s, f)
<1>1. f.term = e.term /\ f.votedFor = e.votedFor
  <2>1. [term |-> f.term, votedFor |-> f.votedFor]
          = [term |-> e.term, votedFor |-> e.votedFor]
    BY DEF Remembers
  <2> QED BY <2>1
<1> QED BY <1>1 DEF Outcome

LEMMA HandleAppendEntriesSafe ==
    ASSUME IInv, NEW s \in Server, HandleAppendEntries(s)
    PROVE  IInv' /\ BookStep
<1>1. PICK l \in Peers(s), t \in Term :
        LET e == IF t > srv[s].term THEN StepDown(srv[s], t) ELSE srv[s] IN
        /\ Become(s, IF t < e.term THEN e
                     ELSE IF e.role = "Candidate" THEN BecomeFollower(e)
                     ELSE DelayElection(e))
        /\ msgs' = IF t < e.term
                   THEN msgs \cup {[type |-> "AppendResponse", from |-> s, to |-> l,
                                    term |-> e.term]}
                   ELSE msgs
  BY DEF HandleAppendEntries
<1>2. UNCHANGED <<lastEntry, leads, grants, answers>>
  BY DEF HandleAppendEntries
<1> DEFINE e == IF t > srv[s].term THEN StepDown(srv[s], t) ELSE srv[s]
           f == IF t < e.term THEN e
                ELSE IF e.role = "Candidate" THEN BecomeFollower(e)
                ELSE DelayElection(e)
<1>3. /\ e \in ServerState /\ Remembers(e) /\ e.term \in Term
      /\ e = srv[s] \/ (e.term > srv[s].term /\ e.votedFor = None)
  BY TermHeard
<1>4. /\ Become(s, f)
      /\ msgs' \subseteq msgs \cup {[type |-> "AppendResponse", from |-> s, to |-> l,
                                     term |-> e.term]}
  BY <1>1
<1> HIDE DEF e
<1>5. f \in ServerState /\ Remembers(f) /\ f.disk = e.disk
  BY <1>3, StateTypes, HelperDisks
<1> HIDE DEF f
<1>6. Outcome(s, f)
  BY <1>2, <1>3, <1>4, <1>5, SameDiskOutcome
<1>7. [type |-> "AppendResponse", from |-> s, to |-> l, term |-> e.term] \in Refusal
  BY <1>3 DEF Refusal, Peers
<1>8. OthersTyped
  BY <1>2, <1>4, <1>7 DEF OthersTyped, IInv, TypeOK
<1> QED BY <1>6, <1>8, OutcomeIsSafe

LEMMA HandleAppendResponseSafe ==
    ASSUME IInv, NEW s \in Server, HandleAppendResponse(s)
    PROVE  IInv' /\ BookStep
<1>1. PICK m \in msgs :
        /\ m.type = "AppendResponse"
        /\ Become(s, IF m.term > srv[s].term THEN StepDown(srv[s], m.term) ELSE srv[s])
        /\ msgs' = Consume(m)
  BY DEF HandleAppendResponse
<1>2. UNCHANGED <<lastEntry, leads, grants, answers>>
  BY DEF HandleAppendResponse
<1> DEFINE e == IF m.term > srv[s].term THEN StepDown(srv[s], m.term) ELSE srv[s]
<1>3. m.term \in Term
  BY <1>1, MessageKinds DEF IInv, Refusal
<1>4. /\ e \in ServerState /\ Remembers(e)
      /\ e = srv[s] \/ (e.term > srv[s].term /\ e.votedFor = None)
  BY <1>3, TermHeard
<1>5. Become(s, e)
  BY <1>1
<1> HIDE DEF e
<1>6. Outcome(s, e)
  BY <1>2, <1>4, <1>5, SameDiskOutcome
<1>7. OthersTyped
  BY <1>1, <1>2 DEF OthersTyped, IInv, TypeOK, Consume
<1> QED BY <1>6, <1>7, OutcomeIsSafe

\* The steps that leave everything but the state of s alone.
LEMMA LocalStepSafe ==
    ASSUME IInv, NEW s \in Server, NEW f \in ServerState, Remembers(f), Become(s, f),
           UNCHANGED <<msgs, lastEntry, leads, grants, answers>>,
           f.disk = srv[s].disk \/ (f.term > srv[s].term /\ f.votedFor = None)
    PROVE  IInv' /\ BookStep
<1>1. Outcome(s, f)
  BY DEF Outcome
<1>2. OthersTyped
  BY DEF OthersTyped, IInv, TypeOK
<1> QED BY <1>1, <1>2, OutcomeIsSafe

LEMMA QuietStepSafe ==
    ASSUME IInv, NEW s \in Server,
           VotingTimePasses(s) \/ LoseConnections(s) \/ GracefulClose(s)
    PROVE  IInv' /\ BookStep
<1>1. srv[s] \in ServerState /\ Remembers(srv[s]) /\ srv[s].term \in Term
  BY StateOf
<1>2. /\ BecomeFollower(srv[s]) \in ServerState /\ Remembers(BecomeFollower(srv[s]))
      /\ BecomeFollower(srv[s]).disk = srv[s].disk
  BY <1>1, StateTypes, HelperDisks
<1>3. CASE VotingTimePasses(s)
  <2> DEFINE f == [srv[s] EXCEPT !.heard = FALSE]
  <2>1. f \in ServerState /\ Remembers(f) /\ f.disk = srv[s].disk
    BY <1>1 DEF ServerState, Remembers
  <2> QED BY <1>3, <2>1, LocalStepSafe DEF VotingTimePasses
<1>4. CASE LoseConnections(s)
  BY <1>2, <1>4, LocalStepSafe DEF LoseConnections
<1>5. CASE GracefulClose(s)
  <2> DEFINE b == BecomeFollower(srv[s])
             f == [b EXCEPT !.locked = TRUE]
  <2>1. b \in ServerState /\ Remembers(b) /\ b.disk = srv[s].disk
    BY <1>2
  <2>2. Become(s, f) /\ UNCHANGED <<msgs, lastEntry, leads, grants, answers>>
    BY <1>5 DEF GracefulClose
  <2> HIDE DEF b
  <2>3. f \in ServerState /\ Remembers(f) /\ f.disk = srv[s].disk
    BY <2>1 DEF ServerState, Remembers
  <2> HIDE DEF f
  <2> QED BY <2>2, <2>3, LocalStepSafe
<1> QED BY <1>3, <1>4, <1>5

\* A restart forgets no vote: it starts from the disk, wherever the crash came.
LEMMA RestartFromSafe ==
    ASSUME IInv, NEW s \in Server, NEW d \in Disk, RestartFrom(s, d),
           d = srv[s].disk \/ (d.term > srv[s].term /\ d.votedFor = None)
    PROVE  IInv' /\ BookStep
<1>1. /\ Started(d) \in ServerState /\ Remembers(Started(d)) /\ Started(d).disk = d
      /\ Started(d).term = d.term /\ Started(d).votedFor = d.votedFor
  BY RoundTypes DEF Started, ServerState, Remembers, Disk, Role, ClearElectionState, Round
<1> QED BY <1>1, LocalStepSafe DEF RestartFrom

LEMMA CrashSafe ==
    ASSUME IInv, NEW s \in Server, Crash(s)
    PROVE  IInv' /\ BookStep
<1>1. /\ srv[s] \in ServerState /\ Remembers(srv[s])
      /\ srv[s].term \in Nat /\ srv[s].disk \in Disk
  BY StateOf
<1>2. CASE Restart(s)
  BY <1>1, <1>2, RestartFromSafe DEF Restart
<1>3. CASE CrashEnteringCandidacy(s)
  <2> DEFINE d == EnterCandidacy(srv[s]).disk
  <2>1. srv[s].term < MaxTerm /\ RestartFrom(s, d)
    BY <1>3 DEF CrashEnteringCandidacy
  <2>2. d = [term |-> srv[s].term + 1, votedFor |-> None]
    BY <1>1, <2>1, CandidacyTypes
  <2>3. d \in Disk /\ d.term > srv[s].term /\ d.votedFor = None
    BY <1>1, <2>1, <2>2 DEF Disk, Term
  <2> HIDE DEF d
  <2> QED BY <2>1, <2>3, RestartFromSafe
<1>4. CASE CrashHandlingVoteRequest(s)
  <2>1. PICK m \in msgs :
          /\ m.type = "VoteRequest" /\ m.term > srv[s].term
          /\ RestartFrom(s, UpdateTerm(srv[s], m.term).disk)
    BY <1>4 DEF CrashHandlingVoteRequest
  <2>2. m.term \in Term
    BY <2>1, MessageKinds DEF IInv, Request
  <2>3. UpdateTerm(srv[s], m.term).disk = [term |-> m.term, votedFor |-> None]
    BY <1>1 DEF UpdateTerm, WriteState, ServerState
  <2> DEFINE d == UpdateTerm(srv[s], m.term).disk
  <2>4. d \in Disk /\ d.term > srv[s].term /\ d.votedFor = None
    BY <2>1, <2>2, <2>3 DEF Disk
  <2> QED BY <2>1, <2>4, RestartFromSafe
<1> QED BY <1>2, <1>3, <1>4 DEF Crash

-----------------------------------------------------------------------------
LEMMA InitSafe == Init => IInv
<1> SUFFICES ASSUME Init PROVE IInv
  OBVIOUS
<1> DEFINE d == [term |-> 0, votedFor |-> None]
<1>1. d \in Disk
  BY DEF Disk, Term
<1>2. Started(d) \in ServerState /\ Remembers(Started(d))
  BY <1>1 DEF Started, ServerState, Remembers, Disk, Role, ClearElectionState, Round
<1> HIDE DEF d
<1>3. srv = [s \in Server |-> Started(d)]
  BY DEF Init, d
<1> QED BY <1>2, <1>3 DEF Init, IInv, TypeOK, MemoryOnDisk

(***************************************************************************)
(* Every step keeps the inductive invariant and is a step of the book.     *)
(***************************************************************************)
LEMMA NextSafe ==
    ASSUME IInv, [Next]_vars
    PROVE  IInv' /\ BookStep
<1>1. CASE UNCHANGED vars
  BY <1>1 DEF vars, IInv, TypeOK, MemoryOnDisk, BookStep, disks
<1>2. ASSUME NEW s \in Server, Step(s)
      PROVE  IInv' /\ BookStep
  BY <1>2, ElectionTimeoutSafe, HandleVoteRequestSafe, HandleVoteResponseSafe,
     HandleAppendEntriesSafe, HandleAppendResponseSafe, QuietStepSafe DEF Step
<1>3. ASSUME NEW s \in Server, LoseConnections(s) \/ GracefulClose(s) \/ Crash(s)
      PROVE  IInv' /\ BookStep
  BY <1>3, QuietStepSafe, CrashSafe
<1> QED BY <1>1, <1>2, <1>3 DEF Next

(***************************************************************************)
(* The types are kept, and what a server remembers is on its disk.         *)
(***************************************************************************)
THEOREM TypeCorrect == Spec => []TypeOK
<1>1. IInv => TypeOK
  BY DEF IInv
<1> QED BY <1>1, InitSafe, NextSafe, PTL DEF Spec

(***************************************************************************)
(* Elections keep the promise of the ballot book.                          *)
(***************************************************************************)
THEOREM ElectionKeepsTheBook == Spec => KeepsTheBook
<1>1. Init => Book!Init
  <2> SUFFICES ASSUME Init PROVE Book!Init
    OBVIOUS
  <2>1. disks = [s \in Server |-> [term |-> 0, votedFor |-> None]] /\ grants = {}
    BY DEF Init, Started, disks
  <2>2. [term |-> 0, votedFor |-> None] \in [term : Term, votedFor : {None}]
    BY DEF Term
  <2>3. disks \in [Server -> [term : Term, votedFor : {None}]]
    BY <2>1, <2>2
  <2> QED BY <2>1, <2>3 DEF Book!Init, disks
<1>2. IInv /\ [Next]_vars => [Book!Next]_(Book!ballotVars)
  BY NextSafe DEF BookStep, Book!ballotVars, disks
<1> QED BY <1>1, <1>2, InitSafe, NextSafe, PTL DEF Spec, KeepsTheBook, Book!Spec

-----------------------------------------------------------------------------
(* What keeping the book is worth: BookIsSafe, read through the refinement. *)

Pages == INSTANCE BallotProofs WITH ballot <- disks, cast <- grants

(***************************************************************************)
(* No server votes twice in a term, and every vote is on the voter's disk, *)
(* whatever the crashes.                                                   *)
(***************************************************************************)
THEOREM VotesAreSafe == Spec => [](OneVotePerTerm /\ VotesOnDisk)
<1>1. KeepsTheBook => []Pages!BookInv
  <2>1. Term \subseteq Nat /\ None \notin Server
    BY DEF Term
  <2>2. Pages!Spec => []Pages!BookInv
    BY <2>1, Pages!BookIsSafe
  <2>3. KeepsTheBook <=> Pages!Spec
    BY DEF KeepsTheBook, disks, Book!Spec, Book!Init, Book!Next, Book!ballotVars,
       Book!EnterTerm, Book!CastVote, Pages!Spec, Pages!Init, Pages!Next,
       Pages!ballotVars, Pages!EnterTerm, Pages!CastVote
  <2> QED BY <2>2, <2>3
<1>2. IInv /\ Pages!BookInv => OneVotePerTerm /\ VotesOnDisk
  <2> SUFFICES ASSUME IInv, Pages!BookInv PROVE OneVotePerTerm /\ VotesOnDisk
    OBVIOUS
  <2>1. OneVotePerTerm
    BY DEF Pages!BookInv, Pages!OneVotePerTerm, OneVotePerTerm
  <2>2. ASSUME NEW v \in grants
        PROVE  LET d == srv[v.voter].disk
               IN  d.term > v.term \/ (d.term = v.term /\ d.votedFor = v.candidate)
    <3>1. v.voter \in Server
      BY DEF IInv, TypeOK, Vote
    <3>2. disks[v.voter] = srv[v.voter].disk
      BY <3>1 DEF disks
    <3>3. \/ disks[v.voter].term > v.term
          \/ disks[v.voter] = [term |-> v.term, votedFor |-> v.candidate]
      BY DEF Pages!BookInv, Pages!VotesInTheBook
    <3> QED BY <3>2, <3>3
  <2> QED BY <2>1, <2>2 DEF VotesOnDisk
<1> QED BY <1>1, <1>2, ElectionKeepsTheBook, InitSafe, NextSafe, PTL DEF Spec

-----------------------------------------------------------------------------
(* What is counted in a round, and who may lead by it *)

(***************************************************************************)
(* What the role of a server in state e says of its timer and its vote.    *)
(***************************************************************************)
RoleOK(s, e) ==
    /\ e.role = "Leader" => ~e.timer
    /\ e.role = "Candidate" /\ Peers(s) # {} => e.votedFor = s

\* Supporters, for a state e of s and a set A of answers
SupportersOf(s, e, A) ==
    {p \in e.round.voted \ {s} : [voter |-> p, term |-> e.term, candidate |-> s] \in A}

(***************************************************************************)
(* No more is counted than was answered, and the round of a leader is over *)
(* and had a majority.                                                     *)
(***************************************************************************)
RoundOK(s, e, A) ==
    /\ e.round.granted <= Cardinality(SupportersOf(s, e, A)) + 1
    /\ e.role = "Leader" => e.round.completed
    /\ e.role = "Leader" /\ Peers(s) # {} => Majority(Cardinality(SupportersOf(s, e, A)) + 1)

StateOK(s, e, A) == RoleOK(s, e) /\ RoundOK(s, e, A)

(***************************************************************************)
(* A request tells the end of its sender's log, which does not change, and *)
(* an accepting response is on record; nobody asks itself.                 *)
(***************************************************************************)
RequestOK(m) == m.type = "VoteRequest" => m.from # m.to /\ m.last = lastEntry[m.from]

ResponseOK(m, A) ==
    m.type = "VoteResponse" =>
        /\ m.from # m.to
        /\ m.accepted => [voter |-> m.from, term |-> m.term, candidate |-> m.to] \in A

\* Nobody accepts a candidate whose log is behind its own.
AnswerOK(a) == AsUpToDate(lastEntry[a.candidate], lastEntry[a.voter])

\* The inductive invariant
VInv ==
    /\ IInv
    /\ \A s \in Server : StateOK(s, srv[s], answers)
    /\ \A m \in msgs : RequestOK(m) /\ ResponseOK(m, answers)
    /\ \A a \in answers : AnswerOK(a)

-----------------------------------------------------------------------------
(* Rounds *)

LEMMA SupportersFinite ==
    ASSUME NEW s \in Server, NEW e \in ServerState, NEW A
    PROVE  IsFiniteSet(SupportersOf(s, e, A)) /\ Cardinality(SupportersOf(s, e, A)) \in Nat
<1>1. SupportersOf(s, e, A) \subseteq Server
  BY DEF SupportersOf, ServerState, Round
<1> QED BY <1>1, FS_Subset, FS_CardinalityType

LEMMA MajorityGrows ==
    ASSUME NEW a \in Nat, NEW b \in Nat, a <= b, Majority(a)
    PROVE  Majority(b)
<1>1. GroupSize \in Nat
  BY FS_CardinalityType DEF GroupSize
<1> QED BY <1>1 DEF Majority

\* More answers only help.
LEMMA MoreAnswers ==
    ASSUME NEW s \in Server, NEW e \in ServerState, NEW A, NEW B, A \subseteq B, StateOK(s, e, A)
    PROVE  StateOK(s, e, B)
<1> DEFINE a == Cardinality(SupportersOf(s, e, A))
           b == Cardinality(SupportersOf(s, e, B))
<1>1. SupportersOf(s, e, A) \subseteq SupportersOf(s, e, B)
  BY DEF SupportersOf
<1>2. a \in Nat /\ b \in Nat /\ a <= b
  BY <1>1, SupportersFinite, FS_Subset
<1>3. e.round.granted \in Nat
  BY DEF ServerState, Round
<1>4. e.round.granted <= a + 1 /\ (e.role = "Leader" /\ Peers(s) # {} => Majority(a + 1))
  BY DEF StateOK, RoundOK
<1>5. e.role = "Leader" => e.round.completed
  BY DEF StateOK, RoundOK
<1> HIDE DEF a, b
<1>6. Majority(a + 1) => Majority(b + 1)
  BY <1>2, MajorityGrows
<1>7. e.round.granted <= b + 1
  BY <1>2, <1>3, <1>4
<1> QED BY <1>4, <1>5, <1>6, <1>7 DEF StateOK, RoundOK, b

\* A round that has its own vote at most, of a server that does not lead by it
LEMMA FreshRound ==
    ASSUME NEW s \in Server, NEW e \in ServerState, NEW A,
           e.round.granted <= 1, e.role # "Leader", RoleOK(s, e)
    PROVE  StateOK(s, e, A)
<1>1. Cardinality(SupportersOf(s, e, A)) \in Nat
  BY SupportersFinite
<1>2. e.round.granted \in Nat
  BY DEF ServerState, Round
<1>3. e.round.granted <= Cardinality(SupportersOf(s, e, A)) + 1
  BY <1>1, <1>2
<1> QED BY <1>3 DEF StateOK, RoundOK

\* A change that touches neither role nor round nor term
LEMMA SameRound ==
    ASSUME NEW s \in Server, NEW e, NEW f, NEW A, StateOK(s, e, A), RoleOK(s, f),
           f.role = e.role, f.round = e.round, f.term = e.term
    PROVE  StateOK(s, f, A)
BY DEF StateOK, RoundOK, SupportersOf

-----------------------------------------------------------------------------
(* What the helpers return. *)

LEMMA ClearIsEmpty == ClearElectionState.granted = 0
BY DEF ClearElectionState

LEMMA FollowerOK ==
    ASSUME NEW s \in Server, NEW e \in ServerState, Remembers(e), NEW t \in Term, NEW A
    PROVE  /\ StateOK(s, BecomeFollower(e), A) /\ StateOK(s, StepDown(e, t), A)
           /\ BecomeFollower(e).role = "Follower" /\ StepDown(e, t).role = "Follower"
<1>1. /\ BecomeFollower(e) \in ServerState
      /\ StepDown(e, t) \in ServerState
  BY StateTypes
<1>2. /\ BecomeFollower(e).role = "Follower"
      /\ BecomeFollower(e).round = ClearElectionState
  BY DEF BecomeFollower, ServerState
<1>3. /\ StepDown(e, t).role = "Follower"
      /\ StepDown(e, t).round = ClearElectionState
  BY DEF StepDown, UpdateTerm, WriteState, BecomeFollower, ServerState
<1>4. RoleOK(s, BecomeFollower(e)) /\ RoleOK(s, StepDown(e, t))
  BY <1>2, <1>3 DEF RoleOK
<1> QED BY <1>1, <1>2, <1>3, <1>4, FreshRound, ClearIsEmpty

\* A term that s hears of leaves it as it is, or makes it a follower.
LEMMA TermHeardOK ==
    ASSUME VInv, NEW s \in Server, NEW t \in Term
    PROVE  LET e == IF t > srv[s].term THEN StepDown(srv[s], t) ELSE srv[s]
           IN  e = srv[s] \/ (e.role = "Follower" /\ StateOK(s, e, answers))
BY StateOf, FollowerOK DEF VInv

LEMMA CandidateOK ==
    ASSUME NEW s \in Server, NEW e \in ServerState, e.term < MaxTerm, NEW A
    PROVE  StateOK(s, BecomeCandidate(s, e), A)
<1> DEFINE b == BecomeCandidate(s, e)
           c == [EnterCandidacy(e) EXCEPT !.round = ClearElectionState, !.timer = TRUE]
<1>1. b \in ServerState
  BY CandidacyTypes
<1>2. CASE Peers(s) = {}
  <2>1. b = BecomeLeader(c)
    BY <1>2 DEF BecomeCandidate
  <2>2. b.role = "Leader" /\ ~b.timer /\ b.round.completed /\ b.round.granted = 0
    <3>1. e.term \in Nat /\ e.term + 1 \in Term
      BY DEF ServerState, Term
    <3>2. ClearElectionState \in Round /\ ClearElectionState.granted = 0
      BY RoundTypes, ClearIsEmpty
    <3>3. c \in ServerState /\ c.round = ClearElectionState
      BY <3>1, <3>2 DEF EnterCandidacy, WriteState, ServerState, Role, Disk
    <3> HIDE DEF c
    <3>4. /\ BecomeLeader(c).role = "Leader" /\ ~BecomeLeader(c).timer
          /\ BecomeLeader(c).round.completed
          /\ BecomeLeader(c).round.granted = c.round.granted
      BY <3>2, <3>3 DEF BecomeLeader, ServerState, Round
    <3> QED BY <2>1, <3>2, <3>3, <3>4
  <2>3. Cardinality(SupportersOf(s, b, A)) \in Nat
    BY <1>1, SupportersFinite
  <2>4. StateOK(s, b, A)
    <3> HIDE DEF b
    <3>1. b.round.granted <= Cardinality(SupportersOf(s, b, A)) + 1
      BY <2>2, <2>3
    <3> QED BY <1>2, <2>2, <3>1 DEF StateOK, RoleOK, RoundOK
  <2> QED BY <2>4
<1>3. CASE Peers(s) # {}
  <2>1. b = WriteState([c EXCEPT !.votedFor = s, !.round = OpenRound(s, FALSE)])
    BY <1>3 DEF BecomeCandidate
  <2>2. b.role = "Candidate" /\ b.votedFor = s /\ b.round.granted = 1
    BY <2>1 DEF EnterCandidacy, WriteState, ServerState, OpenRound
  <2>3. StateOK(s, b, A)
    <3> HIDE DEF b
    <3>1. RoleOK(s, b)
      BY <2>2 DEF RoleOK
    <3> QED BY <1>1, <2>2, <3>1, FreshRound
  <2> QED BY <2>3
<1> QED BY <1>2, <1>3

-----------------------------------------------------------------------------
(***************************************************************************)
(* What a handler that turns the state of s into e must show: the round of *)
(* the new state is backed, the logs stay, answers are only added, each by *)
(* a voter that is not ahead, and what it sends is true.                   *)
(***************************************************************************)
Backed(s, e) ==
    /\ StateOK(s, e, answers') /\ Become(s, e)
    /\ answers \subseteq answers' /\ UNCHANGED lastEntry
    /\ \A m \in msgs' : m \in msgs \/ (RequestOK(m) /\ ResponseOK(m, answers'))
    /\ \A a \in answers' : a \in answers \/ AnswerOK(a)

LEMMA BackedKeeps ==
    ASSUME VInv, IInv', NEW s \in Server, NEW e, Backed(s, e)
    PROVE  VInv'
<1>1. srv \in [Server -> ServerState] /\ srv' = [srv EXCEPT ![s] = e]
  BY DEF VInv, IInv, TypeOK, Backed, Become
<1>2. ASSUME NEW q \in Server
      PROVE  StateOK(q, srv'[q], answers')
  <2>1. CASE q = s
    BY <1>1, <2>1 DEF Backed
  <2>2. CASE q # s
    <3>1. srv'[q] = srv[q] /\ srv[q] \in ServerState /\ StateOK(q, srv[q], answers)
      BY <1>1, <2>2 DEF VInv
    <3> QED BY <3>1, MoreAnswers DEF Backed
  <2> QED BY <2>1, <2>2
<1>3. \A m \in msgs' : RequestOK(m)' /\ ResponseOK(m, answers')
  BY DEF VInv, Backed, RequestOK, ResponseOK
<1>4. \A a \in answers' : AnswerOK(a)'
  BY DEF VInv, Backed, AnswerOK
<1> QED BY <1>2, <1>3, <1>4 DEF VInv

\* The steps that give no answer and send nothing.
LEMMA QuietlyBacked ==
    ASSUME VInv, IInv', NEW s \in Server, NEW e, StateOK(s, e, answers), Become(s, e),
           msgs' \subseteq msgs, UNCHANGED <<answers, lastEntry>>
    PROVE  VInv'
<1>1. Backed(s, e)
  BY DEF Backed
<1> QED BY <1>1, BackedKeeps

LEMMA RequestsOK ==
    ASSUME NEW s \in Server, NEW e, NEW p, NEW A
    PROVE  \A m \in VoteRequests(s, e, p) : RequestOK(m) /\ ResponseOK(m, A)
BY DEF VoteRequests, Peers, RequestOK, ResponseOK

LEMMA StateNow ==
    ASSUME VInv, NEW s \in Server
    PROVE  /\ srv[s] \in ServerState /\ Remembers(srv[s]) /\ srv[s].term \in Nat
           /\ srv[s].term \in Term /\ StateOK(s, srv[s], answers)
BY StateOf DEF VInv

-----------------------------------------------------------------------------
(* The handlers, one by one. *)

LEMMA StartCandidacyBacked ==
    ASSUME VInv, IInv', NEW s \in Server, NEW e \in ServerState, NEW inFlight,
           inFlight \subseteq msgs, StartCandidacy(s, e, inFlight),
           UNCHANGED <<lastEntry, answers>>
    PROVE  VInv'
<1> DEFINE c == BecomeCandidate(s, e)
<1>1. /\ Become(s, c) /\ StateOK(s, c, answers')
      /\ msgs' = inFlight \cup VoteRequests(s, c, FALSE)
  BY CandidateOK DEF StartCandidacy
<1> HIDE DEF c
<1>2. Backed(s, c)
  BY <1>1, RequestsOK DEF Backed
<1> QED BY <1>2, BackedKeeps

LEMMA ElectionTimeoutBacked ==
    ASSUME VInv, IInv', NEW s \in Server, ElectionTimeout(s)
    PROVE  VInv'
<1>1. srv[s] \in ServerState /\ StateOK(s, srv[s], answers) /\ srv[s].role # "Leader"
  BY StateNow DEF ElectionTimeout
<1>2. ClearElectionState \in Round /\ OpenRound(s, TRUE) \in Round
  BY RoundTypes
<1>3. CASE Peers(s) = {}
  <2> DEFINE e == [srv[s] EXCEPT !.round = ClearElectionState]
  <2>1. e \in ServerState
    BY <1>1, <1>2 DEF ServerState
  <2>2. StartCandidacy(s, e, msgs) /\ UNCHANGED <<lastEntry, answers>>
    BY <1>3 DEF ElectionTimeout
  <2> HIDE DEF e
  <2> QED BY <2>1, <2>2, StartCandidacyBacked
<1>4. CASE Peers(s) # {}
  <2> DEFINE e == [srv[s] EXCEPT !.round = OpenRound(s, TRUE)]
  <2>1. /\ e \in ServerState /\ e.role = srv[s].role /\ e.votedFor = srv[s].votedFor
        /\ e.round.granted = 1
    BY <1>1, <1>2 DEF ServerState, OpenRound
  <2>2. /\ Become(s, e)
        /\ msgs' = msgs \cup VoteRequests(s, srv[s], TRUE)
        /\ UNCHANGED <<lastEntry, answers>>
    BY <1>4 DEF ElectionTimeout
  <2> HIDE DEF e
  <2>3. RoleOK(s, e)
    BY <1>1, <2>1 DEF StateOK, RoleOK
  <2>4. StateOK(s, e, answers')
    BY <1>1, <2>1, <2>3, FreshRound
  <2>5. Backed(s, e)
    BY <2>2, <2>4, RequestsOK DEF Backed
  <2> QED BY <2>5, BackedKeeps
<1> QED BY <1>3, <1>4

\* An answer to m of a server in state e, given while the answers become A
LEMMA AnsweredOK ==
    ASSUME NEW s \in Server, NEW m, m.to = s, m.from # m.to, NEW e, NEW accepted, NEW A,
           accepted => VoteBy(s, m, e) \in A
    PROVE  RequestOK(VoteResponse(s, m, e, accepted))
           /\ ResponseOK(VoteResponse(s, m, e, accepted), A)
BY DEF VoteResponse, VoteBy, RequestOK, ResponseOK

\* Voting for another server touches no round, and no candidate does it.
LEMMA GrantOK ==
    ASSUME NEW s \in Server, NEW e \in ServerState, NEW c \in Server, c # s, NEW A,
           e.votedFor \in {None, c}, StateOK(s, e, A)
    PROVE  StateOK(s, Grant(e, c), A)
<1> DEFINE g == Grant(e, c)
<1>1. /\ g.role = e.role /\ g.round = e.round /\ g.term = e.term
      /\ g.timer = e.timer /\ g.votedFor = c
  BY DEF Grant, WriteState, ServerState
<1>2. Peers(s) # {} => e.role # "Candidate"
  BY DEF StateOK, RoleOK
<1> HIDE DEF g
<1>3. RoleOK(s, g)
  BY <1>1, <1>2 DEF StateOK, RoleOK
<1>4. StateOK(s, g, A)
  BY <1>1, <1>3, SameRound
<1> QED BY <1>4 DEF g

LEMMA HandleVoteRequestBacked ==
    ASSUME VInv, IInv', NEW s \in Server, HandleVoteRequest(s)
    PROVE  VInv'
<1>1. PICK m \in msgs :
        /\ m.type = "VoteRequest" /\ m.to = s
        /\ RejectVoteRequest(s, m) \/ GrantPreVote(s, m) \/ GrantVote(s, m)
  BY DEF HandleVoteRequest
<1>2. UNCHANGED lastEntry
  BY DEF HandleVoteRequest
<1>3. /\ m \in Request /\ m.from \in Server /\ m.term \in Term
      /\ m.from # m.to /\ m.last = lastEntry[m.from]
  BY <1>1, MessageKinds DEF VInv, IInv, Request, RequestOK
<1>4. srv[s] \in ServerState /\ StateOK(s, srv[s], answers)
  BY StateNow
<1> DEFINE a == AfterTermOf(srv[s], m)
<1>5. a \in ServerState /\ StateOK(s, a, answers)
  <2>1. a \in ServerState
    BY <1>3, AfterTermOfTypes DEF VInv
  <2>2. CASE ~m.preVote /\ m.term > srv[s].term
    <3>1. a = StepDown(srv[s], m.term)
      BY <2>2 DEF AfterTermOf
    <3>2. StateOK(s, StepDown(srv[s], m.term), answers)
      BY <1>3, StateNow, FollowerOK
    <3> QED BY <2>1, <3>1, <3>2
  <2>3. CASE ~(~m.preVote /\ m.term > srv[s].term)
    BY <1>4, <2>1, <2>3 DEF AfterTermOf
  <2> QED BY <2>1, <2>2, <2>3
<1> HIDE DEF a
\* A vote or pre-vote of s goes to a server whose log is not behind.
<1>6. ASSUME NEW e, Accepts(s, e, m)
      PROVE  AnswerOK(VoteBy(s, m, e))
  BY <1>3, <1>6 DEF Accepts, AnswerOK, VoteBy
<1>7. CASE RejectVoteRequest(s, m)
  <2> DEFINE e == IF srv[s].heard THEN srv[s] ELSE a
  <2>1. /\ Become(s, e)
        /\ msgs' = Consume(m) \cup {VoteResponse(s, m, e, FALSE)}
        /\ UNCHANGED answers
    BY <1>7 DEF RejectVoteRequest, a
  <2>2. StateOK(s, e, answers)
    BY <1>4, <1>5
  <2> HIDE DEF e
  <2>3. RequestOK(VoteResponse(s, m, e, FALSE)) /\ ResponseOK(VoteResponse(s, m, e, FALSE), answers)
    BY <1>1, <1>3, AnsweredOK
  <2>4. Backed(s, e)
    BY <1>2, <2>1, <2>2, <2>3 DEF Backed, Consume
  <2> QED BY <2>4, BackedKeeps
<1>8. CASE GrantPreVote(s, m)
  <2>1. /\ Accepts(s, srv[s], m) /\ srv' = srv
        /\ msgs' = Consume(m) \cup {VoteResponse(s, m, srv[s], TRUE)}
        /\ answers' = answers \cup {VoteBy(s, m, srv[s])}
    BY <1>8 DEF GrantPreVote
  <2>2. Become(s, srv[s])
    BY <2>1 DEF Become, VInv, IInv, TypeOK
  <2>3. StateOK(s, srv[s], answers')
    BY <1>4, <2>1, MoreAnswers
  <2>4. /\ RequestOK(VoteResponse(s, m, srv[s], TRUE))
        /\ ResponseOK(VoteResponse(s, m, srv[s], TRUE), answers')
    BY <1>1, <1>3, <2>1, AnsweredOK
  <2>5. Backed(s, srv[s])
    BY <1>2, <1>6, <2>1, <2>2, <2>3, <2>4 DEF Backed, Consume
  <2> QED BY <2>5, BackedKeeps
<1>9. CASE GrantVote(s, m)
  <2>1. /\ ~m.preVote /\ Accepts(s, a, m)
        /\ Become(s, Grant(a, m.from))
        /\ msgs' = Consume(m) \cup {VoteResponse(s, m, a, TRUE)}
        /\ answers' = answers \cup {VoteBy(s, m, a)}
    BY <1>9 DEF GrantVote, a
  <2>2. a.votedFor \in {None, m.from}
    BY <2>1 DEF Accepts
  <2>3. StateOK(s, a, answers')
    BY <1>5, <2>1, MoreAnswers
  <2>4. StateOK(s, Grant(a, m.from), answers')
    BY <1>1, <1>3, <1>5, <2>2, <2>3, GrantOK
  <2>5. /\ RequestOK(VoteResponse(s, m, a, TRUE))
        /\ ResponseOK(VoteResponse(s, m, a, TRUE), answers')
    BY <1>1, <1>3, <2>1, AnsweredOK
  <2>6. Backed(s, Grant(a, m.from))
    BY <1>2, <1>6, <2>1, <2>4, <2>5 DEF Backed, Consume
  <2> QED BY <2>6, BackedKeeps
<1> QED BY <1>1, <1>7, <1>8, <1>9

\* An answer that is counted is one of a server that supports s from now on, if it
\* accepts.
LEMMA CountVoteOK ==
    ASSUME VInv, NEW s \in Server, NEW m \in Response, m \in msgs, m.to = s,
           m.type = "VoteResponse", m.term = srv[s].term, ~NotCounted(srv[s].round, m)
    PROVE  LET e == [srv[s] EXCEPT !.round = CountVote(srv[s].round, m)]
           IN  /\ e.round \in Round /\ e \in ServerState
               /\ e.role = srv[s].role /\ e.role # "Leader"
               /\ StateOK(s, e, answers)
<1> DEFINE r == CountVote(srv[s].round, m)
           e == [srv[s] EXCEPT !.round = r]
           old == SupportersOf(s, srv[s], answers)
           new == SupportersOf(s, e, answers)
<1>1. /\ srv[s] \in ServerState /\ StateOK(s, srv[s], answers)
      /\ srv[s].round \in Round /\ srv[s].round.voted \subseteq Server
      /\ srv[s].round.granted \in Nat
  BY StateNow DEF ServerState, Round
<1>2. /\ m.from \in Server /\ m.from # s /\ m.accepted \in BOOLEAN
      /\ m.accepted => [voter |-> m.from, term |-> srv[s].term, candidate |-> s] \in answers
  BY DEF VInv, ResponseOK, Response
<1>3. m.from \notin srv[s].round.voted /\ ~srv[s].round.completed /\ srv[s].role # "Leader"
  BY <1>1 DEF NotCounted, StateOK, RoundOK
<1>4. /\ r.voted = srv[s].round.voted \cup {m.from}
      /\ r.granted = srv[s].round.granted + (IF m.accepted THEN 1 ELSE 0)
  BY DEF CountVote
<1>5. r \in Round
  <2>1. IsFiniteSet(srv[s].round.voted \cup {m.from})
    BY <1>1, <1>2, FS_Subset
  <2>2. Cardinality(srv[s].round.voted \cup {m.from}) \in Nat /\ GroupSize \in Nat
    BY <2>1, FS_CardinalityType DEF GroupSize
  <2>3. (Cardinality(srv[s].round.voted \cup {m.from}) >= GroupSize) \in BOOLEAN
    BY <2>2
  <2>4. srv[s].round.preVote \in BOOLEAN
    BY <1>1 DEF Round
  <2> QED BY <1>1, <1>2, <2>3, <2>4 DEF CountVote, Round
<1> HIDE DEF r
<1>6. /\ e \in ServerState /\ e.round = r /\ e.role = srv[s].role
      /\ e.term = srv[s].term /\ e.timer = srv[s].timer /\ e.votedFor = srv[s].votedFor
  BY <1>1, <1>5 DEF ServerState
<1> HIDE DEF e
<1>7. Cardinality(old) \in Nat /\ IsFiniteSet(old) /\ Cardinality(new) \in Nat
      /\ IsFiniteSet(new)
  BY <1>1, <1>6, SupportersFinite
<1>8. r.granted <= Cardinality(new) + 1
  <2>1. srv[s].round.granted <= Cardinality(old) + 1
    BY <1>1 DEF StateOK, RoundOK
  <2>2. old \subseteq new
    BY <1>4, <1>6 DEF SupportersOf
  <2>3. CASE m.accepted
    <3>1. m.from \notin old /\ new = old \cup {m.from}
      BY <1>2, <1>3, <1>4, <1>6, <2>3 DEF SupportersOf
    <3>2. Cardinality(new) = Cardinality(old) + 1
      BY <1>7, <3>1, FS_AddElement
    <3> QED BY <1>1, <1>4, <1>7, <2>1, <2>3, <3>2
  <2>4. CASE ~m.accepted
    <3>1. Cardinality(old) <= Cardinality(new)
      BY <1>7, <2>2, FS_Subset
    <3> QED BY <1>1, <1>4, <1>7, <2>1, <2>4, <3>1
  <2> QED BY <2>3, <2>4
<1>9. RoleOK(s, e)
  BY <1>1, <1>6 DEF StateOK, RoleOK
<1>10. StateOK(s, e, answers)
  BY <1>3, <1>6, <1>8, <1>9 DEF StateOK, RoundOK
<1> QED BY <1>3, <1>5, <1>6, <1>10 DEF e, r

\* Who wins leads by what was counted.
LEMMA WinnerOK ==
    ASSUME NEW s \in Server, NEW e \in ServerState, NEW A, StateOK(s, e, A),
           Majority(e.round.granted)
    PROVE  StateOK(s, BecomeLeader(e), A)
<1> DEFINE l == BecomeLeader(e)
           n == Cardinality(SupportersOf(s, e, A))
<1>1. e.round \in Round /\ e.round.granted \in Nat
  BY DEF ServerState, Round
<1>2. /\ l.role = "Leader" /\ ~l.timer /\ l.term = e.term
      /\ l.round.granted = e.round.granted /\ l.round.voted = e.round.voted
      /\ l.round.completed
  BY <1>1 DEF BecomeLeader, ServerState, Round
<1>3. SupportersOf(s, l, A) = SupportersOf(s, e, A)
  BY <1>2 DEF SupportersOf
<1>4. n \in Nat /\ e.round.granted <= n + 1
  BY SupportersFinite DEF StateOK, RoundOK
<1>5. Majority(n + 1)
  <2> HIDE DEF n
  <2> QED BY <1>1, <1>4, MajorityGrows
<1>6. StateOK(s, l, A)
  <2> HIDE DEF l
  <2> QED BY <1>2, <1>3, <1>4, <1>5 DEF StateOK, RoleOK, RoundOK
<1> QED BY <1>6

LEMMA HandleVoteResponseBacked ==
    ASSUME VInv, IInv', NEW s \in Server, HandleVoteResponse(s)
    PROVE  VInv'
<1>1. PICK m \in msgs :
        /\ m.type = "VoteResponse" /\ m.to = s
        /\ \/ ResponseOfOtherTerm(s, m)
           \/ m.term = srv[s].term /\ (IgnoredResponse(s, m) \/ CountedResponse(s, m))
  BY DEF HandleVoteResponse
<1>2. UNCHANGED <<lastEntry, answers>>
  BY DEF HandleVoteResponse
<1>3. m \in Response /\ m.term \in Term
  BY <1>1, MessageKinds DEF VInv, IInv, Response
<1>4. srv[s] \in ServerState /\ Remembers(srv[s]) /\ StateOK(s, srv[s], answers)
  BY StateNow
<1>5. Consume(m) \subseteq msgs
  BY DEF Consume
<1>6. CASE ResponseOfOtherTerm(s, m)
  <2> DEFINE e == IF m.term > srv[s].term THEN StepDown(srv[s], m.term) ELSE srv[s]
  <2>1. Become(s, e) /\ msgs' = Consume(m)
    BY <1>6 DEF ResponseOfOtherTerm
  <2>2. StateOK(s, e, answers)
    BY <1>3, <1>4, FollowerOK
  <2> HIDE DEF e
  <2> QED BY <1>2, <1>5, <2>1, <2>2, QuietlyBacked
<1>7. CASE m.term = srv[s].term /\ IgnoredResponse(s, m)
  <2>1. Become(s, srv[s]) /\ msgs' \subseteq msgs
    BY <1>5, <1>7 DEF IgnoredResponse, Become, VInv, IInv, TypeOK
  <2> QED BY <1>2, <1>4, <2>1, QuietlyBacked
<1>8. CASE m.term = srv[s].term /\ CountedResponse(s, m)
  <2> DEFINE e == [srv[s] EXCEPT !.round = CountVote(srv[s].round, m)]
  <2>1. e \in ServerState /\ StateOK(s, e, answers)
    <3>1. ~NotCounted(srv[s].round, m)
      BY <1>8 DEF CountedResponse
    <3> QED BY <1>1, <1>3, <1>8, <3>1, CountVoteOK
  <2>2. \/ StartCandidacy(s, e, Consume(m))
        \/ /\ Majority(e.round.granted) /\ Become(s, BecomeLeader(e))
           /\ msgs' = Consume(m)
        \/ Become(s, e) /\ msgs' = Consume(m)
    BY <1>8 DEF CountedResponse
  <2> HIDE DEF e
  <2>3. CASE StartCandidacy(s, e, Consume(m))
    BY <1>2, <1>5, <2>1, <2>3, StartCandidacyBacked
  <2>4. CASE /\ Majority(e.round.granted) /\ Become(s, BecomeLeader(e))
             /\ msgs' = Consume(m)
    <3>1. StateOK(s, BecomeLeader(e), answers)
      BY <2>1, <2>4, WinnerOK
    <3> QED BY <1>2, <1>5, <2>4, <3>1, QuietlyBacked
  <2>5. CASE Become(s, e) /\ msgs' = Consume(m)
    BY <1>2, <1>5, <2>1, <2>5, QuietlyBacked
  <2> QED BY <2>2, <2>3, <2>4, <2>5
<1> QED BY <1>1, <1>6, <1>7, <1>8

LEMMA HandleAppendEntriesBacked ==
    ASSUME VInv, IInv', NEW s \in Server, HandleAppendEntries(s)
    PROVE  VInv'
<1>1. PICK l \in Peers(s), t \in Term :
        LET e == IF t > srv[s].term THEN StepDown(srv[s], t) ELSE srv[s] IN
        /\ t = e.term => e.role # "Leader"
        /\ Become(s, IF t < e.term THEN e
                     ELSE IF e.role = "Candidate" THEN BecomeFollower(e)
                     ELSE DelayElection(e))
        /\ msgs' = IF t < e.term
                   THEN msgs \cup {[type |-> "AppendResponse", from |-> s, to |-> l,
                                    term |-> e.term]}
                   ELSE msgs
  BY DEF HandleAppendEntries
<1> DEFINE e == IF t > srv[s].term THEN StepDown(srv[s], t) ELSE srv[s]
           f == IF t < e.term THEN e
                ELSE IF e.role = "Candidate" THEN BecomeFollower(e)
                ELSE DelayElection(e)
<1>2. /\ e \in ServerState /\ Remembers(e) /\ e.term \in Nat
      /\ StateOK(s, e, answers) /\ t <= e.term
  <2>1. /\ srv[s] \in ServerState /\ Remembers(srv[s]) /\ srv[s].term \in Nat /\ t \in Nat
        /\ StateOK(s, srv[s], answers)
    BY StateNow DEF Term
  <2>2. CASE t > srv[s].term
    <3> DEFINE d == StepDown(srv[s], t)
    <3>1. d \in ServerState /\ Remembers(d) /\ StateOK(s, d, answers) /\ d.term = t
      BY <2>1, FollowerOK, StateTypes, HelperDisks
    <3>2. e = d
      BY <2>2
    <3> HIDE DEF d
    <3> QED BY <2>1, <3>1, <3>2
  <2>3. CASE ~(t > srv[s].term)
    BY <2>1, <2>3
  <2> QED BY <2>2, <2>3
<1>3. /\ Become(s, f) /\ (t = e.term => e.role # "Leader")
      /\ msgs' \subseteq msgs \cup {[type |-> "AppendResponse", from |-> s, to |-> l,
                                     term |-> e.term]}
      /\ UNCHANGED <<lastEntry, answers>>
  BY <1>1 DEF HandleAppendEntries
<1> HIDE DEF e
<1>4. StateOK(s, f, answers)
  <2>1. CASE t < e.term
    BY <1>2, <2>1
  <2>2. CASE ~(t < e.term) /\ e.role = "Candidate"
    BY <1>2, <2>2, FollowerOK
  <2>3. CASE ~(t < e.term) /\ e.role # "Candidate"
    <3> DEFINE d == DelayElection(e)
    <3>1. e.role # "Leader"
      BY <1>2, <1>3, <2>3 DEF Term
    <3>2. d.role = e.role /\ d.round = e.round /\ d.term = e.term
      BY <1>2 DEF DelayElection, ServerState
    <3> HIDE DEF d
    <3>3. RoleOK(s, d)
      BY <2>3, <3>1, <3>2 DEF RoleOK
    <3>4. StateOK(s, d, answers)
      BY <1>2, <3>2, <3>3, SameRound
    <3> QED BY <2>3, <3>4 DEF d
  <2> QED BY <2>1, <2>2, <2>3
<1> HIDE DEF f
<1>5. Backed(s, f)
  BY <1>3, <1>4 DEF Backed, RequestOK, ResponseOK
<1> QED BY <1>5, BackedKeeps

LEMMA HandleAppendResponseBacked ==
    ASSUME VInv, IInv', NEW s \in Server, HandleAppendResponse(s)
    PROVE  VInv'
<1>1. PICK m \in msgs :
        /\ m.type = "AppendResponse"
        /\ Become(s, IF m.term > srv[s].term THEN StepDown(srv[s], m.term) ELSE srv[s])
        /\ msgs' = Consume(m)
  BY DEF HandleAppendResponse
<1> DEFINE e == IF m.term > srv[s].term THEN StepDown(srv[s], m.term) ELSE srv[s]
<1>2. m.term \in Term
  BY <1>1, MessageKinds DEF VInv, IInv, Refusal
<1>3. StateOK(s, e, answers)
  BY <1>2, StateNow, FollowerOK
<1>4. Become(s, e) /\ msgs' \subseteq msgs /\ UNCHANGED <<lastEntry, answers>>
  BY <1>1 DEF HandleAppendResponse, Consume
<1> HIDE DEF e
<1> QED BY <1>3, <1>4, QuietlyBacked

LEMMA QuietStepBacked ==
    ASSUME VInv, IInv', NEW s \in Server,
           VotingTimePasses(s) \/ LoseConnections(s) \/ GracefulClose(s)
    PROVE  VInv'
<1>1. srv[s] \in ServerState /\ Remembers(srv[s]) /\ srv[s].term \in Term
      /\ StateOK(s, srv[s], answers)
  BY StateNow
<1> DEFINE b == BecomeFollower(srv[s])
<1>2. b \in ServerState /\ b.role = "Follower" /\ StateOK(s, b, answers)
  BY <1>1, StateTypes, FollowerOK
<1>3. CASE VotingTimePasses(s)
  <2> DEFINE f == [srv[s] EXCEPT !.heard = FALSE]
  <2>1. /\ f.role = srv[s].role /\ f.round = srv[s].round /\ f.term = srv[s].term
        /\ f.timer = srv[s].timer /\ f.votedFor = srv[s].votedFor
    BY <1>1 DEF ServerState
  <2>2. Become(s, f) /\ msgs' = msgs /\ UNCHANGED <<answers, lastEntry>>
    BY <1>3 DEF VotingTimePasses
  <2> HIDE DEF f
  <2>3. RoleOK(s, f)
    BY <1>1, <2>1 DEF StateOK, RoleOK
  <2>4. StateOK(s, f, answers)
    BY <1>1, <2>1, <2>3, SameRound
  <2> QED BY <2>2, <2>4, QuietlyBacked
<1>4. CASE LoseConnections(s)
  BY <1>2, <1>4, QuietlyBacked DEF LoseConnections
<1>5. CASE GracefulClose(s)
  <2> DEFINE f == [b EXCEPT !.locked = TRUE]
  <2>1. Become(s, f) /\ msgs' = msgs /\ UNCHANGED <<answers, lastEntry>>
    BY <1>5 DEF GracefulClose
  <2> HIDE DEF b
  <2>2. f.role = "Follower" /\ f.role = b.role /\ f.round = b.round /\ f.term = b.term
    BY <1>2 DEF ServerState
  <2> HIDE DEF f
  <2>3. RoleOK(s, f)
    BY <2>2 DEF RoleOK
  <2>4. StateOK(s, f, answers)
    BY <1>2, <2>2, <2>3, SameRound
  <2> QED BY <2>1, <2>4, QuietlyBacked
<1> QED BY <1>3, <1>4, <1>5

\* A restart starts from a clear round, whatever is on disk.
LEMMA StartedOK ==
    ASSUME NEW s \in Server, NEW d \in Disk, NEW A
    PROVE  Started(d) \in ServerState /\ StateOK(s, Started(d), A)
<1>1. Started(d) \in ServerState
  BY RoundTypes DEF Started, ServerState, Disk, Role
<1>2. Started(d).role = "Follower" /\ Started(d).round.granted = 0
  BY DEF Started, ClearElectionState
<1>3. RoleOK(s, Started(d))
  BY <1>2 DEF RoleOK
<1> QED BY <1>1, <1>2, <1>3, FreshRound

LEMMA RestartFromBacked ==
    ASSUME VInv, IInv', NEW s \in Server, NEW d, RestartFrom(s, d)
    PROVE  VInv'
<1>1. Started(d) \in ServerState
  BY DEF RestartFrom, Become, VInv, IInv, TypeOK
<1>2. d \in Disk
  BY <1>1 DEF Started, ServerState
<1> QED BY <1>2, StartedOK, QuietlyBacked DEF RestartFrom

LEMMA CrashBacked ==
    ASSUME VInv, IInv', NEW s \in Server, Crash(s)
    PROVE  VInv'
<1>1. \E d : RestartFrom(s, d)
  BY DEF Crash, Restart, CrashEnteringCandidacy, CrashHandlingVoteRequest
<1> QED BY <1>1, RestartFromBacked

-----------------------------------------------------------------------------
LEMMA InitBacked == Init => VInv
<1> SUFFICES ASSUME Init PROVE VInv
  OBVIOUS
<1> DEFINE d == [term |-> 0, votedFor |-> None]
<1>1. d \in Disk
  BY DEF Disk, Term
<1>2. srv = [s \in Server |-> Started(d)] /\ msgs = {} /\ answers = {}
  BY DEF Init
<1> HIDE DEF d
<1>3. \A s \in Server : StateOK(s, srv[s], answers)
  BY <1>1, <1>2, StartedOK
<1> QED BY <1>2, <1>3, InitSafe DEF VInv

LEMMA NextBacked ==
    ASSUME VInv, [Next]_vars
    PROVE  VInv'
<1>1. IInv'
  BY NextSafe DEF VInv
<1>2. CASE UNCHANGED vars
  <2>1. srv' = srv /\ msgs' = msgs /\ lastEntry' = lastEntry /\ answers' = answers
    BY <1>2 DEF vars
  <2> QED BY <1>1, <2>1 DEF VInv, RequestOK, AnswerOK
<1>3. ASSUME NEW s \in Server, Step(s)
      PROVE  VInv'
  BY <1>1, <1>3, ElectionTimeoutBacked, HandleVoteRequestBacked, HandleVoteResponseBacked,
     HandleAppendEntriesBacked, HandleAppendResponseBacked, QuietStepBacked DEF Step
<1>4. ASSUME NEW s \in Server, LoseConnections(s) \/ GracefulClose(s) \/ Crash(s)
      PROVE  VInv'
  BY <1>1, <1>4, QuietStepBacked, CrashBacked
<1> QED BY <1>2, <1>3, <1>4 DEF Next

LEMMA AlwaysBacked == Spec => []VInv
BY InitBacked, NextBacked, PTL DEF Spec

(***************************************************************************)
(* What a server counts it was given, and a leader has counted a majority: *)
(* voted_servers, the reset of a round and check_term do what they are for.*)
(***************************************************************************)
THEOREM RoundsAreBacked == Spec => []VotesAreBacked
<1>1. VInv => VotesAreBacked
  BY DEF VInv, StateOK, RoundOK, SupportersOf, VotesAreBacked, Supporters
<1> QED BY <1>1, AlwaysBacked, PTL

(***************************************************************************)
(* The log of a leader is as up to date as the logs of a majority: every   *)
(* voter it counted compared the logs (request_log_newer_or_equal).        *)
(***************************************************************************)
THEOREM LeadersAreUpToDate == Spec => []LeaderIsUpToDate
<1>1. VInv => LeaderIsUpToDate
  <2> SUFFICES ASSUME VInv, NEW s \in Server, srv[s].role = "Leader"
               PROVE  Majority(Cardinality({p \in Server : Covers(lastEntry[s], lastEntry[p])}))
    BY DEF LeaderIsUpToDate
  <2> DEFINE covered == {p \in Server : Covers(lastEntry[s], lastEntry[p])}
             backers == SupportersOf(s, srv[s], answers)
             k == Cardinality(backers)
             n == Cardinality(covered)
  <2>1. \A p \in Server : lastEntry[p].term \in Nat /\ lastEntry[p].index \in Nat
    BY DEF VInv, IInv, TypeOK
  <2>2. backers \cup {s} \subseteq covered
    <3>1. Covers(lastEntry[s], lastEntry[s])
      BY <2>1 DEF Covers
    <3>2. ASSUME NEW p \in backers
          PROVE  p \in Server /\ Covers(lastEntry[s], lastEntry[p])
      <4>1. p \in Server /\ [voter |-> p, term |-> srv[s].term, candidate |-> s] \in answers
        BY StateNow DEF SupportersOf, ServerState, Round
      <4>2. AsUpToDate(lastEntry[s], lastEntry[p])
        BY <4>1 DEF VInv, AnswerOK
      <4> QED BY <2>1, <4>1, <4>2 DEF AsUpToDate, Covers
    <3> QED BY <3>1, <3>2
  <2>3. IsFiniteSet(backers) /\ k \in Nat /\ s \notin backers
    BY StateNow, SupportersFinite DEF SupportersOf
  <2>4. IsFiniteSet(covered) /\ n \in Nat
    BY FS_Subset, FS_CardinalityType
  <2>5. Cardinality(backers \cup {s}) = k + 1
    BY <2>3, FS_AddElement
  <2>6. k + 1 <= n
    BY <2>2, <2>4, <2>5, FS_Subset
  <2>7. Majority(k + 1)
    <3>1. CASE Peers(s) # {}
      BY <3>1 DEF VInv, StateOK, RoundOK
    <3>2. CASE Peers(s) = {}
      <4>1. Server = {s}
        BY <3>2 DEF Peers
      <4>2. GroupSize = 1
        BY <4>1, FS_Singleton DEF GroupSize
      <4> HIDE DEF k
      <4> QED BY <2>3, <4>2 DEF Majority
    <3> QED BY <3>1, <3>2
  <2> HIDE DEF k, n
  <2>8. Majority(n)
    BY <2>3, <2>4, <2>6, <2>7, MajorityGrows
  <2> QED BY <2>8 DEF n
<1> QED BY <1>1, AlwaysBacked, PTL

(***************************************************************************)
(* The timer of a leader is stopped: the assertion of request_election.    *)
(***************************************************************************)
THEOREM LeadersStopTheirTimer == Spec => []LeaderTimerStopped
<1>1. VInv => LeaderTimerStopped
  BY DEF VInv, StateOK, RoleOK, LeaderTimerStopped
<1> QED BY <1>1, AlwaysBacked, PTL

(***************************************************************************)
(* A candidate has voted for itself, on disk.                              *)
(***************************************************************************)
THEOREM CandidatesVoteForThemselves == Spec => []CandidateVotedForItself
<1>1. VInv => CandidateVotedForItself
  BY StateOf DEF VInv, StateOK, RoleOK, CandidateVotedForItself
<1> QED BY <1>1, AlwaysBacked, PTL

(***************************************************************************)
(* A vote is on its voter's disk from when it is handed out.               *)
(***************************************************************************)
THEOREM VotesStayOnDisk == Spec => []VotesOnDisk
BY VotesAreSafe, PTL
=============================================================================
