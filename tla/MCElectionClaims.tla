-------------------------- MODULE MCElectionClaims --------------------------
(* What the repository says of an election and its code does not keep.         *)
(* In UpNext the servers of Up run and exchange every message; the others are  *)
(* down, and stay so.                                                          *)
EXTENDS Election

CONSTANT Up   \* the servers that run, a majority of the group

\* All logs are equal.
SameLastEntries == {[term |-> 0, index |-> 0]}

\* An election timeout is much longer than an exchange of messages: the timer of
\* s fires once the servers that run have answered everything s asked before.
Settled(s) ==
    /\ ~\E m \in msgs : m.type = "VoteRequest" /\ m.from = s /\ m.to \in Up
    /\ ~\E m \in msgs : m.type = "VoteResponse" /\ m.to = s

TimelyTimeout(s) == Settled(s) /\ ElectionTimeout(s)

UpNext == \E s \in Up :
    \/ TimelyTimeout(s)
    \/ HandleVoteRequest(s)
    \/ HandleVoteResponse(s)
    \/ HandleAppendEntries(s)
    \/ HandleAppendResponse(s)
    \/ VotingTimePasses(s)

\* s handles a message from p.
Receive(s, p, type) ==
    UpNext /\ \E m \in msgs \ msgs' : m.to = s /\ m.from = p /\ m.type = type

(***************************************************************************)
(* A timer that is started fires and an event in the queue is handled: one *)
(* event loop per server serves both in turn (compartment.rs), and a       *)
(* connected peer delivers what is sent.                                   *)
(***************************************************************************)
Fairness ==
    \A s \in Up :
        /\ WF_vars(TimelyTimeout(s))
        /\ WF_vars(VotingTimePasses(s))
        /\ WF_vars(HandleAppendEntries(s))
        /\ \A p \in Up, type \in {"VoteRequest", "VoteResponse", "AppendResponse"} :
              WF_vars(Receive(s, p, type))

FairSpec == Init /\ [][UpNext]_vars /\ Fairness

(***************************************************************************)
(* A candidacy ends, in a new term or in another role: a candidate that    *)
(* does not win gets its timer fired and stands again in the next term, as *)
(* Raft has it (README.md:2).  MaxTerm is the model's bound, not the       *)
(* code's, so nothing is asked of a candidate in that term.                *)
(***************************************************************************)
CandidacyEnds ==
    \A s \in Up : \A t \in 0 .. MaxTerm - 1 :
        (srv[s].role = "Candidate" /\ srv[s].term = t)
            ~> ~(srv[s].role = "Candidate" /\ srv[s].term = t)
=============================================================================
