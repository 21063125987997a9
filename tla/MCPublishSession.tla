-------------------------- MODULE MCPublishSession --------------------------
(* Small instances of PublishSession for TLC. *)
EXTENDS PublishSession, TLC

CONSTANTS MaxNet,   \* bound: requests and responses under way
          First     \* the server that leads the first term

\* Bound: several messages are under way once something broke or another server was
\* elected, which is when they can overtake one another, and one again after both.
SecondLeader == \E s \in Server : srv[s].term > 1

FewMessages == Cardinality(net) <= IF (faults > 0) # SecondLeader THEN MaxNet ELSE 1

Symmetry == Permutations(Server \ {First})

-----------------------------------------------------------------------------
(* A group at work: its first leader has committed the configuration everywhere. *)
Working ==
    /\ srv = [s \in Server |-> [leads |-> s = First, term |-> 1, leader |-> First,
                                log |-> <<[term |-> 1, id |-> 0]>>, commit |-> 1,
                                session |-> NewSession]]
    /\ client = [next |-> 1, sent |-> 0, committed |-> 0, leader |-> NoServer, link |-> "down",
                 locked |-> FALSE, lock |-> 0]
    /\ net = {} /\ faults = 0

WorkingSpec == Working /\ [][Next]_vars

CalmSpec == Working /\ [][Next /\ Calm]_vars
=============================================================================
