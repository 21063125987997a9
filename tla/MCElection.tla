----------------------------- MODULE MCElection -----------------------------
(* Small instances of Election for TLC.  The number of elections asked for and *)
(* of faults is bounded; nothing else is changed.                              *)
EXTENDS Election, TLC

CONSTANTS MaxTimeouts,   \* bound: election timers fired in a behaviour
          MaxFaults      \* bound: crashes, lost connections and hand-overs

VARIABLES timeouts, faults

mcVars == <<vars, timeouts, faults>>

\* A log that ends in the older term may be the longer one.
MCLastEntries == {[term |-> 0, index |-> 2], [term |-> 1, index |-> 1]}

Symmetry == Permutations(Server)

\* One log is behind the others.
OneBehind ==
    Cardinality({s \in Server : lastEntry[s] = [term |-> 0, index |-> 2]}) = 1

MCInit == Init /\ OneBehind /\ timeouts = 0 /\ faults = 0

(* States that differ only in responses whose term their receiver has left, and *)
(* which it will drop (check_term), or in the answers given in such a term,     *)
(* behave alike and satisfy the same properties.                                *)
Live(m) == \/ m.type = "VoteRequest"
           \/ m.type = "VoteResponse" /\ m.term >= srv[m.to].term
           \/ m.type = "AppendResponse" /\ m.term > srv[m.to].term

View == <<srv, {m \in msgs : Live(m)}, lastEntry, leads, grants,
          {v \in answers : v.term >= srv[v.candidate].term}, timeouts, faults>>

Handle(s) ==
    /\ \/ HandleVoteRequest(s)
       \/ HandleVoteResponse(s)
       \/ HandleAppendEntries(s)
       \/ HandleAppendResponse(s)
       \/ VotingTimePasses(s)
    /\ UNCHANGED <<timeouts, faults>>

TimeOut(s) ==
    /\ timeouts < MaxTimeouts /\ timeouts' = timeouts + 1
    /\ ElectionTimeout(s)
    /\ UNCHANGED faults

Fail(s) ==
    /\ faults < MaxFaults /\ faults' = faults + 1
    /\ LoseConnections(s) \/ GracefulClose(s) \/ Crash(s)
    /\ UNCHANGED timeouts

MCNext == \E s \in Server : Handle(s) \/ TimeOut(s) \/ Fail(s)

MCSpec == MCInit /\ [][MCNext]_mcVars
=============================================================================
