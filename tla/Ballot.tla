------------------------------- MODULE Ballot -------------------------------
(***************************************************************************)
(* The promise behind an election: the ballot book.  Every server keeps on *)
(* stable storage the term it has reached and the candidate it has voted   *)
(* for in that term.  The term never goes back, and a vote, once handed    *)
(* out, can be neither withdrawn nor given to somebody else in that term.  *)
(*                                                                         *)
(* This is what the election of src/src/artos/server/election promises to  *)
(* whoever counts votes; Election shows that its handlers, with all their  *)
(* messages, time-outs and crashes, keep the promise.                      *)
(***************************************************************************)
EXTENDS Integers

CONSTANTS Server,   \* the servers of the group
          None,     \* "has not voted in this term"
          Term      \* the terms

VARIABLES ballot,   \* ballot[s]: the term s has reached and its vote in that term
          cast      \* every vote ever handed out

ballotVars == <<ballot, cast>>

Entry == [term : Term, votedFor : Server \cup {None}]
Vote  == [voter : Server, term : Term, candidate : Server]

TypeOK == ballot \in [Server -> Entry] /\ cast \subseteq Vote

Init == /\ ballot \in [Server -> [term : Term, votedFor : {None}]]
        /\ cast = {}

\* s learns of a later term (or starts one) without voting in it yet.
EnterTerm(s, t) ==
    /\ t > ballot[s].term
    /\ ballot' = [ballot EXCEPT ![s] = [term |-> t, votedFor |-> None]]
    /\ UNCHANGED cast

\* s hands its vote of term t to c: t may be a later term, but in the term s is
\* already in, s must not have voted for anybody else.
CastVote(s, t, c) ==
    /\ \/ t > ballot[s].term
       \/ t = ballot[s].term /\ ballot[s].votedFor \in {None, c}
    /\ ballot' = [ballot EXCEPT ![s] = [term |-> t, votedFor |-> c]]
    /\ cast' = cast \cup {[voter |-> s, term |-> t, candidate |-> c]}

Next == \E s \in Server, t \in Term :
            \/ EnterTerm(s, t)
            \/ \E c \in Server : CastVote(s, t, c)

Spec == Init /\ [][Next]_ballotVars

(***************************************************************************)
(* No server votes for two candidates in one term.                         *)
(***************************************************************************)
OneVotePerTerm ==
    \A v, w \in cast :
        v.voter = w.voter /\ v.term = w.term => v.candidate = w.candidate

(***************************************************************************)
(* Every vote handed out is in the book, or the voter has moved on to a    *)
(* later term: the reason why OneVotePerTerm is kept.                      *)
(***************************************************************************)
VotesInTheBook ==
    \A v \in cast :
        \/ ballot[v.voter].term > v.term
        \/ ballot[v.voter] = [term |-> v.term, votedFor |-> v.candidate]
=============================================================================
