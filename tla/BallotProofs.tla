---------------------------- MODULE BallotProofs ----------------------------
(* Why the ballot book is enough: whoever keeps it gives at most one vote per  *)
(* term.  The servers and terms are arbitrary.                                 *)
EXTENDS Ballot, TLAPS

BookInv == TypeOK /\ VotesInTheBook /\ OneVotePerTerm

(***************************************************************************)
(* No step of the book withdraws or contradicts a vote.  A new vote agrees *)
(* with the older ones because the book tells them: this is where          *)
(* OneVotePerTerm needs VotesInTheBook.                                    *)
(***************************************************************************)
LEMMA BookStep ==
    ASSUME Term \subseteq Nat, None \notin Server, BookInv, [Next]_ballotVars
    PROVE  BookInv'
<1> USE DEF BookInv, TypeOK, VotesInTheBook, OneVotePerTerm, Entry, Vote
<1>1. ASSUME NEW s \in Server, NEW t \in Term, EnterTerm(s, t)
      PROVE  BookInv'
  <2>1. TypeOK'
    BY <1>1 DEF EnterTerm
  <2>2. OneVotePerTerm'
    BY <1>1 DEF EnterTerm
  <2>3. VotesInTheBook'
    <3> SUFFICES ASSUME NEW v \in cast
                 PROVE  \/ ballot'[v.voter].term > v.term
                        \/ ballot'[v.voter] = [term |-> v.term, votedFor |-> v.candidate]
      BY <1>1 DEF EnterTerm
    <3>1. v.voter \in Server /\ v.term \in Nat /\ ballot[v.voter].term \in Nat
      OBVIOUS
    <3>2. CASE v.voter = s
      BY <1>1, <3>1, <3>2 DEF EnterTerm
    <3>3. CASE v.voter # s
      BY <1>1, <3>1, <3>3 DEF EnterTerm
    <3> QED BY <3>2, <3>3
  <2> QED BY <2>1, <2>2, <2>3
<1>2. ASSUME NEW s \in Server, NEW t \in Term, NEW c \in Server, CastVote(s, t, c)
      PROVE  BookInv'
  <2> DEFINE new == [voter |-> s, term |-> t, candidate |-> c]
  <2>1. /\ ballot' = [ballot EXCEPT ![s] = [term |-> t, votedFor |-> c]]
        /\ cast' = cast \cup {new}
        /\ t >= ballot[s].term
        /\ t = ballot[s].term => ballot[s].votedFor \in {None, c}
    <3>1. t \in Nat /\ ballot[s].term \in Nat
      OBVIOUS
    <3> QED BY <1>2, <3>1 DEF CastVote
  <2>2. TypeOK'
    BY <2>1
  <2>3. ASSUME NEW v \in cast, v.voter = s
        PROVE  \/ ballot[s].term > v.term
               \/ ballot[s] = [term |-> v.term, votedFor |-> v.candidate]
    BY <2>3
  <2>4. ASSUME NEW v \in cast, v.voter = s, v.term = t
        PROVE  v.candidate = c
    <3>1. ballot[s].term \in Nat /\ t \in Nat /\ v.candidate \in Server
      OBVIOUS
    <3>2. ballot[s] = [term |-> t, votedFor |-> v.candidate]
      BY <2>1, <2>4, <2>3, <3>1
    <3> QED BY <2>1, <3>1, <3>2
  <2>5. OneVotePerTerm'
    BY <2>1, <2>4
  <2>6. VotesInTheBook'
    <3> SUFFICES ASSUME NEW v \in cast'
                 PROVE  \/ ballot'[v.voter].term > v.term
                        \/ ballot'[v.voter] = [term |-> v.term, votedFor |-> v.candidate]
      OBVIOUS
    <3>1. CASE v = new
      BY <2>1, <3>1
    <3>2. CASE v \in cast /\ v.voter # s
      BY <2>1, <3>2
    <3>3. CASE v \in cast /\ v.voter = s
      <4>1. v.term \in Nat /\ t \in Nat /\ ballot[s].term \in Nat
        BY <3>3
      <4>2. ballot'[s] = [term |-> t, votedFor |-> c]
        BY <2>1
      <4>3. ballot[s].term >= v.term
        BY <2>3, <3>3, <4>1
      <4> QED BY <2>1, <2>4, <3>3, <4>1, <4>2, <4>3
    <3> QED BY <2>1, <3>1, <3>2, <3>3
  <2> QED BY <2>2, <2>5, <2>6
<1>3. CASE UNCHANGED ballotVars
  BY <1>3 DEF ballotVars
<1> QED BY <1>1, <1>2, <1>3 DEF Next

(***************************************************************************)
(* Every behaviour of the book has one vote per server and term, and a     *)
(* page for every vote.                                                    *)
(***************************************************************************)
THEOREM BookIsSafe ==
    ASSUME Term \subseteq Nat, None \notin Server
    PROVE  Spec => []BookInv
<1>1. Init => BookInv
  BY DEF Init, BookInv, TypeOK, VotesInTheBook, OneVotePerTerm, Entry, Vote
<1>2. BookInv /\ [Next]_ballotVars => BookInv'
  BY BookStep
<1> QED BY <1>1, <1>2, PTL DEF Spec
=============================================================================
