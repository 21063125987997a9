--------------------------- MODULE MCReplication ----------------------------
(* Small instances of Replication for TLC. *)
EXTENDS Replication, TLC

CONSTANTS MaxMessages,   \* bound: messages under way at one time
          First          \* in a single term, the server that leads it

MCEntry == [term : 1 .. MaxTerm, type : {"Application", "Configuration"}]
MCSize(e) == 1

FewMessages == Cardinality(msgs) <= MaxMessages

\* Bound: one message less is under way once a connection was lost.
FewerMessages == Cardinality(msgs) + faults <= MaxMessages

Symmetry == Permutations(Server)

-----------------------------------------------------------------------------
(* A single term has one leader; which server it is makes no difference. *)
OneLeader == \A s \in Server \ {First} : srv'[s].role = "Follower"

(* A transfer ends before the server handles the leader's next request.  Without  *)
(* this the leader, refused meanwhile, steps back and asks for transfers for ever. *)
PromptTransfers ==
    \A m \in msgs \ msgs' : m.type = "Request" => srv[m.to].transfer = NoTransfer

OneLeaderSpec ==
    Spec /\ FairLeader(First) /\ \A s \in Server \ {First} : FairTransfer(s)

FollowersCatchUpWithIt == CatchUpWith(First)
=============================================================================
