---------------------------- MODULE MCMembership ----------------------------
(* Small instances of Membership for TLC. *)
EXTENDS Membership, TLC

(* What a change of the group relies on besides OnePending, LeadersBelong and UsedKept *)
(* (README, "Findings"): one server at a time is silent for so long that it is removed. *)
OneSilent == \A s \in Server : srv'[s].leads => Cardinality(srv[s].config \ srv'[s].config) <= 1

(* Nobody asks to leave while it is joining. *)
MembersLeave == \A s \in Server : srv'[s].attempt > 0 => ~srv'[s].join /\ ~srv'[s].catching

TermsUpTo(n) == \A s \in Server : srv'[s].term <= n

(* Bound: in the last term nothing breaks if someone leaves, and nobody leaves otherwise. *)
FewTroubles == calls' + faults' <= IF TermsUpTo(3) THEN 2 ELSE 1

(* Bound: messages under way, two at first, as long as nobody leaves and nothing breaks, *)
(* none in the last term, nor in the one before if someone leaves and something breaks  *)
FewMessages ==
    LET troubles == calls' + faults'
    IN  Cardinality(net') <= CASE TermsUpTo(2) -> IF troubles = 0 THEN 2 ELSE 1
                               [] TermsUpTo(3) /\ troubles < 2 -> 1
                               [] OTHER -> 0

CalmNext ==
    /\ Next /\ FewMessages /\ FewTroubles
    /\ OneSilent /\ OnePending /\ LeadersBelong /\ UsedKept /\ MembersLeave

(* Who joins has an entry of its own, or is behind by as much as a state transfer takes. *)
OldOrBehind == \A s \in Server \ First : Len(srv[s].log) + Len(srv[FirstLeader].log) = MinGap

CalmInit == Init /\ OldOrBehind

CalmSpec == CalmInit /\ [][CalmNext]_vars
=============================================================================
