--------------------------- MODULE MCClientQuery ----------------------------
(* Small instances of ClientQuery for TLC. *)
EXTENDS ClientQuery, TLC

(* What the client needs of the world (README, "Findings") besides AppliedLeaders: a *)
(* session that ends knew of no commit.                                              *)
KeptSessions == \A s \in Server : srv'[s].committed >= srv[s].committed

(* Bounds: messages under way; and a client either asks or subscribes, as the two share *)
(* nothing but the connection.                                                          *)
FewMessages == Cardinality(net') <= 2

Apart == changes' = 0 \/ Queries(client', "none") = Query

CalmNext == Next /\ AppliedLeaders /\ KeptSessions /\ FewMessages /\ Apart

CalmSpec == Init /\ [][CalmNext]_vars /\ Fairness
=============================================================================
