------------------------------ MODULE Delivery ------------------------------
(***************************************************************************)
(* What the group promises one client: its messages are committed once     *)
(* each and in the order they were published in, and only then reported to *)
(* it, in that order.  A message is its id: 1, 2, ...                      *)
(***************************************************************************)
EXTENDS Naturals, Sequences

VARIABLES published,   \* how many messages the client has published
          delivered,   \* the ids of its committed messages, as committed
          reported     \* how many were reported to it (on_commit)

vars == <<published, delivered, reported>>

Init == published = 0 /\ delivered = <<>> /\ reported = 0

Publish == published' = published + 1 /\ UNCHANGED <<delivered, reported>>

\* Any number of the published messages are committed next, in their order.
Deliver ==
    \E n \in Len(delivered) + 1 .. published :
        /\ delivered' = [i \in 1 .. n |-> i]
        /\ UNCHANGED <<published, reported>>

Report ==
    \E n \in reported + 1 .. Len(delivered) :
        /\ reported' = n
        /\ UNCHANGED <<published, delivered>>

Next == Publish \/ Deliver \/ Report

Spec == Init /\ [][Next]_vars
=============================================================================
