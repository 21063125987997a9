---------------------------- MODULE CommittedLog ----------------------------
(***************************************************************************)
(* What a log store promises to replication: one sequence of entries,      *)
(* known by their index forever.  Its committed prefix only grows; of the  *)
(* rest, a suffix may be replaced.  Nothing is said of compaction, which   *)
(* nobody can see in it.                                                   *)
(***************************************************************************)
EXTENDS Integers, Sequences

CONSTANT Entry

VARIABLES all,         \* the entries by index, compacted or not
          committed    \* the last committed index

allVars == <<all, committed>>

TypeOK == all \in Seq(Entry) /\ committed \in 0 .. Len(all)

Init == all = <<>> /\ committed = 0

\* The entry e becomes the last one, at index i; whatever was there is gone.
Put(i, e) ==
    /\ committed < i /\ i <= Len(all) + 1
    /\ all' = Append(SubSeq(all, 1, i - 1), e)
    /\ UNCHANGED committed

CommitTo(i) ==
    /\ committed < i /\ i <= Len(all)
    /\ committed' = i
    /\ UNCHANGED all

Next == \E i \in 1 .. Len(all) + 1 : CommitTo(i) \/ \E e \in Entry : Put(i, e)

Spec == Init /\ [][Next]_allVars
=============================================================================
