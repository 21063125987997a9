------------------------------ MODULE LogStore ------------------------------
(***************************************************************************)
(* The log store of a server, MemoryLogStore of                            *)
(* src/src/artos/server/log/memory.rs, as operators from a log to a log.   *)
(* The entries of a log occupy the indexes start .. EndIndex - 1; those    *)
(* before start have been compacted away.  Entries age in the order they   *)
(* were appended: aged counts those older than min_retention_period.       *)
(*                                                                         *)
(* Where the code has an assertion, the operator means nothing outside of  *)
(* it, and whoever calls it shows that the assertion holds.                *)
(***************************************************************************)
EXTENDS Integers, Sequences, SequencesExt, FiniteSetsExt

CONSTANTS Entry,         \* log entries
          Size(_),       \* the bytes of an entry's value
          MaxSize,       \* max_size of one read
          NoRetention    \* min_retention_period is zero

Log == [start : Nat, commit : Nat, locked : BOOLEAN, aged : Nat, entries : Seq(Entry)]

\* MemoryLogStore::new
EmptyLog ==
    [start |-> 1, commit |-> 0, locked |-> FALSE, aged |-> 0, entries |-> <<>>]

EndIndex(l) == l.start + Len(l.entries)

\* get_at; log_index is asserted to be an index of the log.
GetAt(l, i) == l.entries[i - l.start + 1]

\* The entries that compaction may remove once they are committed.
Expired(l) == IF NoRetention THEN Len(l.entries) ELSE l.aged

CompactIgnoringLock(l) ==
    LET n == Min({Max({l.commit - l.start, 0}), Expired(l)})
    IN  [l EXCEPT !.start = l.start + n, !.aged = Max({l.aged - n, 0}),
                  !.entries = SubSeq(l.entries, n + 1, Len(l.entries))]

CompactCommitted(l) ==
    LET n == Min({Max({l.commit - l.start + 1, 0}), Expired(l)})
    IN  IF l.locked \/ l.entries = <<>>
        THEN l
        ELSE [l EXCEPT !.start = l.start + n, !.aged = Max({l.aged - n, 0}),
                       !.entries = SubSeq(l.entries, n + 1, Len(l.entries))]

CompactBackwards(l) ==
    LET n == Min({l.commit - l.start, Expired(l)})
    IN  IF l.locked \/ l.entries = <<>>
        THEN l
        ELSE [l EXCEPT !.start = l.start - n, !.aged = Max({l.aged - n, 0}),
                       !.entries = SubSeq(l.entries, n + 1, Len(l.entries))]

\* compact: pop_front while commit_index - start_index > 0 and the front has expired.
\* The difference is unsigned: called with commit_index < start_index on entries, it
\* underflows.  Who calls it shows that this does not happen.
Compact(l) ==
    LET n == Min({l.commit - l.start, Expired(l)})
    IN  IF l.locked \/ l.entries = <<>>
        THEN l
        ELSE [l EXCEPT !.start = l.start + n, !.aged = Max({l.aged - n, 0}),
                       !.entries = SubSeq(l.entries, n + 1, Len(l.entries))]

AppendTo(l, e) == [l EXCEPT !.entries = Append(l.entries, e)]

TrimOneMore(l, i) ==
    LET n == i - l.start
    IN  [l EXCEPT !.entries = SubSeq(l.entries, 1, n - 1), !.aged = Min({l.aged, n})]

NoTrim(l, i) == l

\* trim: what remains are the entries before index i.
Trim(l, i) ==
    LET n == i - l.start
    IN  [l EXCEPT !.entries = SubSeq(l.entries, 1, n), !.aged = Min({l.aged, n})]

\* set_at; log_index is asserted to be an index of the log or its end.
SetAt(l, i, e) == AppendTo(Trim(l, i), e)

\* clear: the log is empty, and starts with the committed index.
Clear(l, i) == [l EXCEPT !.start = i, !.commit = i, !.aged = 0, !.entries = <<>>]

\* commit; log_index is asserted to be an index of the log.
Commit(l, i) == Compact([l EXCEPT !.commit = i])

LockCompaction(l)   == [l EXCEPT !.locked = TRUE]
UnlockCompaction(l) == Compact([l EXCEPT !.locked = FALSE])

\* The bytes of the entries from the k-th to the n-th.
SizeOf(l, k, n) == FoldLeft(LAMBDA total, e : total + Size(e), 0, SubSeq(l.entries, k, n))

\* read: as many entries from index i on as max_size allows, and the index to go on
\* with; log_index is asserted to be an index of the log or its end.
Read(l, i) ==
    LET k    == i - l.start + 1
        fit  == {n \in k .. Len(l.entries) : SizeOf(l, k, n) <= MaxSize}
        last == Max(fit \cup {k - 1})
    IN  [from |-> i, entries |-> SubSeq(l.entries, k, last), next |-> l.start + last]

\* write: what a read produced replaces everything from its first index on, which is
\* asserted to be an index of the log or its end.
Write(l, chunk) ==
    LET t == Trim(l, chunk.from) IN [t EXCEPT !.entries = t.entries \o chunk.entries]
=============================================================================
