----------------------------- MODULE MemoryLog ------------------------------
(***************************************************************************)
(* The log store at work.  Replication appends, replaces and commits on    *)
(* the server's event loop; a state transfer reads the log piecewise on a  *)
(* thread of its own and another server writes the pieces into its log.    *)
(* Each operation holds the mutex of the store: it is one step.            *)
(*   src/src/artos/server/log/memory.rs            MemoryLogStore          *)
(*   src/src/artos/server/state/                   state transfer          *)
(* The acquirer and the applier of a transfer are interfaces that the      *)
(* embedding program implements: they are modelled after the one use of    *)
(* read and write in the repository (memory_tests.rs:246-296) and after    *)
(* what lock_compaction is for.                                            *)
(***************************************************************************)
EXTENDS LogStore

CONSTANT MaxIndex   \* bound: no entry is appended at an index above it

ASSUME MemoryLogAssumption ==
    /\ MaxIndex \in Nat /\ MaxSize \in Nat /\ NoRetention \in BOOLEAN
    \* max_value_size of the configuration: a piece has room for any entry.
    /\ \A e \in Entry : Size(e) \in 1 .. MaxSize

VARIABLES log,       \* the log of the server
          gone,      \* history: the entries compacted away, from index 1 on
          reader,    \* the state transfer
          files,     \* the pieces read and not yet written: log_states
          copy       \* the log of the server that asked for the transfer

vars == <<log, gone, reader, files, copy>>

\* phase: the transfer is reading the log, sending files, or there is none.
\* next: log_index of the next read; from: the index it was asked to start with;
\* sure: what was committed when the reading ended.
Reader == [phase : {"idle", "reading", "sending"}, from : Nat, next : Nat, sure : Nat]

NoTransfer == [phase |-> "idle", from |-> 0, next |-> 0, sure |-> 0]

TypeOK ==
    /\ log \in Log /\ copy \in Log
    /\ gone \in Seq(Entry)
    /\ reader \in Reader
    /\ files \in Seq([from : Nat, entries : Seq(Entry), next : Nat])

-----------------------------------------------------------------------------
\* l is the log of the server after the step; what it has compacted is gone.
Becomes(l) ==
    /\ log' = l
    /\ gone' = gone \o SubSeq(log.entries, 1, l.start - log.start)

\* append of a leader or of a follower
AppendEntry(e) ==
    /\ EndIndex(log) <= MaxIndex
    /\ Becomes(AppendTo(log, e))
    /\ UNCHANGED <<reader, files, copy>>

\* set_at of a follower whose log differs from the leader's: only entries that are not
\* committed differ.  A server does not serve a transfer and follow at the same time.
ReplaceEntry(i, e) ==
    /\ reader.phase # "reading"
    /\ i \in log.commit + 1 .. EndIndex(log) - 1
    /\ Becomes(SetAt(log, i, e))
    /\ UNCHANGED <<reader, files, copy>>

\* the end of local_commit
CommitEntry(i) ==
    /\ i \in log.commit + 1 .. EndIndex(log) - 1
    /\ Becomes(Commit(log, i))
    /\ UNCHANGED <<reader, files, copy>>

\* The oldest entry that has not expired yet does.
TimePasses ==
    /\ log.aged < Len(log.entries)
    /\ log' = [log EXCEPT !.aged = log.aged + 1]
    /\ UNCHANGED <<gone, reader, files, copy>>

\* A server whose log agrees with this one before index i, and may go on differently,
\* asks for the entries from i on.  Its own compaction does not matter here.
BeginTransfer(i, rest) ==
    /\ reader.phase = "idle"
    /\ log.commit >= log.start
    /\ i \in log.start .. EndIndex(log) - 1
    /\ Becomes(LockCompaction(log))
    /\ reader' = [phase |-> "reading", from |-> i, next |-> i, sure |-> 0]
    /\ copy' = [EmptyLog EXCEPT !.start = log.start,
                                !.entries = SubSeq(log.entries, 1, i - log.start) \o rest]
    /\ UNCHANGED files

\* One read.  After the last one, which returned None, the compaction is unlocked.
ReadPiece ==
    LET piece == Read(log, reader.next)
        done  == piece.next >= EndIndex(log)
    IN  /\ reader.phase = "reading"
        /\ files' = Append(files, piece)
        /\ reader' = [reader EXCEPT !.next  = piece.next,
                                    !.phase = IF done THEN "sending" ELSE "reading",
                                    !.sure  = IF done THEN log.commit ELSE 0]
        /\ Becomes(IF done THEN UnlockCompaction(log) ELSE log)
        /\ UNCHANGED copy

WriteAgain ==
    /\ reader.phase = "sending" /\ files # <<>>
    /\ copy' = Write(copy, Head(files))
    /\ UNCHANGED <<log, gone, reader, files>>

\* The applier writes the files in the order they are received.
WritePiece ==
    /\ reader.phase = "sending" /\ files # <<>>
    /\ copy' = Write(copy, Head(files))
    /\ files' = Tail(files)
    /\ UNCHANGED <<log, gone, reader>>

EndTransfer ==
    /\ reader.phase = "sending" /\ files = <<>>
    /\ reader' = NoTransfer
    /\ copy' = EmptyLog
    /\ UNCHANGED <<log, gone, files>>

\* The connection breaks while the files are sent: the transfer is given up.
BreakTransfer ==
    /\ reader.phase = "sending" /\ files # <<>>
    /\ reader' = NoTransfer
    /\ files' = <<>>
    /\ copy' = EmptyLog
    /\ UNCHANGED <<log, gone>>

-----------------------------------------------------------------------------
Init ==
    /\ log = EmptyLog /\ copy = EmptyLog
    /\ gone = <<>>
    /\ reader = NoTransfer
    /\ files = <<>>

Rests == {<<>>} \cup {<<e>> : e \in Entry}

Replicate ==
    \/ \E e \in Entry : AppendEntry(e)
    \/ \E i \in 1 .. MaxIndex, e \in Entry : ReplaceEntry(i, e)
    \/ \E i \in 1 .. MaxIndex : CommitEntry(i)

Transfer == ReadPiece \/ WritePiece \/ EndTransfer

Next ==
    \/ Replicate
    \/ TimePasses
    \/ \E i \in 1 .. MaxIndex, rest \in Rests : BeginTransfer(i, rest)
    \/ Transfer
    \/ BreakTransfer

Spec == Init /\ [][Next]_vars

\* The transfer's threads run: they read, write and end.
FairSpec == Spec /\ WF_vars(ReadPiece) /\ WF_vars(WritePiece) /\ WF_vars(EndTransfer)

-----------------------------------------------------------------------------
(***************************************************************************)
(* Compaction is invisible: by index, the log is a CommittedLog.  It is    *)
(* where start_index, the entries removed at the front and at the back and *)
(* the commit index must agree (compact, trim, set_at, commit).            *)
(***************************************************************************)
Contract == INSTANCE CommittedLog WITH all <- gone \o log.entries, committed <- log.commit

KeepsTheLog == Contract!Spec

(***************************************************************************)
(* The last committed entry stays in the log, since replication looks up   *)
(* its term to extend a peer's log from it (term_for_log_index), and what  *)
(* commit_index - start_index subtracts is never the larger (memory.rs:301)*)
(* once there is something to compact.                                     *)
(***************************************************************************)
CommittedEntryStays ==
    /\ Len(gone) = log.start - 1
    /\ log.commit # 0 => log.start <= log.commit /\ log.commit < EndIndex(log)

(***************************************************************************)
(* The assertions of read (memory.rs:185) and write (memory.rs:234-235):   *)
(* a transfer that goes on where it stopped finds its index in the log,    *)
(* though the server commits and compacts meanwhile, and the pieces fit    *)
(* together in the log of the server that asked.                           *)
(***************************************************************************)
TransferInBounds ==
    /\ reader.phase = "reading" => reader.next \in log.start .. EndIndex(log)
    /\ reader.phase = "sending" /\ files # <<>> =>
          Head(files).from \in copy.start .. EndIndex(copy)

(***************************************************************************)
(* A transfer copies the log: when all files are written, every entry that *)
(* was committed is in the copy at its index, and no stale one stays       *)
(* behind it, even though the log has moved on since.                      *)
(***************************************************************************)
CopyIsFaithful ==
    reader.phase = "sending" /\ files = <<>> =>
        /\ EndIndex(copy) = reader.next
        /\ \A i \in copy.start .. reader.sure : GetAt(copy, i) = (gone \o log.entries)[i]

(***************************************************************************)
(* A transfer comes to an end: every read makes progress.                  *)
(***************************************************************************)
TransferEnds == reader.phase # "idle" ~> reader.phase = "idle"
=============================================================================
