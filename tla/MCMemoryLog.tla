---------------------------- MODULE MCMemoryLog -----------------------------
(* A small instance of MemoryLog for TLC. *)
EXTENDS MemoryLog

\* An entry is its size here: two of the small ones fill a piece, or a large one.
MCEntry == 1 .. 2
MCSize(e) == e
=============================================================================
