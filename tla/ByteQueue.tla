----------------------------- MODULE ByteQueue -----------------------------
(***************************************************************************)
(* What nbq promises: bytes come out in the order they went in, once, and  *)
(* again after a rewind; split cuts the queue in two at an offset, join    *)
(* appends another queue's bytes.  Blocks and iterators are Nbq's.         *)
(***************************************************************************)
EXTENDS Integers, Sequences

CONSTANTS
  MaxBytes,   \* bound on a byte, and on the bytes of one call
  Bodies      \* what may be joined at once

VARIABLES
  log,     \* the bytes of the queue, those read already included
  rd,      \* how many of them were read
  taken,   \* the bytes the last call returned
  rest     \* the bytes of the queue a split made

vars == <<log, rd, taken, rest>>

Init == log = <<>> /\ rd = 0 /\ taken = <<>> /\ rest = <<>>

Append_(bytes) == log' = log \o bytes /\ taken' = <<>> /\ UNCHANGED <<rd, rest>>

Read(n) ==
  /\ n \in 1 .. Len(log) - rd
  /\ taken' = SubSeq(log, rd + 1, rd + n)
  /\ rd' = rd + n
  /\ UNCHANGED <<log, rest>>

\* a read from an offset, of what is left from there
ReadFrom(n_off, n) ==
  LET to == IF n_off + n < Len(log) THEN n_off + n ELSE Len(log) IN
  /\ taken' = SubSeq(log, n_off + 1, to)
  /\ rd' = to
  /\ UNCHANGED <<log, rest>>

Rewind == rd' = 0 /\ taken' = <<>> /\ UNCHANGED <<log, rest>>

Clear == log' = <<>> /\ rd' = 0 /\ taken' = <<>> /\ UNCHANGED rest

\* bytes that were read may be dropped, and no others
Drop(n) ==
  /\ n \in 0 .. rd
  /\ log' = SubSeq(log, n + 1, Len(log)) /\ rd' = rd - n
  /\ taken' = <<>> /\ UNCHANGED rest

Split(n) ==
  /\ n \in 1 .. Len(log) - 1
  /\ log' = SubSeq(log, 1, n) /\ rest' = SubSeq(log, n + 1, Len(log))
  /\ rd' = 0
  /\ taken' = <<>>

Next ==
  \/ \E b \in Bodies : Append_(b)
  \/ \E first, n \in 1 .. MaxBytes : Append_([i \in 1 .. n |-> first + i - 1])
  \/ \E n \in 1 .. Len(log) : Read(n) \/ Split(n)
  \/ \E n \in 0 .. Len(log) : Drop(n)
  \/ \E n_off \in 0 .. Len(log), n \in 1 .. Len(log) + 1 : ReadFrom(n_off, n)
  \/ Rewind
  \/ Clear

Spec == Init /\ [][Next]_vars
=============================================================================
