----------------------------- MODULE DataProto ------------------------------
(***************************************************************************)
(* verl/protocol.py and single_controller/: a batch is a sequence of rows. *)
(* The driver cuts it into one piece for each rank and puts the pieces the *)
(* ranks return one after the other.                                       *)
(***************************************************************************)
EXTENDS Integers, Sequences, SequencesExt

\* DataProto.chunk, for a number of rows that k divides.
Chunk(rows, k) ==
    LET size == Len(rows) \div k
    IN  [i \in 1..k |-> SubSeq(rows, ((i - 1) * size) + 1, i * size)]

\* Tensor.split: pieces of m rows, the last one may be shorter.
Split(rows, m) ==
    [i \in 1..((Len(rows) + m - 1) \div m) |->
        SubSeq(rows, ((i - 1) * m) + 1, IF i * m < Len(rows) THEN i * m ELSE Len(rows))]

Concat(pieces) == FlattenSeq(pieces)

\* DataProto.repeat with interleave.
Repeat(rows, n) == [i \in 1..(Len(rows) * n) |-> rows[((i - 1) \div n) + 1]]

\* pad_dataproto_to_divisor: the first rows again, as often as it takes.
PadSize(rows, k) == (k - (Len(rows) % k)) % k
PadToDivisor(rows, k) ==
    rows \o [i \in 1..PadSize(rows, k) |-> rows[((i - 1) % Len(rows)) + 1]]

\* unpad_dataproto, and what func_generator cuts off.
Unpad(rows, pad) == SubSeq(rows, 1, Len(rows) - pad)

\* The automatic padding of a dispatched argument: the last row again.
AutoPad(rows, k) == rows \o [i \in 1..PadSize(rows, k) |-> rows[Len(rows)]]
=============================================================================
