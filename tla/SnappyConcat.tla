----------------------------- MODULE SnappyConcat -----------------------------
(***************************************************************************)
(* SnappyConcatReader (internal/pusher/v2/snappy_concat.go), which reads   *)
(* the records of a push as one snappy block: the sum of their lengths as a*)
(* varint, and their bodies one after the other, over as many calls of Read*)
(* as the caller's buffers need.                                           *)
(***************************************************************************)
EXTENDS Integers, Sequences, SequencesExt

CONSTANTS
  Records,          \* sequences of compressed records
  BufferSizes       \* the lengths of the buffers that Read is called with

VARIABLES
  records,          \* what the reader was made of
  streams, init,    \* of the reader
  output,           \* what its calls have returned
  readError

snappyVars == <<records, streams, init, output, readError>>

RECURSIVE PutUvarint(_)
PutUvarint(v) ==
  IF v < 128 THEN <<v>> ELSE <<128 + (v % 128)>> \o PutUvarint(v \div 128)

\* A varint at the start of s: its value and its length.
RECURSIVE Uvarint(_)
Uvarint(s) ==
  IF Head(s) < 128 THEN <<Head(s), 1>>
  ELSE LET rest == Uvarint(Tail(s))
       IN <<Head(s) - 128 + 128 * rest[1], rest[2] + 1>>

\* A record of n bytes: its length, and a body of as many bytes.
Compressed(n, byte) == PutUvarint(n) \o [i \in 1..n |-> byte]

SnappyInit ==
  /\ records \in Records /\ streams = records
  /\ init = FALSE /\ output = <<>> /\ readError = "nil"

TotalLength(ss) == FoldSeq(LAMBDA s, n : Uvarint(s)[1] + n, 0, ss)

stripHeaders(ss) ==
  [i \in 1..Len(ss) |-> SubSeq(ss[i], Uvarint(ss[i])[2] + 1, Len(ss[i]))]

Mut_Rest(ss, n) ==
  LET whole == {k \in 0..Len(ss) : Len(FlattenSeq(SubSeq(ss, 1, k))) <= n}
      k == CHOOSE k \in whole : \A j \in whole : j <= k
  IN SubSeq(ss, k + 1, Len(ss))

\* The streams without their first n bytes: those that are copied whole are
\* dropped, and the first of the others is cut.
Rest(ss, n) ==
  LET whole == {k \in 0..Len(ss) : Len(FlattenSeq(SubSeq(ss, 1, k))) <= n}
      k == CHOOSE k \in whole : \A j \in whole : j <= k
      left == n - Len(FlattenSeq(SubSeq(ss, 1, k)))
  IN IF k = Len(ss) THEN <<>>
     ELSE <<SubSeq(ss[k + 1], left + 1, Len(ss[k + 1]))>> \o SubSeq(ss, k + 2, Len(ss))

\* Read, with a buffer for size bytes. The first call strips the headers also
\* when it then finds no room for the sum, which is less than 2^31 here.
Read(size) ==
  /\ readError = "nil"
  /\ LET total == TotalLength(streams)
         header == IF init THEN <<>> ELSE PutUvarint(total)
         bodies == IF init THEN streams ELSE stripHeaders(streams)
         short == ~init /\ size < 5 /\ total >= 2^(7 * size)
         rest == FlattenSeq(bodies)
         room == size - Len(header)
         copied == SubSeq(rest, 1, IF room < Len(rest) THEN room ELSE Len(rest))
     IN /\ init' = TRUE
        /\ \/ /\ short /\ streams' = bodies /\ readError' = "short" /\ UNCHANGED output
           \/ /\ ~short /\ header = <<>> /\ bodies = <<>>
              /\ readError' = "EOF" /\ UNCHANGED <<streams, output>>
           \/ /\ ~short /\ header \o bodies # <<>>
              /\ output' = output \o header \o copied
              /\ streams' = Rest(bodies, room)
              /\ UNCHANGED readError
  /\ UNCHANGED records

SnappyNext == \E size \in BufferSizes : Read(size)

------------------------------------------------------------------------------
(* Properties                                                              *)

\* However the calls of Read cut it, what they return is the block of the
\* records: the sum of their lengths, and their bodies in order, all of it at the
\* end. A caller does not go on after ErrShortBuffer: the sum would be missing.
ReadsOneBlock ==
  LET lengths == [i \in 1..Len(records) |-> Uvarint(records[i])[1]]
      block == PutUvarint(FoldSeq(LAMBDA m, n : m + n, 0, lengths))
                 \o FlattenSeq([i \in 1..Len(records) |->
                      SubSeq(records[i], Len(records[i]) - lengths[i] + 1, Len(records[i]))])
  IN /\ readError = "nil" => IsPrefix(output, block)
     /\ readError = "EOF" => output = block
==============================================================================
