-------------------------------- MODULE Coding -------------------------------
(* Numbers and slices as bytes (util/coding.cc).  A byte is one of         *)
(* 0 .. 2 * VarintBase - 1: the upper half of them say that more follow.   *)
(* A Get maps an input to the value at its front and the rest of it.       *)
EXTENDS Integers, Sequences, SequencesExt

CONSTANT VarintBase     \* 128

Zeros(n) == [i \in 1 .. n |-> 0]
Rest(s, n) == SubSeq(s, n + 1, Len(s))

EncodeFixed(v, width) == [i \in 1 .. width |-> (v \div (2 * VarintBase)^(i - 1)) % (2 * VarintBase)]
DecodeFixed(bytes) == FoldRight(LAMBDA b, v : v * 2 * VarintBase + b, bytes, 0)

RECURSIVE EncodeVarint(_)
EncodeVarint(v) == IF v < VarintBase THEN <<v>>
                   ELSE <<(v % VarintBase) + VarintBase>> \o EncodeVarint(v \div VarintBase)

PutLengthPrefixedSlice(slice) == EncodeVarint(Len(slice)) \o slice

Got(value, rest) == [ok |-> TRUE, value |-> value, rest |-> rest]
Failed(input) == [ok |-> FALSE, value |-> 0, rest |-> input]

\* The first byte of the lower half ends the number, within groups bytes.
Higher(byte, more) ==
    IF more.ok THEN Got(byte - VarintBase + VarintBase * more.value, more.rest) ELSE more
RECURSIVE GetVarint(_, _)
GetVarint(input, groups) ==
    IF groups = 0 \/ input = <<>> THEN Failed(input)
    ELSE IF Head(input) < VarintBase THEN Got(Head(input), Tail(input))
    ELSE Higher(Head(input), GetVarint(Tail(input), groups - 1))
GetVarint32(input) == GetVarint(input, 5)
GetVarint64(input) == GetVarint(input, 10)

Slice(length) ==
    IF length.ok /\ Len(length.rest) >= length.value
    THEN Got(SubSeq(length.rest, 1, length.value), Rest(length.rest, length.value))
    ELSE Failed(length.rest)
GetLengthPrefixedSlice(input) == Slice(GetVarint32(input))

\* Two values in a row
Both(first, second) ==
    IF first.ok /\ second.ok THEN Got(<<first.value, second.value>>, second.rest)
    ELSE Failed(first.rest)
Then(first, Get(_)) == Both(first, Get(first.rest))
=============================================================================
