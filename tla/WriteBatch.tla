----------------------------- MODULE WriteBatch ------------------------------
(* A WriteBatch (db/write_batch.cc) is rep_, its bytes: a sequence number, *)
(* a count, and the updates.                                               *)
EXTENDS Coding

CONSTANTS SequenceBytes, CountBytes    \* 8 and 4
CONSTANTS kTypeDeletion, kTypeValue

kHeader == SequenceBytes + CountBytes
Clear == Zeros(kHeader)

Sequence(rep) == DecodeFixed(SubSeq(rep, 1, SequenceBytes))
Count(rep) == DecodeFixed(SubSeq(rep, SequenceBytes + 1, kHeader))
SetSequence(rep, seq) == EncodeFixed(seq, SequenceBytes) \o Rest(rep, SequenceBytes)
SetCount(rep, n) ==
    SubSeq(rep, 1, SequenceBytes) \o EncodeFixed(n, CountBytes) \o Rest(rep, kHeader)

Put(rep, key, value) ==
    SetCount(rep, Count(rep) + 1) \o <<kTypeValue>>
        \o PutLengthPrefixedSlice(key) \o PutLengthPrefixedSlice(value)
Delete(rep, key) ==
    SetCount(rep, Count(rep) + 1) \o <<kTypeDeletion>> \o PutLengthPrefixedSlice(key)

\* Append(): the updates of src behind those of dst
AppendTo(dst, src) == SetCount(dst, Count(dst) + Count(src)) \o Rest(src, kHeader)

\* Iterate(): what it hands to its handler, also before it finds an error
Update(user, type) == [user |-> user, type |-> type]
Handled(ok, updates) == [ok |-> ok, updates |-> updates]
RECURSIVE Parse(_, _), ParsePut(_, _), ParseDelete(_, _)
Parse(input, handled) ==
    IF input = <<>> THEN Handled(TRUE, handled)
    ELSE IF Head(input) = kTypeValue
    THEN ParsePut(Then(GetLengthPrefixedSlice(Tail(input)), GetLengthPrefixedSlice), handled)
    ELSE IF Head(input) = kTypeDeletion
    THEN ParseDelete(GetLengthPrefixedSlice(Tail(input)), handled)
    ELSE Handled(FALSE, handled)
ParsePut(pair, handled) ==
    IF pair.ok THEN Parse(pair.rest, Append(handled, Update(pair.value[1], kTypeValue)))
    ELSE Handled(FALSE, handled)
ParseDelete(key, handled) ==
    IF key.ok THEN Parse(key.rest, Append(handled, Update(key.value, kTypeDeletion)))
    ELSE Handled(FALSE, handled)
Counted(rep, p) == [p EXCEPT !.ok = @ /\ Len(p.updates) = Count(rep)]
Iterate(rep) == IF Len(rep) < kHeader THEN Handled(FALSE, <<>>)
                ELSE Counted(rep, Parse(Rest(rep, kHeader), <<>>))

\* InsertInto(): the updates get successive numbers.
From(n, us) == [i \in n .. n + Len(us) - 1 |-> us[i - n + 1]]
InsertInto(rep) == From(Sequence(rep), Iterate(rep).updates)
=============================================================================
