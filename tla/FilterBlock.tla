----------------------------- MODULE FilterBlock -----------------------------
(* The filters of a table: Bloom filters (util/bloom.cc) of the user keys, *)
(* one for every FilterBase bytes of the file in which a block starts, and *)
(* their block (table/filter_block.cc).  A byte of a filter is the set of  *)
(* its bits that are 1.                                                    *)
EXTENDS InternalKeys

CONSTANTS FilterBase,               \* kFilterBase
          BitsPerKey, MinFilterBits, ByteBits, HashBits, Rotation,  \* 10, 64, 8, 32, 17
          Hash(_)                   \* of a user key

ProbesPerKey == Max({1, Min({30, (BitsPerKey * 69) \div 100})})

\* The bit that probe j tests, by double hashing
Delta(h) == h \div 2^Rotation + ((h * 2^(HashBits - Rotation)) % 2^HashBits)
Probe(h, j, bits) == ((h + j * Delta(h)) % 2^HashBits) % bits
Probes(user, n, bits) == {Probe(Hash(user), j, bits) : j \in 0 .. n - 1}

FilterBytes(n) == (Max({n * BitsPerKey, MinFilterBits}) + ByteBits - 1) \div ByteBits
Bytes(bits, n) == [i \in 1 .. n |-> {b \in 0 .. ByteBits - 1 : (i - 1) * ByteBits + b \in bits}]
Filter(users, n) ==
    Append(Bytes(UNION {Probes(users[i], ProbesPerKey, n * ByteBits) : i \in DOMAIN users}, n),
           ProbesPerKey)
CreateFilter(users) == Filter(users, FilterBytes(Len(users)))

FilterMayMatch(user, filter) ==
    LET bits == (Len(filter) - 1) * ByteBits
    IN  /\ Len(filter) >= 2
        /\ \/ Last(filter) > 30
           \/ \A p \in Probes(user, Last(filter), bits) :
                 p % ByteBits \in filter[p \div ByteBits + 1]

\* InternalFilterPolicy: filters know user keys only.
UserKeys(keys) == [i \in DOMAIN keys |-> UserKey(keys[i])]

---------------------------------------------------------------------------
NewFilterBlock == [keys |-> <<>>, result |-> <<>>, offsets |-> <<>>]
AddKey(f, key) == [f EXCEPT !.keys = Append(@, key)]

GenerateFilter(f) ==
    [keys    |-> <<>>,
     offsets |-> Append(f.offsets, Len(f.result)),
     result  |-> IF f.keys = <<>> THEN f.result ELSE f.result \o CreateFilter(UserKeys(f.keys))]

\* Mutant of StartBlock: one filter more than are behind.
RECURSIVE StartBlockAhead(_, _)
StartBlockAhead(f, offset) ==
    IF offset \div FilterBase >= Len(f.offsets)
    THEN StartBlockAhead(GenerateFilter(f), offset) ELSE f

RECURSIVE StartBlock(_, _)
StartBlock(f, offset) ==
    IF offset \div FilterBase > Len(f.offsets)
    THEN StartBlock(GenerateFilter(f), offset) ELSE f

\* Finish(): the filters, where each begins, and where the last ends
WithOffsets(f) == [data |-> f.result, offsets |-> Append(f.offsets, Len(f.result))]
FinishFilters(f) == WithOffsets(IF f.keys = <<>> THEN f ELSE GenerateFilter(f))

\* FilterBlockReader::KeyMayMatch()
KeyMayMatch(block, offset, key) ==
    LET i == offset \div FilterBase + 1
    IN  i < Len(block.offsets) =>
           FilterMayMatch(UserKey(key), SubSeq(block.data, block.offsets[i] + 1, block.offsets[i + 1]))
=============================================================================
