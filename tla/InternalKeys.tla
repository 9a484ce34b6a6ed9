---------------------------- MODULE InternalKeys ----------------------------
(* Keys of db/dbformat.h in the order of InternalKeyComparator, and the    *)
(* short keys that stand between two blocks in an index.  A user key is a  *)
(* sequence of bytes, in bytewise order; an internal key is a user key and *)
(* its tag: the sequence number and the type, packed.                      *)
EXTENDS Integers, Sequences, SequencesExt, FiniteSetsExt

CONSTANTS MaxByte,        \* 0xff
          kMaxSequenceNumber

kTypeDeletion == 0
kTypeValue == 1

PackSequenceAndType(seq, type) == seq * 2 + type
InternalKey(user, seq, type) == Append(user, PackSequenceAndType(seq, type))
UserKey(k) == Front(k)
SequenceOf(k) == Last(k) \div 2
TypeOf(k) == Last(k) % 2

\* How many bytes two keys share
Shared(a, b) == Max({n \in 0 .. Min({Len(a), Len(b)}) : \A i \in 1 .. n : a[i] = b[i]})

BytewiseLess(a, b) == LET n == Shared(a, b)
                      IN  n < Len(b) /\ (n = Len(a) \/ a[n + 1] < b[n + 1])

\* A finite set in the order of Less
InOrder(S, Less(_, _)) ==
    [i \in 1 .. Cardinality(S) |-> CHOOSE x \in S : Cardinality({y \in S : Less(y, x)}) = i - 1]

\* InternalKeyComparator: by user key, then the newest first
KeyLess(a, b) == IF UserKey(a) = UserKey(b) THEN Last(a) > Last(b)
                 ELSE BytewiseLess(UserKey(a), UserKey(b))

\* A user key of at least start, before limit, and shorter where that is easy
BytewiseSeparator(start, limit) ==
    LET n == Shared(start, limit)
    IN  IF n < Min({Len(start), Len(limit)}) /\ start[n + 1] < MaxByte
           /\ start[n + 1] + 1 < limit[n + 1]
        THEN Append(SubSeq(start, 1, n), start[n + 1] + 1)
        ELSE start

BytewiseSuccessor(key) ==
    LET can == {i \in DOMAIN key : key[i] # MaxByte}
    IN  IF can = {} THEN key ELSE Append(SubSeq(key, 1, Min(can) - 1), key[Min(can)] + 1)

\* Where the user key got shorter it got larger: the key before all of its own
Shortened(key, user) ==
    IF Len(user) < Len(UserKey(key)) /\ BytewiseLess(UserKey(key), user)
    THEN InternalKey(user, kMaxSequenceNumber, kTypeValue) ELSE key

FindShortestSeparator(start, limit) ==
    Shortened(start, BytewiseSeparator(UserKey(start), UserKey(limit)))
FindShortSuccessor(key) == Shortened(key, BytewiseSuccessor(UserKey(key)))
=============================================================================
