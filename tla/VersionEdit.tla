----------------------------- MODULE VersionEdit -----------------------------
(* A record of the MANIFEST (db/version_edit.cc): what changes from one    *)
(* version to the next, and its bytes.  numbers has those of the four      *)
(* numbers that are set, by tag.                                           *)
EXTENDS Coding, FiniteSets

CONSTANT kNumLevels

kComparator == 1
kLogNumber == 2
kNextFileNumber == 3
kLastSequence == 4
kCompactPointer == 5
kDeletedFile == 6
kNewFile == 7
kPrevLogNumber == 9
NumberTags == <<kLogNumber, kPrevLogNumber, kNextFileNumber, kLastSequence>>

\* Clear()
NewEdit == [comparator |-> <<>>, numbers |-> <<>>, compact_pointers |-> <<>>,
            deleted_files |-> {}, new_files |-> <<>>]

SetNumber(e, tag, n) == [e EXCEPT !.numbers = (tag :> n) @@ @]

Encoded(s, Field(_)) == FlattenSeq([i \in DOMAIN s |-> Field(s[i])])
Deleted(e) == SetToSortSeq(e.deleted_files,
                 LAMBDA p, q : p[1] < q[1] \/ (p[1] = q[1] /\ p[2] < q[2]))

EncodeTo(e) ==
    LET number(tag)  == IF tag \in DOMAIN e.numbers
                        THEN EncodeVarint(tag) \o EncodeVarint(e.numbers[tag]) ELSE <<>>
        pointer(p)   == EncodeVarint(kCompactPointer) \o EncodeVarint(p[1])
                        \o PutLengthPrefixedSlice(p[2])
        deletion(d)  == EncodeVarint(kDeletedFile) \o EncodeVarint(d[1]) \o EncodeVarint(d[2])
        addition(a)  == EncodeVarint(kNewFile) \o EncodeVarint(a[1])
                        \o EncodeVarint(a[2].number) \o EncodeVarint(a[2].file_size)
                        \o PutLengthPrefixedSlice(a[2].smallest)
                        \o PutLengthPrefixedSlice(a[2].largest)
    IN  (IF e.comparator = <<>> THEN <<>>
         ELSE EncodeVarint(kComparator) \o PutLengthPrefixedSlice(e.comparator))
        \o Encoded(NumberTags, number) \o Encoded(e.compact_pointers, pointer)
        \o Encoded(Deleted(e), deletion) \o Encoded(e.new_files, addition)

---------------------------------------------------------------------------
LevelOnly(v) == IF v.ok /\ v.value < kNumLevels THEN v ELSE Failed(v.rest)
GetLevel(input) == LevelOnly(GetVarint32(input))
GetInternalKey(input) == GetLengthPrefixedSlice(input)

GetPointer(input)  == Then(GetLevel(input), GetInternalKey)
GetDeletion(input) == Then(GetLevel(input), GetVarint64)
Addition(a) ==
    IF ~a.ok THEN a
    ELSE LET number == a.value[1][1][1]     \* level and number
         IN  Got(<<number[1], [number |-> number[2], file_size |-> a.value[1][1][2],
                               smallest |-> a.value[1][2], largest |-> a.value[2]]>>, a.rest)
GetAddition(input) ==
    Addition(Then(Then(Then(GetDeletion(input), GetVarint64), GetInternalKey), GetInternalKey))

\* What a tag is followed by
GetField(tag, input) ==
    CASE tag = kComparator         -> GetLengthPrefixedSlice(input)
      [] tag \in ToSet(NumberTags) -> GetVarint64(input)
      [] tag = kCompactPointer     -> GetPointer(input)
      [] tag = kDeletedFile        -> GetDeletion(input)
      [] tag = kNewFile            -> GetAddition(input)
      [] OTHER                     -> Failed(input)

SetField(e, tag, value) ==
    CASE tag = kComparator         -> [e EXCEPT !.comparator = value]
      [] tag \in ToSet(NumberTags) -> SetNumber(e, tag, value)
      [] tag = kCompactPointer     -> [e EXCEPT !.compact_pointers = Append(@, value)]
      [] tag = kDeletedFile        -> [e EXCEPT !.deleted_files = @ \cup {value}]
      [] OTHER                     -> [e EXCEPT !.new_files = Append(@, value)]

RECURSIVE DecodeMore(_, _), DecodeTagged(_, _), DecodeField(_, _, _)
DecodeMore(e, input) ==
    IF input = <<>> THEN [ok |-> TRUE, edit |-> e] ELSE DecodeTagged(e, GetVarint32(input))
DecodeTagged(e, tag) ==
    IF tag.ok THEN DecodeField(e, tag.value, GetField(tag.value, tag.rest))
    ELSE [ok |-> FALSE, edit |-> e]
DecodeField(e, tag, field) ==
    IF field.ok THEN DecodeMore(SetField(e, tag, field.value), field.rest)
    ELSE [ok |-> FALSE, edit |-> e]
DecodeFrom(src) == DecodeMore(NewEdit, src)
=============================================================================
