-------------------------------- MODULE Nbt --------------------------------
(* The tags in a record of the game, and the app's way from bytes to tags  *)
(* and back: NBTInputStream, NBTOutputStream and DataConverter, as they    *)
(* are used, little endian and not compressed.                             *)
(*                                                                         *)
(* A number is the sequence of its bytes as Java has them, the highest     *)
(* first; a name or a text is the sequence of its bytes.  Only texts that  *)
(* are well-formed UTF-8, and floats and doubles that are not NaNs or are  *)
(* the canonical one, occur in a record: a Java String and floatToIntBits  *)
(* would change the bytes of others.                                       *)
EXTENDS Integers, Sequences, SequencesExt

CONSTANT ByteBase       \* the values a byte of a length has: 256

\* NBTType: the ids, and the bytes of what is not made of other tags
TagEnd == 0
TagByte == 1        TagShort == 2      TagInt == 3       TagLong == 4
TagByteArray == 7   TagString == 8     TagList == 9      TagCompound == 10
NumberBytes == <<1, 2, 4, 8, 4, 8>>
ElementBytes == (TagByteArray :> 1) @@ (11 :> 4) @@ (100 :> 2)
TypesByID == 0 .. 11 \cup {100}

Tag(type, name, value) == [type |-> type, name |-> name, value |-> value]

\* A length in width bytes, the lowest first, and what such bytes mean
LittleEndian(n, width) == [i \in 1 .. width |-> (n \div ByteBase ^ (i - 1)) % ByteBase]
Unsigned(bytes) == FoldRight(LAMBDA b, n : b + ByteBase * n, bytes, 0)
Signed(bytes) == LET n == Unsigned(bytes)
                 IN  IF 2 * n < ByteBase ^ Len(bytes) THEN n ELSE n - ByteBase ^ Len(bytes)

Each(seq, Op(_)) == FlattenSeq([i \in DOMAIN seq |-> Op(seq[i])])

---------------------------------------------------------------------------
(* NBTOutputStream                                                         *)

\* The type of a list is that of its first tag.
ListType(tags) == IF tags = <<>> THEN TagEnd ELSE Head(tags).type

RECURSIVE WriteTag(_), WriteTagPayload(_)

WriteTagPayload(tag) ==
    LET v == tag.value IN
    CASE tag.type \in DOMAIN NumberBytes  -> Reverse(v)
      [] tag.type = TagString             -> LittleEndian(Len(v), 2) \o v
      [] tag.type \in DOMAIN ElementBytes -> LittleEndian(Len(v), 4) \o Each(v, Reverse)
      [] tag.type = TagList ->
            <<ListType(v)>> \o LittleEndian(Len(v), 4) \o Each(v, WriteTagPayload)
      [] tag.type = TagCompound -> Each(v, WriteTag) \o <<TagEnd>>

\* No tag that the reader returns, or the app makes, is an EndTag.
WriteTag(tag) ==
    <<tag.type>> \o LittleEndian(Len(tag.name), 2) \o tag.name \o WriteTagPayload(tag)

---------------------------------------------------------------------------
(* NBTInputStream: from position at on, a tag, and the position after it   *)

Read(tag, at) == [got |-> "tag", tag |-> tag, at |-> at]
IOException == [got |-> "IOException"]
\* NegativeArraySizeException, NullPointerException: nobody here catches them.
RuntimeException == [got |-> "RuntimeException"]

Holds(bytes, at, n) == at + n - 1 <= Len(bytes)
Take(bytes, at, n) == SubSeq(bytes, at, at + n - 1)

\* A length of width bytes at at, and what Then makes of it
WithLength(bytes, at, width, Then(_)) ==
    IF Holds(bytes, at, width) THEN Then(Signed(Take(bytes, at, width))) ELSE IOException

ReadNumber(bytes, at, type, name) ==
    IF Holds(bytes, at, NumberBytes[type])
    THEN Read(Tag(type, name, Reverse(Take(bytes, at, NumberBytes[type]))), at + NumberBytes[type])
    ELSE IOException

\* new byte[length], readFully()
ReadString(bytes, at, name, length) ==
    IF length < 0 THEN RuntimeException
    ELSE IF ~Holds(bytes, at, length) THEN IOException
    ELSE Read(Tag(TagString, name, Take(bytes, at, length)), at + length)

ReadArray(bytes, at, type, name, length) ==
    LET width == ElementBytes[type]
    IN  IF length < 0 THEN RuntimeException
        ELSE IF ~Holds(bytes, at, length * width) THEN IOException
        ELSE Read(Tag(type, name, [i \in 1 .. length |->
                                      Reverse(Take(bytes, at + (i - 1) * width, width))]),
                  at + length * width)

RECURSIVE ReadTag(_, _, _), ReadTagPayload(_, _, _, _, _),
          ReadItems(_, _, _, _, _, _, _), ReadChildren(_, _, _, _, _)

\* The tags of a list: payloads of one type
ReadItems(bytes, at, name, type, length, depth, tags) ==
    IF Len(tags) >= length THEN Read(Tag(TagList, name, tags), at)
    ELSE LET r == ReadTagPayload(bytes, at, type, <<>>, depth + 1)
         IN  IF r.got # "tag" THEN r
             ELSE ReadItems(bytes, r.at, name, type, length, depth, Append(tags, r.tag))

\* A type that is not known has no NBTType; a list of TAG_End is empty.
ReadList(bytes, at, name, length, depth) ==
    LET type == bytes[at - 5]
    IN  IF type \notin TypesByID THEN RuntimeException
        ELSE IF type = TagEnd THEN Read(Tag(TagList, name, <<>>), at)
        ELSE ReadItems(bytes, at, name, type, length, depth, <<>>)

\* Those of a compound, up to TAG_End
ReadChildren(bytes, at, name, depth, tags) ==
    LET r == ReadTag(bytes, at, depth + 1)
    IN  IF r.got # "tag" THEN r
        ELSE IF r.tag.type = TagEnd THEN Read(Tag(TagCompound, name, tags), r.at)
        ELSE ReadChildren(bytes, r.at, name, depth, Append(tags, r.tag))

ReadTagPayload(bytes, at, type, name, depth) ==
    CASE type \notin TypesByID -> IOException
      [] type = TagEnd -> IF depth = 0 THEN IOException ELSE Read(Tag(TagEnd, <<>>, <<>>), at)
      [] type \in DOMAIN NumberBytes -> ReadNumber(bytes, at, type, name)
      [] type = TagString ->
            WithLength(bytes, at, 2, LAMBDA n : ReadString(bytes, at + 2, name, n))
      [] type \in DOMAIN ElementBytes ->
            WithLength(bytes, at, 4, LAMBDA n : ReadArray(bytes, at + 4, type, name, n))
      [] type = TagList ->
            WithLength(bytes, at + 1, 4, LAMBDA n : ReadList(bytes, at + 5, name, n, depth))
      [] type = TagCompound -> ReadChildren(bytes, at, name, depth, <<>>)

\* The length of a name is not signed.
ReadTag(bytes, at, depth) ==
    IF ~Holds(bytes, at, 1) THEN IOException
    ELSE IF bytes[at] = TagEnd THEN ReadTagPayload(bytes, at + 1, TagEnd, <<>>, depth)
    ELSE IF ~Holds(bytes, at + 1, 2) THEN IOException
    ELSE LET n == Unsigned(Take(bytes, at + 1, 2))
         IN  IF ~Holds(bytes, at + 3, n) THEN IOException
             ELSE ReadTagPayload(bytes, at + 3 + n, bytes[at], Take(bytes, at + 3, n), depth)

\* readTopLevelTags(): what is left at the end, up to MinimumTag bytes, is not
\* looked at, and an IOException ends the list.
MinimumTag == 7
RECURSIVE ReadTopLevelTags(_, _, _)
ReadTopLevelTags(bytes, at, tags) ==
    IF Len(bytes) - at + 1 <= MinimumTag THEN [ok |-> TRUE, tags |-> tags]
    ELSE LET r == ReadTag(bytes, at, 0)
         IN  CASE r.got = "tag"              -> ReadTopLevelTags(bytes, r.at, Append(tags, r.tag))
               [] r.got = "IOException"      -> [ok |-> TRUE, tags |-> tags]
               [] r.got = "RuntimeException" -> [ok |-> FALSE]

---------------------------------------------------------------------------
(* DataConverter                                                           *)

ReadData(bytes) == ReadTopLevelTags(bytes, 1, <<>>)
WriteData(tags) == Each(tags, WriteTag)

---------------------------------------------------------------------------
(* The format, for the properties: a tag may be these bytes.  A list that  *)
(* is empty may be of any type.                                            *)

Joined1(first, second) == {x \o y : x \in first, y \in second}
InTurn(sets) == FoldLeft(Joined1, {<<>>}, sets)

RECURSIVE Payloads(_), Encodings(_)
Payloads(tag) ==
    LET v == tag.value IN
    CASE tag.type \in DOMAIN NumberBytes  -> {Reverse(v)}
      [] tag.type = TagString             -> {LittleEndian(Len(v), 2) \o v}
      [] tag.type \in DOMAIN ElementBytes -> {LittleEndian(Len(v), 4) \o Each(v, Reverse)}
      [] tag.type = TagList ->
            InTurn(<<IF v = <<>> THEN {<<t>> : t \in TypesByID} ELSE {<<Head(v).type>>},
                     {LittleEndian(Len(v), 4)}>>
                   \o [i \in DOMAIN v |-> Payloads(v[i])])
      [] tag.type = TagCompound ->
            InTurn([i \in DOMAIN v |-> Encodings(v[i])] \o <<{<<TagEnd>>}>>)
Encodings(tag) ==
    {<<tag.type>> \o LittleEndian(Len(tag.name), 2) \o tag.name \o p : p \in Payloads(tag)}
=============================================================================
