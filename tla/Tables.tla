------------------------------- MODULE Tables -------------------------------
(* A table file: TableBuilder cuts sorted entries into blocks and writes   *)
(* them, their filters, an index of each and a footer; Table::Open() finds *)
(* index and filters again, and Table::InternalGet() looks a key up.       *)
(* A file has its blocks by their offsets, each with its size, and its     *)
(* footer.                                                                 *)
EXTENDS Blocks, FilterBlock, Coding

CONSTANTS DataBlockBytes,      \* options.block_size
          RestartInterval,     \* options.block_restart_interval
          kEncodedLength       \* BlockHandle::kMaxEncodedLength, scaled

kBlockTrailerSize == 1         \* scaled
kTableMagicNumber == 7
FilterName == InternalKey(<<0>>, 0, kTypeDeletion)  \* the one key of a metaindex

---------------------------------------------------------------------------
(* Block handles: where a block is, and its size                           *)

EncodeHandle(h) == EncodeVarint(h[1]) \o EncodeVarint(h[2])
DecodeHandle(input) == Then(GetVarint64(input), GetVarint64)

Padded(handles) == handles \o Zeros(2 * kEncodedLength - Len(handles))
EncodeFooter(metaindex, index) ==
    Append(Padded(EncodeHandle(metaindex) \o EncodeHandle(index)), kTableMagicNumber)
DecodeFooter(input) ==
    IF Last(input) = kTableMagicNumber THEN Then(DecodeHandle(input), DecodeHandle) ELSE Failed(input)

ReadBlock(blocks, handle) ==
    IF handle[1] \in DOMAIN blocks /\ blocks[handle[1]].size = handle[2]
    THEN [ok |-> TRUE, contents |-> blocks[handle[1]].contents]
    ELSE [ok |-> FALSE, contents |-> BlockContents(NewBlock)]
ReadEncoded(blocks, handle) ==
    IF handle.ok THEN ReadBlock(blocks, handle.value)
    ELSE [ok |-> FALSE, contents |-> BlockContents(NewBlock)]

---------------------------------------------------------------------------
NewBuilder ==
    [data |-> NewBlock, index |-> NewBlock, blocks |-> <<>>, offset |-> 0, handle |-> <<>>,
     pending |-> FALSE, pending_handle |-> <<>>, metaindex |-> <<>>, last |-> <<>>,
     filter |-> NewFilterBlock]

\* handle is where the block was written.
WriteRawBlock(t, contents, size) ==
    [t EXCEPT !.blocks = (t.offset :> [size |-> size, contents |-> contents]) @@ @,
              !.handle = <<t.offset, size>>,
              !.offset = @ + size + kBlockTrailerSize]
WriteBlock(t, b) == WriteRawBlock(t, BlockContents(b), BlockBytes(b) + Len(b.restarts))

AddIndexEntry(t, separator) ==
    [t EXCEPT !.index = BlockAdd(@, separator, EncodeHandle(t.pending_handle), 1),
              !.pending = FALSE]

BlockWritten(t) ==
    [t EXCEPT !.pending = TRUE, !.pending_handle = t.handle, !.data = NewBlock,
              !.filter = StartBlock(@, t.offset)]
Flush(t) == IF t.data.entries = <<>> THEN t ELSE BlockWritten(WriteBlock(t, t.data))

AddEntry(t, key, value) ==
    [t EXCEPT !.filter = AddKey(@, key), !.last = key,
              !.data = BlockAdd(@, key, value, RestartInterval)]
FlushFull(t) == IF BlockBytes(t.data) >= DataBlockBytes THEN Flush(t) ELSE t
TableAdd(t, key, value) ==
    FlushFull(AddEntry(IF t.pending THEN AddIndexEntry(t, FindShortestSeparator(t.last, key)) ELSE t,
                       key, value))

\* Finish(), step by step
FilterSize(f) == Len(f.data) + Len(f.offsets) + 1
WriteFilters(t, f) == WriteRawBlock(t, f, FilterSize(f))
WriteMetaIndex(t) == WriteBlock(t, BlockAdd(NewBlock, FilterName, EncodeHandle(t.handle), 1))
WriteIndex(t) == WriteBlock(t, t.index)
LastIndexEntry(t) ==
    IF t.pending THEN AddIndexEntry(t, FindShortSuccessor(t.last)) ELSE t
FileOf(t) == [blocks |-> t.blocks, footer |-> EncodeFooter(t.metaindex, t.handle),
              size |-> t.offset + 2 * kEncodedLength + 1]
AfterMetaIndex(t) == FileOf(WriteIndex(LastIndexEntry([t EXCEPT !.metaindex = t.handle])))
AfterData(t) == AfterMetaIndex(WriteMetaIndex(WriteFilters(t, FinishFilters(t.filter))))
Finish(t) == AfterData(Flush(t))

\* BuildTable(): the entries are <<key, value>>, in order.
BuildTable(entries) ==
    Finish(FoldLeft(LAMBDA t, e : TableAdd(t, e[1], e[2]), NewBuilder, entries))

---------------------------------------------------------------------------
\* ReadMeta() and ReadFilter(): without a filter that can be read, there is none.
FilterRead(block) == IF block.ok THEN <<block.contents>> ELSE <<>>
FilterAt(blocks, it) ==
    IF BlockValid(it) /\ it.key = FilterName
    THEN FilterRead(ReadEncoded(blocks, DecodeHandle(BlockValue(it)))) ELSE <<>>
ReadMeta(blocks, meta) ==
    IF meta.ok THEN FilterAt(blocks, BlockSeek(BlockIter(meta.contents), FilterName)) ELSE <<>>

\* Open(): filter is empty or the one filter block.
WithIndex(blocks, index, filter) ==
    [ok |-> index.ok, blocks |-> blocks, index |-> index.contents, filter |-> filter]
WithFooter(blocks, footer) ==
    IF ~footer.ok THEN [ok |-> FALSE]
    ELSE WithIndex(blocks, ReadBlock(blocks, footer.value[2]),
                   ReadMeta(blocks, ReadBlock(blocks, footer.value[1])))
OpenTable(file) == WithFooter(file.blocks, DecodeFooter(file.footer))

\* What BlockReader() opens for an index entry, and an error if it cannot
IterOver(block) == IF block.ok THEN BlockIter(block.contents)
                   ELSE CorruptionError(BlockIter(block.contents))
BlockReader(blocks, handle) == IterOver(ReadEncoded(blocks, DecodeHandle(handle)))

\* What InternalGet() hands to its saver: an entry, or nothing
MayMatch(table, handle, key) ==
    table.filter # <<>> => KeyMayMatch(table.filter[1], handle.value[1], key)
Found(it) == IF BlockValid(it) THEN <<it.key, BlockValue(it)>> ELSE <<>>
GetAt(table, key, it) ==
    IF BlockValid(it) /\ MayMatch(table, DecodeHandle(BlockValue(it)), key)
    THEN Found(BlockSeek(BlockReader(table.blocks, BlockValue(it)), key)) ELSE <<>>
InternalGet(table, key) == GetAt(table, key, BlockSeek(BlockIter(table.index), key))
=============================================================================
