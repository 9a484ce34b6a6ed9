------------------------------- MODULE Blocks -------------------------------
(* A block of a table: table/block_builder.cc writes it, Block::Iter of    *)
(* table/block.cc reads it.  An entry holds how many bytes its key shares  *)
(* with the key before it, the rest of the key, and the value; at a        *)
(* restart point it shares none.  Offsets are the numbers of the entries.  *)
EXTENDS InternalKeys

NewBlock == [entries |-> <<>>, restarts |-> <<1>>, counter |-> 0, last |-> <<>>]

BlockAdd(b, key, value, interval) ==
    LET restart == b.counter >= interval
        shared  == IF restart THEN 0 ELSE Shared(b.last, key)
    IN  [entries  |-> Append(b.entries, [shared |-> shared, value |-> value,
                                         delta |-> SubSeq(key, shared + 1, Len(key))]),
         restarts |-> IF restart THEN Append(b.restarts, Len(b.entries) + 1) ELSE b.restarts,
         counter  |-> IF restart THEN 1 ELSE b.counter + 1,
         last     |-> key]

\* CurrentSizeEstimate(), in bytes of keys and one for each header
BlockBytes(b) == FoldLeft(LAMBDA n, e : n + 1 + Len(e.delta), 0, b.entries)

BlockContents(b) == [entries |-> b.entries, restarts |-> b.restarts]

---------------------------------------------------------------------------
(* Block::Iter: next is NextEntryOffset(), the end of the current entry.   *)

End(block) == Len(block.entries) + 1

BlockIter(block) ==
    [kind |-> "block", block |-> block, current |-> End(block), next |-> 1,
     restart |-> Len(block.restarts) + 1, key |-> <<>>, ok |-> TRUE]

BlockValid(it) == it.current < End(it.block)
BlockValue(it) == it.block.entries[it.current].value

SeekToRestartPoint(it, r) ==
    [it EXCEPT !.key = <<>>, !.restart = r, !.next = it.block.restarts[r]]

PastEnd(it) == [it EXCEPT !.current = End(it.block), !.restart = Len(it.block.restarts) + 1]
CorruptionError(it) == [PastEnd(it) EXCEPT !.ok = FALSE, !.key = <<>>]

ParseNextKey(it) ==
    LET e     == it.block.entries[it.next]
        begun == {r \in DOMAIN it.block.restarts : r > it.restart /\ it.block.restarts[r] < it.next}
    IN  IF it.next = End(it.block) THEN PastEnd(it)
        ELSE IF Len(it.key) < e.shared THEN CorruptionError(it)
        ELSE [it EXCEPT !.current = it.next, !.next = @ + 1,
                        !.key = SubSeq(@, 1, e.shared) \o e.delta,
                        !.restart = Max(begun \cup {@})]

\* Up to the entry that ends at offset, or the end
RECURSIVE ParseTo(_, _)
ParseTo(it, offset) ==
    IF BlockValid(it) /\ it.next < offset THEN ParseTo(ParseNextKey(it), offset) ELSE it

RECURSIVE ParseUpTo(_, _)
ParseUpTo(it, target) ==
    IF BlockValid(it) /\ KeyLess(it.key, target) THEN ParseUpTo(ParseNextKey(it), target) ELSE it

\* The last restart point with a key before target, the first if there is none;
\* 0 if one of them has no whole key.
RECURSIVE Bisect(_, _, _, _)
Bisect(block, target, left, right) ==
    LET mid == (left + right + 1) \div 2
    IN  IF left >= right THEN left
        ELSE IF block.entries[block.restarts[mid]].shared > 0 THEN 0
        ELSE IF KeyLess(block.entries[block.restarts[mid]].delta, target)
             THEN Bisect(block, target, mid, right)
             ELSE Bisect(block, target, left, mid - 1)

BlockNext(it) == ParseNextKey(it)

BlockPrev(it) ==
    LET before == {r \in DOMAIN it.block.restarts :
                      r <= it.restart /\ it.block.restarts[r] < it.current}
    IN  IF before = {} THEN PastEnd(it)
        ELSE ParseTo(ParseNextKey(SeekToRestartPoint(it, Max(before))), it.current)

BlockSeek(it, target) ==
    LET r == Bisect(it.block, target, 1, Len(it.block.restarts))
    IN  IF r = 0 THEN CorruptionError(it)
        ELSE ParseUpTo(ParseNextKey(SeekToRestartPoint(it, r)), target)

BlockFirst(it) == ParseNextKey(SeekToRestartPoint(it, 1))
BlockLast(it) ==
    ParseTo(ParseNextKey(SeekToRestartPoint(it, Len(it.block.restarts))), End(it.block))
=============================================================================
