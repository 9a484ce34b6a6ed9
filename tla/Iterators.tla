----------------------------- MODULE Iterators ------------------------------
(* The iterators a read stacks up: over a memtable and over the files of a *)
(* level (both a position in something sorted), over a block (Blocks),     *)
(* two-level ones (a table; a level) and the one that merges them.  An     *)
(* iterator is a value; each method maps it to the one after the call.     *)
EXTENDS Tables

\* MemTableIterator and LevelFileNumIterator: at is 0 when they are not valid.
\* An item is a key and a value.
ItemIter(items) == [kind |-> "items", items |-> items, at |-> 0]
NoIter == [kind |-> "none"]

\* NewTwoLevelIterator(): block_function opens what the index has for a key.
TwoLevelIter(index, opens, parts) ==
    [kind |-> "two", index |-> index, opens |-> opens, parts |-> parts,
     data |-> NoIter, handle |-> <<>>]
TableIter(table) == TwoLevelIter(BlockIter(table.index), "block", table.blocks)

\* NewConcatenatingIterator(): the files of a level, by their largest keys
LevelIter(files) ==
    TwoLevelIter(ItemIter([i \in DOMAIN files |-> <<files[i].largest, i>>]), "table",
                 [i \in DOMAIN files |-> files[i].table])
Opened(it, handle) == IF it.opens = "block" THEN BlockReader(it.parts, handle)
                      ELSE TableIter(it.parts[handle])

\* NewMergingIterator(): a single child is not wrapped.
MergingIter(children) ==
    IF Len(children) = 1 THEN children[1]
    ELSE [kind |-> "merge", children |-> children, current |-> 0, direction |-> "forward"]

RECURSIVE Valid(_), KeyOf(_), ValueOf(_), Healthy(_)
Valid(it) == CASE it.kind = "none"  -> FALSE
               [] it.kind = "items" -> it.at # 0
               [] it.kind = "block" -> BlockValid(it)
               [] it.kind = "two"   -> Valid(it.data)
               [] OTHER             -> it.current # 0
KeyOf(it) == CASE it.kind = "items" -> it.items[it.at][1]
               [] it.kind = "block" -> it.key
               [] it.kind = "two"   -> KeyOf(it.data)
               [] OTHER             -> KeyOf(it.children[it.current])
ValueOf(it) == CASE it.kind = "items" -> it.items[it.at][2]
                 [] it.kind = "block" -> BlockValue(it)
                 [] it.kind = "two"   -> ValueOf(it.data)
                 [] OTHER             -> ValueOf(it.children[it.current])

\* status(): no iterator under this one has found a block it cannot read.
Healthy(it) == CASE it.kind = "block" -> it.ok
                 [] it.kind = "two"   -> Healthy(it.index) /\ Healthy(it.data)
                 [] it.kind = "merge" -> \A i \in DOMAIN it.children : Healthy(it.children[i])
                 [] OTHER             -> TRUE

---------------------------------------------------------------------------
\* InitDataBlock(): what is open already for this handle stays open.
InitDataBlock(it) ==
    IF ~Valid(it.index) THEN [it EXCEPT !.data = NoIter]
    ELSE IF it.data # NoIter /\ it.handle = ValueOf(it.index) THEN it
    ELSE [it EXCEPT !.data = Opened(it, ValueOf(it.index)), !.handle = ValueOf(it.index)]

\* FindSmallest() takes the first of equal children, FindLargest() the last.
FindSmallest(m) ==
    LET valid == {i \in DOMAIN m.children : Valid(m.children[i])}
        least == {i \in valid : \A j \in valid : ~KeyLess(KeyOf(m.children[j]), KeyOf(m.children[i]))}
    IN  [m EXCEPT !.current = IF valid = {} THEN 0 ELSE Min(least)]
FindLargest(m) ==
    LET valid == {i \in DOMAIN m.children : Valid(m.children[i])}
        most  == {i \in valid : \A j \in valid : ~KeyLess(KeyOf(m.children[i]), KeyOf(m.children[j]))}
    IN  [m EXCEPT !.current = IF valid = {} THEN 0 ELSE Max(most)]

Towards(m, d) == [m EXCEPT !.direction = d]

RECURSIVE SeekTo(_, _), ToFirst(_), ToLast(_), Forth(_), Back(_), SkipForward(_), SkipBackward(_)

SkipForward(it) ==
    IF Valid(it.data) THEN it
    ELSE IF ~Valid(it.index) THEN [it EXCEPT !.data = NoIter]
    ELSE LET n == InitDataBlock([it EXCEPT !.index = Forth(@)])
         IN  SkipForward([n EXCEPT !.data = ToFirst(@)])
SkipBackward(it) ==
    IF Valid(it.data) THEN it
    ELSE IF ~Valid(it.index) THEN [it EXCEPT !.data = NoIter]
    ELSE LET n == InitDataBlock([it EXCEPT !.index = Back(@)])
         IN  SkipBackward([n EXCEPT !.data = ToLast(@)])

SeekTo(it, k) ==
    CASE it.kind = "none"  -> it
      [] it.kind = "items" ->
            [it EXCEPT !.at = SelectInSeq(it.items, LAMBDA e : ~KeyLess(e[1], k))]
      [] it.kind = "block" -> BlockSeek(it, k)
      [] it.kind = "two"   ->
            LET n == InitDataBlock([it EXCEPT !.index = SeekTo(@, k)])
            IN  SkipForward([n EXCEPT !.data = SeekTo(@, k)])
      [] OTHER             ->
            Towards(FindSmallest([it EXCEPT !.children =
                                     [i \in DOMAIN @ |-> SeekTo(@[i], k)]]), "forward")

ToFirst(it) ==
    CASE it.kind = "none"  -> it
      [] it.kind = "items" -> [it EXCEPT !.at = Min({1, Len(it.items)})]
      [] it.kind = "block" -> BlockFirst(it)
      [] it.kind = "two"   ->
            LET n == InitDataBlock([it EXCEPT !.index = ToFirst(@)])
            IN  SkipForward([n EXCEPT !.data = ToFirst(@)])
      [] OTHER             ->
            Towards(FindSmallest([it EXCEPT !.children = [i \in DOMAIN @ |-> ToFirst(@[i])]]), "forward")

ToLast(it) ==
    CASE it.kind = "none"  -> it
      [] it.kind = "items" -> [it EXCEPT !.at = Len(it.items)]
      [] it.kind = "block" -> BlockLast(it)
      [] it.kind = "two"   ->
            LET n == InitDataBlock([it EXCEPT !.index = ToLast(@)])
            IN  SkipBackward([n EXCEPT !.data = ToLast(@)])
      [] OTHER             ->
            Towards(FindLargest([it EXCEPT !.children = [i \in DOMAIN @ |-> ToLast(@[i])]]), "reverse")

\* Before a merging iterator moves the other way, its other children go to the
\* far side of its key.
After(child, k)  == LET s == SeekTo(child, k)
                    IN  IF Valid(s) /\ KeyOf(s) = k THEN Forth(s) ELSE s
Before(child, k) == LET s == SeekTo(child, k)
                    IN  IF Valid(s) THEN Back(s) ELSE ToLast(s)

AllAfter(m) ==
    IF m.direction = "forward" THEN m
    ELSE [m EXCEPT !.children = [i \in DOMAIN @ |-> IF i = m.current THEN @[i]
                                                    ELSE After(@[i], KeyOf(m))]]
AllBefore(m) ==
    IF m.direction = "reverse" THEN m
    ELSE [m EXCEPT !.children = [i \in DOMAIN @ |-> IF i = m.current THEN @[i]
                                                    ELSE Before(@[i], KeyOf(m))]]

Forth(it) ==
    CASE it.kind = "items" -> [it EXCEPT !.at = IF @ = Len(it.items) THEN 0 ELSE @ + 1]
      [] it.kind = "block" -> BlockNext(it)
      [] it.kind = "two"   -> SkipForward([it EXCEPT !.data = Forth(@)])
      [] OTHER             ->
            LET m == AllAfter(it)
            IN  Towards(FindSmallest([m EXCEPT !.children[it.current] = Forth(@)]), "forward")
Back(it) ==
    CASE it.kind = "items" -> [it EXCEPT !.at = @ - 1]
      [] it.kind = "block" -> BlockPrev(it)
      [] it.kind = "two"   -> SkipBackward([it EXCEPT !.data = Back(@)])
      [] OTHER             ->
            LET m == AllBefore(it)
            IN  Towards(FindLargest([m EXCEPT !.children[it.current] = Back(@)]), "reverse")
=============================================================================
