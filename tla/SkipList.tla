------------------------------ MODULE SkipList ------------------------------
(* The skip list of db/skiplist.h.  One writer inserts, node by node and   *)
(* level by level; readers walk the list meanwhile and take no lock.  Each *)
(* load or store of a pointer that both sides use is a step.               *)
(*                                                                         *)
(* A pointer is stored with release and loaded with acquire, so a reader   *)
(* that finds a node finds it filled in: the steps of the writer are seen  *)
(* in their order.  max_height_ is stored and loaded with no barrier: a    *)
(* reader may find any value it has held.                                  *)
EXTENDS Integers, FiniteSets

CONSTANTS Key,           \* what Insert() and Seek() may be given
          Before(_, _),  \* compare_(a, b) < 0
          MaxHeight,     \* kMaxHeight
          Readers,
          HeadNode,      \* head_
          Nil,           \* NULL
          Raw            \* what a node holds before its pointers are set

ASSUME OrderAssumption ==
    /\ \A a \in Key : ~Before(a, a)
    /\ \A a, b \in Key : a # b => Before(a, b) \/ Before(b, a)
    /\ \A a, b, c \in Key : Before(a, b) /\ Before(b, c) => Before(a, c)
ASSUME NodeAssumption ==
    /\ HeadNode \notin Key /\ Nil \notin Key /\ Raw \notin Key
    /\ HeadNode # Nil /\ HeadNode # Raw /\ Nil # Raw
ASSUME HeightAssumption == MaxHeight \in Nat \ {0}

VARIABLES next,     \* the next_ of every node, by level
          heights,  \* the values max_height_ has had; it only rises
          writer,   \* Insert(): where it is, and its variables
          cursor,   \* the Iterators: node_, and the search in progress
          known     \* history: what the list held when a search began
vars == <<next, heights, writer, cursor, known>>

Nodes  == Key \cup {HeadNode}
Levels == 0 .. MaxHeight - 1
MaxHeightNow == CHOOSE h \in heights : \A g \in heights : g <= h

\* RandomHeight() may return any of them.
Heights == 1 .. MaxHeight

\* The keys that some node points at, on a level
Linked(l) == {next[n][l] : n \in Nodes} \cap Key

NoSearch == [op |-> "idle", bound |-> Nil, x |-> HeadNode, level |-> 0]
Idle     == [pc |-> "idle", key |-> Nil, x |-> HeadNode, level |-> 0,
             prev |-> [l \in Levels |-> Nil], height |-> 0]

Init == /\ next = [n \in Nodes |-> [l \in Levels |-> IF n = HeadNode THEN Nil ELSE Raw]]
        /\ heights = {1}
        /\ writer = Idle
        /\ cursor = [r \in Readers |-> [at |-> Nil, find |-> NoSearch]]
        /\ known = [r \in Readers |-> {}]

KeyIsAfterNode(k, n) == n # Nil /\ Before(n, k)

\* The loops of FindGreaterOrEqual(), FindLessThan() and FindLast(): whether s
\* goes on to the node it loads, or down a level.
Loaded(s) == next[s.x][s.level]
Passes(s) == IF s.op = "last" THEN Loaded(s) # Nil ELSE KeyIsAfterNode(s.bound, Loaded(s))

---------------------------------------------------------------------------
(* The writer *)

Insert(k) ==
    /\ writer.pc = "idle" /\ k \notin Linked(0)
    /\ writer' = [Idle EXCEPT !.pc = "find", !.key = k, !.level = MaxHeightNow - 1]
    /\ UNCHANGED <<next, heights, cursor, known>>

\* One turn of the loop of FindGreaterOrEqual(key, prev)
FindPrev ==
    /\ writer.pc = "find"
    /\ LET n == next[writer.x][writer.level]
       IN  writer' = IF KeyIsAfterNode(writer.key, n) THEN [writer EXCEPT !.x = n]
                     ELSE [writer EXCEPT !.prev[writer.level] = writer.x,
                                         !.level = IF @ = 0 THEN 0 ELSE @ - 1,
                                         !.pc = IF writer.level = 0 THEN "height" ELSE @]
    /\ UNCHANGED <<next, heights, cursor, known>>

ChooseHeight(h) ==
    /\ writer.pc = "height"
    /\ writer' = [writer EXCEPT !.pc = "link", !.height = h, !.x = HeadNode,
                                !.prev = [l \in Levels |-> IF l \in MaxHeightNow .. h - 1
                                                           THEN HeadNode ELSE @[l]]]
    /\ heights' = heights \cup {g \in {h} : g > MaxHeightNow}
    /\ UNCHANGED <<next, cursor, known>>

\* Node::SetNext(), with or without a barrier
SetNext(n, l, m) == next' = [next EXCEPT ![n][l] = m]

\* Mutant of LinkNode: the new node is made the last of its level.
LinkNothing ==
    /\ writer.pc = "link"
    /\ SetNext(writer.key, writer.level, Nil)
    /\ writer' = [writer EXCEPT !.pc = "publish"]
    /\ UNCHANGED <<heights, cursor, known>>

\* x->NoBarrier_SetNext(i, prev[i]->NoBarrier_Next(i))
LinkNode ==
    /\ writer.pc = "link"
    /\ SetNext(writer.key, writer.level, next[writer.prev[writer.level]][writer.level])
    /\ writer' = [writer EXCEPT !.pc = "publish"]
    /\ UNCHANGED <<heights, cursor, known>>

\* prev[i]->SetNext(i, x)
PublishNode ==
    /\ writer.pc = "publish"
    /\ SetNext(writer.prev[writer.level], writer.level, writer.key)
    /\ writer' = IF writer.level + 1 < writer.height
                 THEN [writer EXCEPT !.pc = "link", !.level = @ + 1] ELSE Idle
    /\ UNCHANGED <<heights, cursor, known>>

---------------------------------------------------------------------------
(* The readers *)

\* Mutant of BeginSearch: from max_height_, not the level below it.
BeginSearchAbove(r, op, k) ==
    /\ cursor[r].find.op = "idle"
    /\ \E h \in heights :
          cursor' = [cursor EXCEPT ![r].find = [op |-> op, bound |-> k, x |-> HeadNode, level |-> h]]
    /\ known' = [known EXCEPT ![r] = Linked(0)]
    /\ UNCHANGED <<next, heights, writer>>

BeginSearch(r, op, k) ==
    /\ cursor[r].find.op = "idle"
    /\ \E h \in heights :
          cursor' = [cursor EXCEPT ![r].find = [op |-> op, bound |-> k, x |-> HeadNode,
                                                level |-> h - 1]]
    /\ known' = [known EXCEPT ![r] = Linked(0)]
    /\ UNCHANGED <<next, heights, writer>>

Seek(r, k)    == BeginSearch(r, "seek", k)
Prev(r)       == cursor[r].at # Nil /\ BeginSearch(r, "prev", cursor[r].at)
SeekToLast(r) == BeginSearch(r, "last", Nil)

GoOn(s) == IF Passes(s) THEN [s EXCEPT !.x = Loaded(s)] ELSE [s EXCEPT !.level = @ - 1]

\* A turn of the loop that does not end the search
SearchOn(r) ==
    LET s == cursor[r].find
    IN  /\ s.op # "idle" /\ (Passes(s) \/ s.level > 0)
        /\ cursor' = [cursor EXCEPT ![r].find = GoOn(s)]
        /\ UNCHANGED <<next, heights, writer, known>>

SearchEnds(r) ==
    LET s == cursor[r].find
    IN  /\ s.op # "idle" /\ ~Passes(s) /\ s.level = 0
        /\ cursor' = [cursor EXCEPT ![r] =
                         [at |-> IF s.op = "seek" THEN Loaded(s)
                                 ELSE IF s.x = HeadNode THEN Nil ELSE s.x,
                          find |-> NoSearch]]
        /\ known' = [known EXCEPT ![r] = {}]
        /\ UNCHANGED <<next, heights, writer>>

StepTo(r, n) == /\ cursor[r].find.op = "idle"
                /\ cursor' = [cursor EXCEPT ![r].at = n]
                /\ UNCHANGED <<next, heights, writer, known>>
SeekToFirst(r) == StepTo(r, next[HeadNode][0])
NewIterator(r) == StepTo(r, Nil)
NextNode(r)    == cursor[r].at # Nil /\ StepTo(r, next[cursor[r].at][0])

Move(r) == NewIterator(r) \/ Prev(r) \/ SeekToLast(r) \/ SeekToFirst(r) \/ NextNode(r)
Turn(r) == SearchOn(r) \/ SearchEnds(r)
Write   == FindPrev \/ LinkNode \/ PublishNode

Next == \/ \E k \in Key : Insert(k)
        \/ \E h \in Heights : ChooseHeight(h)
        \/ Write
        \/ \E r \in Readers : (\E k \in Key : Seek(r, k)) \/ Move(r) \/ Turn(r)
Spec == Init /\ [][Next]_vars

---------------------------------------------------------------------------
(* Properties *)

\* Every pointer a reader or the writer stands at is a node that has been
\* filled in: nobody walks into memory the writer has not set yet.
PointersAreFilledIn ==
    /\ next \in [Nodes -> [Levels -> Key \cup {Nil, Raw}]]
    /\ heights \subseteq Heights /\ 1 \in heights
    /\ writer.pc \in {"idle", "find", "height", "link", "publish"}
    /\ writer.x \in Nodes /\ writer.key \in Key \cup {Nil}
    /\ \A r \in Readers : /\ cursor[r].at \in Linked(0) \cup {Nil}
                          /\ cursor[r].find.x \in Linked(0) \cup {HeadNode}
                          /\ cursor[r].find.level \in Levels

\* On every level the nodes follow one another in order, and every node of a
\* level is a node of the level below: what a search that starts higher may
\* skip is what it would have passed.
LevelsAreSorted ==
    \A l \in Levels :
       /\ l > 0 => Linked(l) \subseteq Linked(l - 1)
       /\ \A n \in Linked(l) : next[n][l] \in Key => Before(n, next[n][l])
       /\ \A k \in Linked(l) : Cardinality({n \in Linked(l) \cup {HeadNode} : next[n][l] = k}) = 1

\* The list is a growing ordered set, and no move of an iterator misses what
\* was there when it began (skiplist_test.cc, ConcurrentTest).
Promise == INSTANCE OrderedSet WITH
              contents <- Linked(0),
              at    <- [r \in Readers |-> cursor[r].at],
              move  <- [r \in Readers |-> [op |-> cursor[r].find.op, bound |-> cursor[r].find.bound]]
IsAnOrderedSet == Promise!Spec
=============================================================================
