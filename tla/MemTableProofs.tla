--------------------------- MODULE MemTableProofs ---------------------------
(* Proofs about SkipList and MemTable.                                     *)
(*                                                                         *)
(* ListInv says what makes the list right whatever the writer and readers  *)
(* are in the middle of: on each level the nodes that can be reached       *)
(* follow one another, and between a node and its successor there is no    *)
(* other (Gapless).  WriterInv says where Insert() is, ReaderInv where the *)
(* iterators are.                                                          *)
EXTENDS MemTable, TLAPS, NaturalsInduction, FiniteSetTheorems

On(l) == Linked(l) \cup {HeadNode}
Follows(n, k) == n = HeadNode \/ Before(n, k)

---------------------------------------------------------------------------
(* The inductive invariant of the list *)

NextType == next \in [Nodes -> [Levels -> Key \cup {Nil, Raw}]]
HeightsType == heights \subseteq Heights /\ 1 \in heights

Nested == \A i, j \in Levels : i <= j => Linked(j) \subseteq Linked(i)

\* What lies between a node and the one it points at
Gapless == \A l \in Levels : \A n \in On(l) :
              /\ next[n][l] # Raw
              /\ next[n][l] \in Key => Follows(n, next[n][l])
              /\ \A m \in Linked(l) :
                    Follows(n, m) => next[n][l] \in Key /\ ~Before(m, next[n][l])

\* Only the node that is about to be linked points anywhere without being in
\* its level.
RawUntilLinked ==
    \A l \in Levels : \A n \in Key \ Linked(l) :
       next[n][l] = Raw \/ (writer.pc = "publish" /\ n = writer.key /\ l = writer.level)

EmptyAbove == \A l \in Levels : l >= MaxHeightNow => Linked(l) = {}

ListInv == NextType /\ HeightsType /\ Nested /\ Gapless /\ RawUntilLinked /\ EmptyAbove

\* Insert(): prev[j] is where its key belongs in level j.
Place(p, k, j) == p \in On(j) /\ Follows(p, k) /\ ~KeyIsAfterNode(k, next[p][j])

WriterType == writer \in [pc : {"idle", "find", "height", "link", "publish"},
                          key : Key \cup {Nil}, x : Nodes, level : Levels,
                          prev : [Levels -> Nodes \cup {Nil}], height : 0 .. MaxHeight]

WriterFinds ==
    writer.pc = "find" =>
       /\ writer.key \in Key \ Linked(0)
       /\ writer.x \in On(writer.level) /\ Follows(writer.x, writer.key)
       /\ \A j \in Levels : j > writer.level /\ j < MaxHeightNow
                            => Place(writer.prev[j], writer.key, j)
WriterHasFound ==
    writer.pc = "height" =>
       /\ writer.key \in Key \ Linked(0) /\ writer.level = 0
       /\ \A j \in Levels : j < MaxHeightNow => Place(writer.prev[j], writer.key, j)
WriterLinks ==
    writer.pc \in {"link", "publish"} =>
       /\ writer.key \in Key /\ writer.level < writer.height /\ writer.height <= MaxHeightNow
       /\ \A j \in Levels : IF j < writer.level THEN writer.key \in Linked(j)
                                                ELSE writer.key \notin Linked(j)
       /\ \A j \in Levels : j >= writer.level /\ j < writer.height
                            => Place(writer.prev[j], writer.key, j)
WriterPublishes ==
    writer.pc = "publish" =>
       next[writer.key][writer.level] = next[writer.prev[writer.level]][writer.level]

WriterInv == WriterType /\ WriterFinds /\ WriterHasFound /\ WriterLinks /\ WriterPublishes

\* An iterator c whose search began when the list held was
Search == [op : {"idle", "seek", "prev", "last"}, bound : Key \cup {Nil}, x : Nodes, level : Levels]
Cursor == [at : Key \cup {Nil}, find : Search]
Standing(c, was) ==
    /\ c \in Cursor
    /\ c.at \in Linked(0) \cup {Nil}
    /\ c.find.x \in On(c.find.level)
    /\ c.find.op = "idle" => c.find = NoSearch
    /\ c.find.op \in {"seek", "prev"} => c.find.bound \in Key /\ Follows(c.find.x, c.find.bound)
    /\ was \subseteq Linked(0)
ReaderInv == /\ cursor \in [Readers -> Cursor]
             /\ known \in [Readers -> SUBSET Key]
             /\ \A r \in Readers : Standing(cursor[r], known[r])

SkipInv == ListInv /\ WriterInv /\ ReaderInv

---------------------------------------------------------------------------
(* The order, the levels *)

LEMMA OrderIsStrict ==
  /\ \A a \in Key : ~Before(a, a)
  /\ \A a, b \in Key : Before(a, b) => ~Before(b, a)
  /\ \A a, b \in Key : a = b \/ Before(a, b) \/ Before(b, a)
  /\ \A a, b, c \in Key : Before(a, b) /\ Before(b, c) => Before(a, c)
  /\ \A a, b, c \in Key : Before(a, b) /\ ~Before(c, b) => Before(a, c)
BY OrderAssumption

LEMMA HeadIsNoKey ==
  /\ HeadNode \notin Key /\ Nil \notin Key /\ Raw \notin Key
  /\ HeadNode # Nil /\ HeadNode # Raw /\ Nil # Raw
  /\ HeadNode \in Nodes /\ Key \subseteq Nodes /\ Nil \notin Nodes
BY NodeAssumption DEF Nodes

LEMMA LevelsAreNat ==
  /\ MaxHeight \in Nat /\ MaxHeight >= 1 /\ 0 \in Levels
  /\ \A l \in Levels : l \in Nat /\ l < MaxHeight
  /\ \A l \in Nat : l < MaxHeight => l \in Levels
  /\ \A h \in Heights : h \in Nat /\ h >= 1 /\ h <= MaxHeight /\ h - 1 \in Levels
BY HeightAssumption DEF Levels, Heights

LEMMA HighestOf ==
  ASSUME NEW H \in SUBSET Heights, 1 \in H
  PROVE  LET m == CHOOSE h \in H : \A g \in H : g <= h
         IN  m \in H /\ m \in Heights /\ \A g \in H : g <= m
<1> DEFINE Gap == {n \in Nat : \E g \in H : n = MaxHeight - g}
<1>1. Gap \in SUBSET Nat /\ Gap # {}
  <2>1. MaxHeight - 1 \in Nat /\ 1 \in H
    BY LevelsAreNat
  <2> QED BY <2>1
<1>2. PICK n \in Gap : \A m \in Gap : ~(<<m, n>> \in OpToRel(<, Nat))
  BY <1>1, NatLessThanWellFounded, WFMin
<1>3. PICK g \in H : n = MaxHeight - g
  OBVIOUS
<1>4. \A f \in H : f <= g
  <2>1. TAKE f \in H
  <2>2. f \in Nat /\ f <= MaxHeight /\ g \in Nat /\ g <= MaxHeight /\ MaxHeight \in Nat
    BY LevelsAreNat
  <2>3. MaxHeight - f \in Nat
    BY <2>2
  <2>4. MaxHeight - f \in Gap
    BY <2>3
  <2>5. ~(MaxHeight - f < n)
    BY <1>2, <2>4, <2>3 DEF OpToRel
  <2> QED BY <2>5, <2>2, <1>3
<1> QED BY <1>4

LEMMA MaxHeightIsThere ==
  ASSUME HeightsType
  PROVE  /\ MaxHeightNow \in heights /\ MaxHeightNow \in Heights
         /\ \A g \in heights : g <= MaxHeightNow
BY HighestOf DEF HeightsType, MaxHeightNow

\* A step that leaves the list alone
LEMMA ListStays ==
  ASSUME UNCHANGED next
  PROVE  \A l : Linked(l)' = Linked(l) /\ On(l)' = On(l)
BY DEF Linked, On

LEMMA LinkedIn == \A l : Linked(l) \subseteq Key /\ On(l) \subseteq Nodes
BY DEF Linked, On, Nodes

---------------------------------------------------------------------------
(* Readers *)

\* What a step of a reader r comes to: it stands at c now, and was is what its
\* search may count on.
ReaderMoves(r, c, was) ==
    /\ cursor' = [cursor EXCEPT ![r] = c] /\ known' = [known EXCEPT ![r] = was]
    /\ UNCHANGED <<next, heights, writer>>

LEMMA ReaderKeeps ==
  ASSUME ListInv, ReaderInv, NEW r \in Readers, NEW c, NEW was,
         ReaderMoves(r, c, was), Standing(c, was)
  PROVE  ReaderInv'
<1>1. Linked(0)' = Linked(0) /\ (\A l : On(l)' = On(l)) /\ Linked(0) \subseteq Key
  BY ListStays, LinkedIn DEF ReaderMoves
<1>2. cursor' \in [Readers -> Cursor] /\ known' \in [Readers -> SUBSET Key]
  BY <1>1 DEF ReaderMoves, Standing, ReaderInv
<1>3. ASSUME NEW q \in Readers PROVE Standing(cursor[q], known[q])'
  <2>1. PICK d, w : d = cursor'[q] /\ w = known'[q]
    OBVIOUS
  <2>2. Standing(d, w)
    BY <2>1 DEF ReaderMoves, ReaderInv
  <2>3. Standing(d, w)'
    BY <2>2, <1>1 DEF Standing
  <2> QED BY <2>1, <2>3 DEF Standing
<1> QED BY <1>2, <1>3 DEF ReaderInv

\* The list does not change, or it grows.
LEMMA ReadersStand ==
  ASSUME ReaderInv, UNCHANGED <<cursor, known>>,
         \A l \in Levels : Linked(l) \subseteq Linked(l)'
  PROVE  ReaderInv'
<1> SUFFICES ASSUME NEW r \in Readers PROVE Standing(cursor[r], known[r])'
  BY DEF ReaderInv
<1>1. PICK d, w : d = cursor[r] /\ w = known[r]
  OBVIOUS
<1>2. Standing(d, w) /\ d.find.level \in Levels
  BY <1>1 DEF ReaderInv, Standing, Cursor, Search
<1>3. Linked(0) \subseteq Linked(0)' /\ On(d.find.level) \subseteq On(d.find.level)'
  BY <1>2, LevelsAreNat DEF On
<1>4. Standing(d, w)'
  BY <1>2, <1>3 DEF Standing
<1> QED BY <1>1, <1>4 DEF Standing

LEMMA SetFind ==
  ASSUME ReaderInv, NEW r \in Readers, NEW s
  PROVE  [cursor EXCEPT ![r].find = s] = [cursor EXCEPT ![r] = [at |-> cursor[r].at, find |-> s]]
<1>1. cursor[r] \in Cursor
  BY DEF ReaderInv
<1>2. [cursor[r] EXCEPT !.find = s] = [at |-> cursor[r].at, find |-> s]
  BY <1>1 DEF Cursor
<1> QED BY <1>2

LEMMA BeginMoves ==
  ASSUME ListInv, ReaderInv, NEW r \in Readers, NEW op \in {"seek", "prev", "last"},
         NEW k \in Key \cup {Nil}, op # "last" => k \in Key, BeginSearch(r, op, k)
  PROVE  \E c : /\ ReaderMoves(r, c, Linked(0)) /\ Standing(c, Linked(0))
                /\ c.at = cursor[r].at /\ c.find.op = op /\ c.find.bound = k
<1>1. PICK h \in heights :
        cursor' = [cursor EXCEPT ![r].find = [op |-> op, bound |-> k, x |-> HeadNode, level |-> h - 1]]
  BY DEF BeginSearch
<1> DEFINE s == [op |-> op, bound |-> k, x |-> HeadNode, level |-> h - 1]
           c == [at |-> cursor[r].at, find |-> s]
<1>2. s \in Search
  BY LevelsAreNat, HeadIsNoKey DEF Search, ListInv, HeightsType
<1>3. cursor[r] \in Cursor /\ Standing(cursor[r], known[r])
  BY DEF ReaderInv
<1>4. cursor' = [cursor EXCEPT ![r] = c]
  BY <1>1, SetFind
<1>5. Standing(c, Linked(0))
  BY <1>2, <1>3 DEF Standing, Cursor, Follows, On
<1>6. known' = [known EXCEPT ![r] = Linked(0)] /\ UNCHANGED <<next, heights, writer>>
  BY DEF BeginSearch
<1>7. ReaderMoves(r, c, Linked(0))
  BY <1>4, <1>6 DEF ReaderMoves
<1>8. c.at = cursor[r].at /\ c.find.op = op /\ c.find.bound = k
  OBVIOUS
<1> HIDE DEF c
<1> QED BY <1>5, <1>7, <1>8

\* What the loop of a search knows of the node it loads.
LEMMA LoadedIsNext ==
  ASSUME ListInv, ReaderInv, NEW r \in Readers, cursor[r].find.op # "idle"
  PROVE  LET s == cursor[r].find
         IN  /\ s \in Search /\ s.x \in On(s.level)
             /\ Loaded(s) \in Linked(s.level) \cup {Nil}
             /\ s.op \in {"seek", "prev"} => s.bound \in Key /\ Follows(s.x, s.bound)
<1>1. PICK s : s = cursor[r].find
  OBVIOUS
<1>2. /\ s \in Search /\ s.x \in On(s.level)
      /\ s.op \in {"seek", "prev"} => s.bound \in Key /\ Follows(s.x, s.bound)
  BY <1>1 DEF ReaderInv, Standing, Cursor
<1>3. s.level \in Levels /\ s.x \in Nodes
  BY <1>2 DEF Search
<1>4. next[s.x][s.level] \in Key \cup {Nil}
  BY <1>2, <1>3 DEF ListInv, Gapless, NextType
<1>5. next[s.x][s.level] \in Linked(s.level) \cup {Nil}
  BY <1>3, <1>4 DEF Linked
<1> QED BY <1>1, <1>2, <1>5 DEF Loaded

LEMMA SearchOnMoves ==
  ASSUME ListInv, ReaderInv, NEW r \in Readers, SearchOn(r)
  PROVE  \E c : /\ ReaderMoves(r, c, known[r]) /\ Standing(c, known[r])
                /\ c.at = cursor[r].at /\ c.find.op = cursor[r].find.op
                /\ c.find.bound = cursor[r].find.bound
<1>1. PICK s : s = cursor[r].find
  OBVIOUS
<1> DEFINE f == GoOn(s)
           c == [at |-> cursor[r].at, find |-> f]
<1>2. /\ s.op # "idle" /\ (Passes(s) \/ s.level > 0)
      /\ cursor' = [cursor EXCEPT ![r].find = f]
      /\ UNCHANGED <<next, heights, writer, known>>
  BY <1>1 DEF SearchOn
<1>3. /\ s \in Search /\ s.x \in On(s.level) /\ Loaded(s) \in Linked(s.level) \cup {Nil}
      /\ s.op \in {"seek", "prev"} => s.bound \in Key /\ Follows(s.x, s.bound)
  BY <1>1, <1>2, LoadedIsNext
<1>4. cursor[r] \in Cursor /\ Standing(cursor[r], known[r])
  BY DEF ReaderInv
<1>5. /\ f \in Search /\ f.x \in On(f.level) /\ f.op = s.op /\ f.bound = s.bound
      /\ f.op \in {"seek", "prev"} => Follows(f.x, f.bound)
  <2>1. CASE Passes(s)
    <3>1. f = [op |-> s.op, bound |-> s.bound, x |-> Loaded(s), level |-> s.level]
      BY <2>1, <1>3 DEF Search, GoOn
    <3>2. Loaded(s) \in Linked(s.level) /\ Linked(s.level) \subseteq Key
      BY <2>1, <1>3, LinkedIn DEF Passes, KeyIsAfterNode
    <3>3. s.op \in {"seek", "prev"} => Before(Loaded(s), s.bound)
      BY <2>1 DEF Passes, KeyIsAfterNode
    <3> HIDE DEF f
    <3> QED BY <3>1, <3>2, <3>3, <1>3, HeadIsNoKey DEF Search, On, Follows
  <2>2. CASE ~Passes(s)
    <3>1. f = [op |-> s.op, bound |-> s.bound, x |-> s.x, level |-> s.level - 1]
      BY <2>2, <1>3 DEF Search, GoOn
    <3>2. s.level \in Levels /\ s.level - 1 \in Levels
      BY <2>2, <1>2, <1>3, LevelsAreNat DEF Search
    <3>3. Linked(s.level) \subseteq Linked(s.level - 1)
      BY <3>2, LevelsAreNat DEF ListInv, Nested
    <3> HIDE DEF f
    <3> QED BY <3>1, <3>2, <3>3, <1>3 DEF Search, On
  <2> QED BY <2>1, <2>2
<1> HIDE DEF f
<1>6. cursor' = [cursor EXCEPT ![r] = c]
  BY <1>2, SetFind
<1>7. c.at = cursor[r].at /\ c.find = f
  OBVIOUS
<1>8. c \in Cursor
  BY <1>4, <1>5 DEF Cursor
<1> HIDE DEF c
<1>9. Standing(c, known[r])
  BY <1>2, <1>3, <1>4, <1>5, <1>7, <1>8 DEF Standing
<1>10. ReaderMoves(r, c, known[r])
  BY <1>2, <1>6 DEF ReaderMoves, ReaderInv
<1> QED BY <1>1, <1>5, <1>7, <1>9, <1>10

LEMMA SearchEndsMoves ==
  ASSUME ListInv, ReaderInv, NEW r \in Readers, SearchEnds(r)
  PROVE  LET s == cursor[r].find
         IN  \E c : /\ ReaderMoves(r, c, {}) /\ Standing(c, {})
                    /\ s.op # "idle" /\ ~Passes(s) /\ s.level = 0
                    /\ c.at = IF s.op = "seek" THEN Loaded(s)
                              ELSE IF s.x = HeadNode THEN Nil ELSE s.x
                    /\ c.find = NoSearch
<1>1. PICK s : s = cursor[r].find
  OBVIOUS
<1> DEFINE n == IF s.op = "seek" THEN Loaded(s) ELSE IF s.x = HeadNode THEN Nil ELSE s.x
           c == [at |-> n, find |-> NoSearch]
<1>2. /\ s.op # "idle" /\ ~Passes(s) /\ s.level = 0
      /\ cursor' = [cursor EXCEPT ![r] = c]
      /\ known' = [known EXCEPT ![r] = {}]
      /\ UNCHANGED <<next, heights, writer>>
  BY <1>1 DEF SearchEnds
<1>3. s.x \in On(0) /\ Loaded(s) \in Linked(0) \cup {Nil}
  BY <1>1, <1>2, LoadedIsNext
<1>4. n \in Linked(0) \cup {Nil}
  BY <1>3 DEF On
<1> HIDE DEF n
<1>5. NoSearch \in Search /\ NoSearch.op = "idle" /\ NoSearch.x = HeadNode
  BY HeadIsNoKey, LevelsAreNat DEF NoSearch, Search
<1>6. Standing(c, {})
  BY <1>4, <1>5, LinkedIn DEF Standing, Cursor, On
<1>7. ReaderMoves(r, c, {})
  BY <1>2 DEF ReaderMoves
<1>8. c.at = n /\ c.find = NoSearch
  OBVIOUS
<1> HIDE DEF c
<1>9. n = IF s.op = "seek" THEN Loaded(s) ELSE IF s.x = HeadNode THEN Nil ELSE s.x
  BY DEF n
<1> QED BY <1>1, <1>2, <1>6, <1>7, <1>8, <1>9

LEMMA StepToMoves ==
  ASSUME ListInv, ReaderInv, NEW r \in Readers, NEW n \in Linked(0) \cup {Nil}, StepTo(r, n)
  PROVE  \E c : /\ ReaderMoves(r, c, known[r]) /\ Standing(c, known[r])
                /\ c.at = n /\ c.find = cursor[r].find
<1> DEFINE c == [at |-> n, find |-> cursor[r].find]
<1>1. cursor[r] \in Cursor /\ Standing(cursor[r], known[r])
  BY DEF ReaderInv
<1>2. [cursor[r] EXCEPT !.at = n] = c
  BY <1>1 DEF Cursor
<1>3. cursor' = [cursor EXCEPT ![r] = c]
  BY <1>2 DEF StepTo
<1>4. c \in Cursor /\ c.at = n /\ c.find = cursor[r].find
  BY <1>1, LinkedIn DEF Cursor
<1> HIDE DEF c
<1>5. Standing(c, known[r])
  BY <1>1, <1>4 DEF Standing
<1>6. ReaderMoves(r, c, known[r])
  BY <1>3 DEF ReaderMoves, StepTo, ReaderInv
<1> QED BY <1>4, <1>5, <1>6

LEMMA FirstAndNext ==
  ASSUME ListInv, ReaderInv
  PROVE  /\ next[HeadNode][0] \in Linked(0) \cup {Nil}
         /\ \A r \in Readers : cursor[r].at # Nil
                               => /\ cursor[r].at \in Linked(0)
                                  /\ next[cursor[r].at][0] \in Linked(0) \cup {Nil}
<1>1. \A n \in On(0) : n \in Nodes /\ next[n][0] \in Key \cup {Nil}
  BY LinkedIn, LevelsAreNat DEF ListInv, Gapless, NextType
<1>2. \A n \in On(0) : next[n][0] \in Linked(0) \cup {Nil}
  BY <1>1 DEF Linked
<1> QED BY <1>2 DEF On, ReaderInv, Standing

LEMMA ListAndWriterStay ==
  ASSUME UNCHANGED <<next, heights, writer>>
  PROVE  ListInv' = ListInv /\ WriterInv' = WriterInv
<1>1. UNCHANGED next /\ UNCHANGED heights /\ UNCHANGED writer
  OBVIOUS
<1>2. UNCHANGED MaxHeightNow
  BY <1>1 DEF MaxHeightNow
<1>3. /\ NextType' = NextType /\ HeightsType' = HeightsType /\ Nested' = Nested
      /\ Gapless' = Gapless /\ RawUntilLinked' = RawUntilLinked /\ EmptyAbove' = EmptyAbove
  BY <1>1, <1>2 DEF NextType, HeightsType, Nested, Gapless, RawUntilLinked, EmptyAbove, On, Linked
<1>4. /\ WriterType' = WriterType /\ WriterFinds' = WriterFinds
      /\ WriterHasFound' = WriterHasFound /\ WriterLinks' = WriterLinks
      /\ WriterPublishes' = WriterPublishes
  BY <1>1, <1>2 DEF WriterType, WriterFinds, WriterHasFound, WriterLinks, WriterPublishes, Place,
                    KeyIsAfterNode, On, Linked
<1> QED BY <1>3, <1>4 DEF ListInv, WriterInv

ReaderStep(r) == (\E k \in Key : Seek(r, k)) \/ Move(r) \/ Turn(r)

LEMMA ReaderStepKeeps ==
  ASSUME SkipInv, NEW r \in Readers, ReaderStep(r)
  PROVE  SkipInv'
<1> USE DEF SkipInv
<1>1. \E c, w : ReaderMoves(r, c, w) /\ Standing(c, w)
  <2>1. CASE \E k \in Key : Seek(r, k)
    BY <2>1, BeginMoves DEF Seek
  <2>2. CASE Prev(r)
    <3>1. cursor[r].at \in Key
      BY <2>2, LinkedIn DEF Prev, ReaderInv, Standing
    <3> QED BY <2>2, <3>1, BeginMoves DEF Prev
  <2>3. CASE SeekToLast(r)
    BY <2>3, BeginMoves DEF SeekToLast
  <2>4. CASE NewIterator(r)
    BY <2>4, StepToMoves DEF NewIterator
  <2>5. CASE SeekToFirst(r)
    BY <2>5, StepToMoves, FirstAndNext DEF SeekToFirst
  <2>6. CASE NextNode(r)
    BY <2>6, StepToMoves, FirstAndNext DEF NextNode
  <2>7. CASE SearchOn(r)
    BY <2>7, SearchOnMoves
  <2>8. CASE SearchEnds(r)
    BY <2>8, SearchEndsMoves
  <2> QED BY <2>1, <2>2, <2>3, <2>4, <2>5, <2>6, <2>7, <2>8 DEF ReaderStep, Move, Turn
<1>2. PICK c, w : ReaderMoves(r, c, w) /\ Standing(c, w)
  BY <1>1
<1>3. ReaderInv'
  BY <1>2, ReaderKeeps
<1>4. UNCHANGED <<next, heights, writer>>
  BY <1>2 DEF ReaderMoves
<1> QED BY <1>3, <1>4, ListAndWriterStay

---------------------------------------------------------------------------
(* The writer *)

LEMMA WriterFields ==
  ASSUME NEW w \in [pc : {"idle", "find", "height", "link", "publish"},
                    key : Key \cup {Nil}, x : Nodes, level : Levels,
                    prev : [Levels -> Nodes \cup {Nil}], height : 0 .. MaxHeight]
  PROVE  w = [pc |-> w.pc, key |-> w.key, x |-> w.x, level |-> w.level,
              prev |-> w.prev, height |-> w.height]
OBVIOUS

\* The lists do not change: what remains is the writer's part.
LEMMA WriterOnly ==
  ASSUME SkipInv, UNCHANGED <<next, heights, cursor, known>>,
         writer.pc # "publish", WriterInv'
  PROVE  SkipInv'
<1>1. UNCHANGED next /\ UNCHANGED heights /\ UNCHANGED cursor /\ UNCHANGED known
  OBVIOUS
<1>2. (\A l : Linked(l)' = Linked(l) /\ On(l)' = On(l)) /\ UNCHANGED MaxHeightNow
  BY <1>1, ListStays DEF MaxHeightNow
<1>3. ReaderInv'
  BY <1>2, ReadersStand DEF SkipInv
<1>4. NextType' /\ HeightsType' /\ Nested' /\ Gapless' /\ EmptyAbove'
  BY <1>1, <1>2 DEF SkipInv, ListInv, NextType, HeightsType, Nested, Gapless, EmptyAbove
<1>5. RawUntilLinked'
  BY <1>1, <1>2 DEF SkipInv, ListInv, RawUntilLinked
<1> QED BY <1>3, <1>4, <1>5 DEF SkipInv, ListInv

LEMMA PlaceStays ==
  ASSUME UNCHANGED next, NEW p, NEW k, NEW j, Place(p, k, j)
  PROVE  Place(p, k, j)'
BY DEF Place, Follows, KeyIsAfterNode, On, Linked

LEMMA InsertKeeps ==
  ASSUME SkipInv, NEW k \in Key, Insert(k)
  PROVE  SkipInv'
<1>1. /\ writer.pc = "idle" /\ k \notin Linked(0)
      /\ writer' = [Idle EXCEPT !.pc = "find", !.key = k, !.level = MaxHeightNow - 1]
      /\ UNCHANGED <<next, heights, cursor, known>>
  BY DEF Insert
<1>2. MaxHeightNow \in Heights /\ MaxHeightNow - 1 \in Levels /\ MaxHeightNow \in Nat
  BY MaxHeightIsThere, LevelsAreNat DEF SkipInv, ListInv
<1>3. PICK m \in Levels : m = MaxHeightNow - 1
  BY <1>2
<1>4. /\ writer'.pc = "find" /\ writer'.key = k /\ writer'.x = HeadNode /\ writer'.level = m
      /\ WriterType'
  <2>1. writer' = [pc |-> "find", key |-> k, x |-> HeadNode, level |-> m,
                   prev |-> [l \in Levels |-> Nil], height |-> 0]
    BY <1>1, <1>3 DEF Idle
  <2>2. [l \in Levels |-> Nil] \in [Levels -> Nodes \cup {Nil}] /\ 0 \in 0 .. MaxHeight
    BY LevelsAreNat
  <2> QED BY <2>1, <2>2, HeadIsNoKey DEF WriterType
<1>5. UNCHANGED next /\ UNCHANGED MaxHeightNow
  BY <1>1 DEF MaxHeightNow
<1>6. Linked(0)' = Linked(0) /\ HeadNode \in On(m)'
  BY <1>5, ListStays DEF On
<1>7. \A j \in Levels : ~(j > m /\ j < MaxHeightNow')
  BY <1>2, <1>3, <1>5, LevelsAreNat
<1>8. WriterFinds'
  BY <1>1, <1>4, <1>6, <1>7 DEF WriterFinds, Follows
<1>9. WriterHasFound' /\ WriterLinks' /\ WriterPublishes'
  BY <1>4 DEF WriterHasFound, WriterLinks, WriterPublishes
<1> QED BY <1>1, <1>4, <1>8, <1>9, WriterOnly DEF WriterInv

LEMMA FindPrevKeeps ==
  ASSUME SkipInv, FindPrev
  PROVE  SkipInv'
<1>1. PICK w, m : w = writer /\ m = next[writer.x][writer.level]
  OBVIOUS
<1>2. /\ w.pc = "find"
      /\ writer' = IF KeyIsAfterNode(w.key, m) THEN [w EXCEPT !.x = m]
                   ELSE [w EXCEPT !.prev[w.level] = w.x,
                                  !.level = IF @ = 0 THEN 0 ELSE @ - 1,
                                  !.pc = IF w.level = 0 THEN "height" ELSE @]
      /\ UNCHANGED <<next, heights, cursor, known>>
  BY <1>1 DEF FindPrev
<1>3. w \in [pc : {"idle", "find", "height", "link", "publish"},
             key : Key \cup {Nil}, x : Nodes, level : Levels,
             prev : [Levels -> Nodes \cup {Nil}], height : 0 .. MaxHeight]
  BY <1>1 DEF SkipInv, WriterInv, WriterType
<1>4. /\ w.key \in Key \ Linked(0) /\ w.x \in On(w.level) /\ Follows(w.x, w.key)
      /\ \A j \in Levels : j > w.level /\ j < MaxHeightNow => Place(w.prev[j], w.key, j)
  BY <1>1, <1>2 DEF SkipInv, WriterInv, WriterFinds
<1>5. /\ UNCHANGED next /\ UNCHANGED MaxHeightNow
      /\ \A l : Linked(l)' = Linked(l) /\ On(l)' = On(l)
  BY <1>2, ListStays DEF MaxHeightNow
<1>6. w.level \in Levels /\ w.x \in Nodes /\ m \in Key \cup {Nil} /\ m = next[w.x][w.level]
  BY <1>1, <1>3, <1>4 DEF SkipInv, ListInv, Gapless, NextType
<1>7. m \in Key => m \in Linked(w.level)
  BY <1>6 DEF Linked
<1>8. CASE KeyIsAfterNode(w.key, m)
  <2>1. m \in Linked(w.level) /\ m \in Nodes /\ Before(m, w.key)
    BY <1>8, <1>6, <1>7, HeadIsNoKey DEF KeyIsAfterNode
  <2>2. writer' = [pc |-> "find", key |-> w.key, x |-> m, level |-> w.level,
                   prev |-> w.prev, height |-> w.height]
    BY <1>8, <1>2, <1>3
  <2>3. WriterType'
    BY <2>1, <2>2, <1>3 DEF WriterType
  <2>4. m \in On(w.level) /\ Follows(m, w.key)
    BY <2>1 DEF On, Follows
  <2>5. \A j \in Levels : j > w.level /\ j < MaxHeightNow' => Place(w.prev[j], w.key, j)'
    BY <1>4, <1>5, PlaceStays
  <2>6. WriterFinds'
    BY <2>2, <2>4, <2>5, <1>4, <1>5 DEF WriterFinds, Follows
  <2>7. WriterHasFound' /\ WriterLinks' /\ WriterPublishes'
    BY <2>2 DEF WriterHasFound, WriterLinks, WriterPublishes
  <2> QED BY <1>1, <1>2, <2>3, <2>6, <2>7, WriterOnly DEF WriterInv
<1>9. CASE ~KeyIsAfterNode(w.key, m)
  <2>1. PICK q : q = [w.prev EXCEPT ![w.level] = w.x]
    OBVIOUS
  <2>2. /\ q \in [Levels -> Nodes \cup {Nil}] /\ q[w.level] = w.x
        /\ \A j \in Levels : j # w.level => q[j] = w.prev[j]
    BY <2>1, <1>3, <1>6
  <2>3. Place(w.x, w.key, w.level)
    BY <1>4, <1>6, <1>9 DEF Place
  <2>4. \A j \in Levels : j >= w.level /\ j < MaxHeightNow => Place(q[j], w.key, j)
    <3>1. TAKE j \in Levels
    <3>2. j >= w.level => j = w.level \/ j > w.level
      BY <1>6, LevelsAreNat
    <3> QED BY <3>2, <2>2, <2>3, <1>4
  <2>5. \A j \in Levels : j >= w.level /\ j < MaxHeightNow' => Place(q[j], w.key, j)'
    BY <2>4, <1>5, PlaceStays
  <2>6. CASE w.level = 0
    <3>1. writer' = [pc |-> "height", key |-> w.key, x |-> w.x, level |-> 0,
                     prev |-> q, height |-> w.height]
      BY <1>9, <2>6, <1>2, <1>3, <2>1
    <3>2. WriterType'
      BY <3>1, <1>3, <2>2, LevelsAreNat DEF WriterType
    <3>3. WriterHasFound'
      BY <3>1, <2>5, <2>6, <1>4, <1>5, LevelsAreNat DEF WriterHasFound
    <3>4. WriterFinds' /\ WriterLinks' /\ WriterPublishes'
      BY <3>1 DEF WriterFinds, WriterLinks, WriterPublishes
    <3> QED BY <1>1, <1>2, <3>2, <3>3, <3>4, WriterOnly DEF WriterInv
  <2>7. CASE w.level # 0
    <3>1. PICK i \in Levels : i = w.level - 1
      BY <2>7, <1>6, LevelsAreNat
    <3>2. writer' = [pc |-> "find", key |-> w.key, x |-> w.x, level |-> i,
                     prev |-> q, height |-> w.height]
      BY <1>9, <2>7, <1>2, <1>3, <2>1, <3>1
    <3>3. WriterType'
      BY <3>2, <1>3, <2>2 DEF WriterType
    <3>4. w.x \in On(i)
      BY <3>1, <1>4, <1>6, LevelsAreNat DEF SkipInv, ListInv, Nested, On
    <3>5. \A j \in Levels : j > i => j >= w.level
      <4>1. TAKE j \in Levels
      <4>2. PICK n \in Nat : n = w.level
        BY <1>6, LevelsAreNat
      <4>3. j \in Nat /\ (j > n - 1 => j >= n)
        BY LevelsAreNat
      <4> QED BY <3>1, <4>2, <4>3
    <3>6. WriterFinds'
      BY <3>2, <3>4, <3>5, <2>5, <1>4, <1>5 DEF WriterFinds, Follows
    <3>7. WriterHasFound' /\ WriterLinks' /\ WriterPublishes'
      BY <3>2 DEF WriterHasFound, WriterLinks, WriterPublishes
    <3> QED BY <1>1, <1>2, <3>3, <3>6, <3>7, WriterOnly DEF WriterInv
  <2> QED BY <2>6, <2>7
<1> QED BY <1>8, <1>9

LEMMA NothingAbove ==
  ASSUME ListInv, NEW j \in Levels, j >= MaxHeightNow, NEW k \in Key
  PROVE  Place(HeadNode, k, j)
<1>1. Linked(j) = {} /\ next[HeadNode][j] # Raw
  BY DEF ListInv, EmptyAbove, Gapless, On
<1>2. next[HeadNode][j] \in Key \cup {Nil}
  BY <1>1, HeadIsNoKey DEF ListInv, NextType
<1>3. next[HeadNode][j] \notin Key
  BY <1>1, HeadIsNoKey DEF Linked
<1> QED BY <1>2, <1>3 DEF Place, On, Follows, KeyIsAfterNode

LEMMA ChooseHeightKeeps ==
  ASSUME SkipInv, NEW h \in Heights, ChooseHeight(h)
  PROVE  SkipInv'
<1>1. PICK w, M : w = writer /\ M = MaxHeightNow
  OBVIOUS
<1>2. PICK p : p = [l \in Levels |-> IF l \in M .. h - 1 THEN HeadNode ELSE w.prev[l]]
  OBVIOUS
<1>3. /\ w.pc = "height"
      /\ writer' = [w EXCEPT !.pc = "link", !.height = h, !.x = HeadNode, !.prev = p]
      /\ heights' = heights \cup {g \in {h} : g > M}
      /\ UNCHANGED <<next, cursor, known>>
  BY <1>1, <1>2 DEF ChooseHeight
<1>4. w \in [pc : {"idle", "find", "height", "link", "publish"},
             key : Key \cup {Nil}, x : Nodes, level : Levels,
             prev : [Levels -> Nodes \cup {Nil}], height : 0 .. MaxHeight]
  BY <1>1 DEF SkipInv, WriterInv, WriterType
<1>5. /\ w.key \in Key \ Linked(0) /\ w.level = 0
      /\ \A j \in Levels : j < M => Place(w.prev[j], w.key, j)
  BY <1>1, <1>3 DEF SkipInv, WriterInv, WriterHasFound
<1>6. /\ UNCHANGED next /\ UNCHANGED cursor /\ UNCHANGED known
      /\ \A l : Linked(l)' = Linked(l) /\ On(l)' = On(l)
  BY <1>3, ListStays
<1>7. M \in Heights /\ M \in Nat /\ h \in Nat /\ h >= 1 /\ h <= MaxHeight
  BY <1>1, MaxHeightIsThere, LevelsAreNat DEF SkipInv, ListInv
<1>8. HeightsType'
  BY <1>3, <1>7 DEF SkipInv, ListInv, HeightsType
<1>9. M <= MaxHeightNow' /\ h <= MaxHeightNow' /\ MaxHeightNow' \in Nat
  <2>1. MaxHeightNow' \in Heights /\ \A g \in heights' : g <= MaxHeightNow'
    BY <1>8, HighestOf DEF HeightsType, MaxHeightNow, Heights
  <2>2. PICK N : N = MaxHeightNow'
    OBVIOUS
  <2>3. M \in heights' /\ (h > M => h \in heights')
    BY <1>1, <1>3, MaxHeightIsThere DEF SkipInv, ListInv
  <2>4. N \in Nat /\ M <= N /\ (h > M => h <= N)
    BY <2>1, <2>2, <2>3, LevelsAreNat
  <2>5. h <= N
    BY <2>4, <1>7
  <2> QED BY <2>2, <2>4, <2>5
<1>10. p \in [Levels -> Nodes \cup {Nil}]
  BY <1>2, <1>4, HeadIsNoKey
<1>11. \A j \in Levels : j < h => Place(p[j], w.key, j)
  <2> SUFFICES ASSUME NEW j \in Levels, j < h PROVE Place(p[j], w.key, j)
    OBVIOUS
  <2>1. j \in Nat /\ p[j] = IF j >= M THEN HeadNode ELSE w.prev[j]
    BY <1>2, <1>7, LevelsAreNat
  <2>2. CASE j < M
    BY <2>1, <2>2, <1>5, <1>7
  <2>3. CASE j >= M
    <3>1. Place(HeadNode, w.key, j)
      BY <2>3, <1>1, <1>5, NothingAbove DEF SkipInv
    <3> QED BY <3>1, <2>1, <2>3
  <2> QED BY <2>1, <2>2, <2>3, <1>7
<1>12. writer' = [pc |-> "link", key |-> w.key, x |-> HeadNode, level |-> w.level, prev |-> p, height |-> h]
  BY <1>3, <1>4
<1>13. WriterType'
  BY <1>12, <1>4, <1>7, <1>10, HeadIsNoKey, LevelsAreNat DEF WriterType
<1>14. WriterLinks'
  <2>1. \A j \in Levels : j >= 0 /\ j < h => Place(p[j], w.key, j)'
    BY <1>11, <1>6, PlaceStays
  <2>2. \A j \in Levels : ~(j < 0) /\ w.key \notin Linked(j)
    <3>1. TAKE j \in Levels
    <3>2. Linked(j) \subseteq Linked(0) /\ ~(j < 0)
      BY LevelsAreNat DEF SkipInv, ListInv, Nested
    <3> QED BY <3>2, <1>5
  <2>3. \A j \in Levels : IF j < 0 THEN w.key \in Linked(j)' ELSE w.key \notin Linked(j)'
    BY <2>2, <1>6
  <2>4. 0 < h /\ h <= MaxHeightNow'
    BY <1>7, <1>9
  <2> QED BY <1>12, <1>5, <2>1, <2>3, <2>4 DEF WriterLinks
<1>15. WriterFinds' /\ WriterHasFound' /\ WriterPublishes'
  BY <1>12 DEF WriterFinds, WriterHasFound, WriterPublishes
<1>16. NextType' /\ Nested' /\ Gapless'
  BY <1>6 DEF SkipInv, ListInv, NextType, Nested, Gapless
<1>17. EmptyAbove'
  <2>1. \A l \in Levels : l >= MaxHeightNow' => l >= M
    <3>1. TAKE l \in Levels
    <3>2. PICK N \in Nat : N = MaxHeightNow'
      BY <1>9
    <3>3. l \in Nat /\ M <= N /\ (l >= N => l >= M)
      BY <3>2, <1>7, <1>9, LevelsAreNat
    <3> QED BY <3>2, <3>3
  <2> QED BY <2>1, <1>1, <1>6 DEF SkipInv, ListInv, EmptyAbove
<1>18. RawUntilLinked'
  BY <1>1, <1>3, <1>6 DEF SkipInv, ListInv, RawUntilLinked
<1>19. ReaderInv'
  BY <1>6, ReadersStand DEF SkipInv
<1> QED BY <1>8, <1>13, <1>14, <1>15, <1>16, <1>17, <1>18, <1>19 DEF SkipInv, ListInv, WriterInv

\* Where Insert() is when it links its node in a level: between p and what p
\* points at.
LEMMA LinkingFacts ==
  ASSUME SkipInv, writer.pc \in {"link", "publish"}
  PROVE  LET k == writer.key
             l == writer.level
             p == writer.prev[l]
         IN  /\ k \in Key /\ l \in Levels /\ k \notin Linked(l) /\ Place(p, k, l)
             /\ p \in Nodes /\ p # k /\ next[p][l] \in Linked(l) \cup {Nil}
             /\ writer.height \in Nat /\ writer.height <= MaxHeight
             /\ l < writer.height /\ writer.height <= MaxHeightNow
<1>1. PICK k, l, p : k = writer.key /\ l = writer.level /\ p = writer.prev[l]
  OBVIOUS
<1>2. l \in Levels /\ l \in Nat /\ writer.height \in Nat /\ writer.height <= MaxHeight
  BY <1>1, LevelsAreNat DEF SkipInv, WriterInv, WriterType
<1>3. /\ k \in Key /\ l < writer.height /\ writer.height <= MaxHeightNow
      /\ k \notin Linked(l) /\ Place(p, k, l)
  <2>1. k \in Key /\ l < writer.height /\ writer.height <= MaxHeightNow
    BY <1>1 DEF SkipInv, WriterInv, WriterLinks
  <2>2. ~(l < l) /\ l >= l
    BY <1>2
  <2> QED BY <1>1, <1>2, <2>1, <2>2 DEF SkipInv, WriterInv, WriterLinks
<1>4. p \in Nodes /\ p # k
  BY <1>3, LinkedIn, HeadIsNoKey DEF Place, On
<1>5. next[p][l] \in Key \cup {Nil}
  BY <1>2, <1>3, <1>4 DEF Place, SkipInv, ListInv, Gapless, NextType
<1>6. next[p][l] \in Linked(l) \cup {Nil}
  BY <1>4, <1>5 DEF Linked
<1> QED BY <1>1, <1>2, <1>3, <1>4, <1>6

\* The two stores change one pointer.
LEMMA OneStore ==
  ASSUME NextType, NEW n \in Nodes, NEW l \in Levels, NEW v,
         SetNext(n, l, v)
  PROVE  \A m \in Nodes, j \in Levels :
            next'[m][j] = IF m = n /\ j = l THEN v ELSE next[m][j]
<1>1. PICK f : f = [next[n] EXCEPT ![l] = v]
  OBVIOUS
<1>2. \A j \in Levels : f[j] = IF j = l THEN v ELSE next[n][j]
  BY <1>1 DEF NextType
<1>3. next' = [next EXCEPT ![n] = f]
  BY <1>1 DEF SetNext
<1>4. \A m \in Nodes : next'[m] = IF m = n THEN f ELSE next[m]
  BY <1>3 DEF NextType
<1>5. ASSUME NEW m \in Nodes, NEW j \in Levels
      PROVE  next'[m][j] = IF m = n /\ j = l THEN v ELSE next[m][j]
  <2>1. CASE m = n
    BY <2>1, <1>2, <1>4
  <2>2. CASE m # n
    BY <2>2, <1>4
  <2> QED BY <2>1, <2>2
<1> QED BY <1>5

LEMMA OneStoreType ==
  ASSUME NextType, NEW n \in Nodes, NEW l \in Levels, NEW v \in Key \cup {Nil, Raw},
         SetNext(n, l, v)
  PROVE  NextType'
BY DEF NextType, SetNext

LEMMA LinkNodeLinks ==
  ASSUME SkipInv, LinkNode
  PROVE  LET k == writer.key
             l == writer.level
         IN  /\ NextType'
             /\ \A m \in Nodes, j \in Levels :
                   next'[m][j] = IF m = k /\ j = l THEN next[writer.prev[l]][l] ELSE next[m][j]
             /\ \A j \in Levels : Linked(j)' = Linked(j) /\ On(j)' = On(j)
<1>1. PICK k, l, p : k = writer.key /\ l = writer.level /\ p = writer.prev[l]
  OBVIOUS
<1>2. /\ writer.pc = "link" /\ SetNext(k, l, next[p][l])
  BY <1>1 DEF LinkNode
<1>3. /\ k \in Key /\ k \in Nodes /\ l \in Levels /\ k \notin Linked(l)
      /\ p \in Nodes /\ p # k /\ next[p][l] \in Linked(l) \cup {Nil}
  BY <1>1, <1>2, LinkingFacts, HeadIsNoKey
<1>4. NextType /\ Linked(l) \subseteq Key
  BY LinkedIn DEF SkipInv, ListInv
<1>5. PICK v \in Key \cup {Nil} : v = next[p][l]
  BY <1>3, <1>4
<1>6. \A m \in Nodes, j \in Levels : next'[m][j] = IF m = k /\ j = l THEN v ELSE next[m][j]
  BY <1>2, <1>3, <1>4, <1>5, OneStore
<1>7. NextType'
  BY <1>2, <1>3, <1>4, <1>5, OneStoreType
<1>8. next[k][l] = Raw
  BY <1>2, <1>3 DEF SkipInv, ListInv, RawUntilLinked
<1>9. \A j \in Levels : Linked(j)' = Linked(j)
  <2> SUFFICES ASSUME NEW j \in Levels PROVE Linked(j)' = Linked(j)
    OBVIOUS
  <2>1. ASSUME NEW a \in Linked(j) PROVE a \in Linked(j)'
    <3>1. PICK m \in Nodes : a = next[m][j] /\ a \in Key
      BY <2>1 DEF Linked
    <3>2. ~(m = k /\ j = l)
      BY <3>1, <1>8, HeadIsNoKey
    <3>3. a = next'[m][j]
      BY <3>1, <3>2, <1>6
    <3> QED BY <3>1, <3>3 DEF Linked
  <2>2. ASSUME NEW a \in Linked(j)' PROVE a \in Linked(j)
    <3>1. PICK m \in Nodes : a = next'[m][j] /\ a \in Key
      BY <2>2 DEF Linked
    <3>2. CASE m = k /\ j = l
      BY <3>1, <3>2, <1>3, <1>5, <1>6, HeadIsNoKey
    <3>3. CASE ~(m = k /\ j = l)
      BY <3>1, <3>3, <1>6 DEF Linked
    <3> QED BY <3>2, <3>3
  <2> QED BY <2>1, <2>2
<1>10. \A j \in Levels : On(j)' = On(j)
  BY <1>9 DEF On
<1> QED BY <1>1, <1>5, <1>6, <1>7, <1>9, <1>10

LEMMA PublishNodeLinks ==
  ASSUME SkipInv, PublishNode
  PROVE  LET k == writer.key
             l == writer.level
         IN  /\ NextType'
             /\ \A m \in Nodes, j \in Levels :
                   next'[m][j] = IF m = writer.prev[l] /\ j = l THEN k ELSE next[m][j]
             /\ \A j \in Levels : Linked(j)' = IF j = l THEN Linked(j) \cup {k} ELSE Linked(j)
             /\ next[k][l] = next[writer.prev[l]][l]
<1>1. PICK k, l, p : k = writer.key /\ l = writer.level /\ p = writer.prev[l]
  OBVIOUS
<1>2. /\ writer.pc = "publish" /\ SetNext(p, l, k)
  BY <1>1 DEF PublishNode
<1>3. /\ k \in Key /\ k \in Nodes /\ l \in Levels /\ k \notin Linked(l)
      /\ p \in Nodes /\ p # k /\ next[p][l] \in Linked(l) \cup {Nil}
  BY <1>1, <1>2, LinkingFacts, HeadIsNoKey
<1>4. NextType /\ next[k][l] = next[p][l]
  BY <1>1, <1>2 DEF SkipInv, ListInv, WriterInv, WriterPublishes
<1>5. \A m \in Nodes, j \in Levels : next'[m][j] = IF m = p /\ j = l THEN k ELSE next[m][j]
  BY <1>2, <1>3, <1>4, OneStore
<1>6. NextType'
  BY <1>2, <1>3, <1>4, OneStoreType
<1>7. \A j \in Levels : Linked(j)' = IF j = l THEN Linked(j) \cup {k} ELSE Linked(j)
  <2> SUFFICES ASSUME NEW j \in Levels
               PROVE  Linked(j)' = IF j = l THEN Linked(j) \cup {k} ELSE Linked(j)
    OBVIOUS
  <2>1. ASSUME NEW a \in Linked(j) PROVE a \in Linked(j)'
    <3>1. PICK m \in Nodes : a = next[m][j] /\ a \in Key
      BY <2>1 DEF Linked
    <3>2. CASE m = p /\ j = l
      <4>1. a = next'[k][j]
        BY <3>1, <3>2, <1>3, <1>4, <1>5
      <4> QED BY <4>1, <3>1, <1>3 DEF Linked
    <3>3. CASE ~(m = p /\ j = l)
      BY <3>1, <3>3, <1>5 DEF Linked
    <3> QED BY <3>2, <3>3
  <2>2. ASSUME NEW a \in Linked(j)' PROVE a \in Linked(j) \/ (j = l /\ a = k)
    <3>1. PICK m \in Nodes : a = next'[m][j] /\ a \in Key
      BY <2>2 DEF Linked
    <3> QED BY <3>1, <1>5 DEF Linked
  <2>3. j = l => k \in Linked(j)'
    <3>1. next'[p][l] = k
      BY <1>3, <1>5
    <3> QED BY <3>1, <1>3 DEF Linked
  <2> QED BY <2>1, <2>2, <2>3
<1> QED BY <1>1, <1>4, <1>5, <1>6, <1>7

LEMMA LinkNodeKeeps ==
  ASSUME SkipInv, LinkNode
  PROVE  SkipInv'
<1>1. PICK w, k, l, p : w = writer /\ k = writer.key /\ l = writer.level /\ p = writer.prev[l]
  OBVIOUS
<1>2. /\ w.pc = "link" /\ writer' = [w EXCEPT !.pc = "publish"]
      /\ UNCHANGED heights /\ UNCHANGED cursor /\ UNCHANGED known
  BY <1>1 DEF LinkNode
<1>3. /\ k \in Key /\ k \in Nodes /\ l \in Levels /\ k \notin Linked(l) /\ p \in Nodes /\ p # k
  BY <1>1, <1>2, LinkingFacts, HeadIsNoKey
<1>4. /\ NextType'
      /\ \A m \in Nodes, j \in Levels :
            next'[m][j] = IF m = k /\ j = l THEN next[p][l] ELSE next[m][j]
      /\ \A j \in Levels : Linked(j)' = Linked(j) /\ On(j)' = On(j)
  BY <1>1, LinkNodeLinks
<1>5. UNCHANGED MaxHeightNow
  BY <1>2 DEF MaxHeightNow
<1>6. \A j \in Levels : \A n \in On(j) : j >= l => n \in Nodes /\ n # k /\ next'[n][j] = next[n][j]
  <2> SUFFICES ASSUME NEW j \in Levels, NEW n \in On(j), j >= l
               PROVE  n \in Nodes /\ n # k /\ next'[n][j] = next[n][j]
    OBVIOUS
  <2>1. k \notin Linked(j)
    BY <1>1, <1>2, <1>3, LevelsAreNat DEF SkipInv, ListInv, Nested
  <2>2. n \in Nodes /\ n # k
    BY <1>3, <2>1, LinkedIn, HeadIsNoKey DEF On
  <2> QED BY <2>2, <1>4
<1>7. \A j \in Levels : \A n \in On(j) : n \in Nodes /\ next'[n][j] = next[n][j]
  <2> SUFFICES ASSUME NEW j \in Levels, NEW n \in On(j)
               PROVE  n \in Nodes /\ next'[n][j] = next[n][j]
    OBVIOUS
  <2>1. CASE j = l
    BY <2>1, <1>6, LevelsAreNat
  <2>2. CASE j # l
    BY <2>2, <1>4, LinkedIn
  <2> QED BY <2>1, <2>2
<1>8. Nested' /\ EmptyAbove'
  BY <1>4, <1>5 DEF SkipInv, ListInv, Nested, EmptyAbove
<1>9. Gapless'
  <2> SUFFICES ASSUME NEW j \in Levels, NEW n \in On(j)
               PROVE  /\ next'[n][j] # Raw
                      /\ next'[n][j] \in Key => Follows(n, next'[n][j])
                      /\ \A m \in Linked(j) :
                            Follows(n, m) => next'[n][j] \in Key /\ ~Before(m, next'[n][j])
    BY <1>4 DEF Gapless, Follows
  <2> QED BY <1>7 DEF SkipInv, ListInv, Gapless
<1>10. writer' = [pc |-> "publish", key |-> w.key, x |-> w.x, level |-> w.level, prev |-> w.prev,
                  height |-> w.height] /\ WriterType'
  <2>1. WriterType
    BY DEF SkipInv, WriterInv
  <2> QED BY <1>1, <1>2, <2>1 DEF WriterType
<1>11. RawUntilLinked'
  <2> SUFFICES ASSUME NEW j \in Levels, NEW n \in Key \ Linked(j), ~(n = k /\ j = l)
               PROVE  next'[n][j] = Raw
    BY <1>1, <1>4, <1>10 DEF RawUntilLinked
  <2>1. next'[n][j] = next[n][j]
    BY <1>4, HeadIsNoKey
  <2> QED BY <2>1, <1>1, <1>2 DEF SkipInv, ListInv, RawUntilLinked
<1>12. HeightsType'
  BY <1>2 DEF SkipInv, ListInv, HeightsType
<1>13. /\ w.key \in Key /\ w.level < w.height /\ w.height <= MaxHeightNow
       /\ \A j \in Levels : IF j < w.level THEN w.key \in Linked(j) ELSE w.key \notin Linked(j)
       /\ \A j \in Levels : j >= w.level /\ j < w.height => Place(w.prev[j], w.key, j)
  BY <1>1, <1>2 DEF SkipInv, WriterInv, WriterLinks
<1>14. WriterLinks'
  <2>1. \A j \in Levels : j >= w.level /\ j < w.height => Place(w.prev[j], w.key, j)'
    BY <1>1, <1>4, <1>6, <1>13 DEF Place, Follows, KeyIsAfterNode
  <2>2. \A j \in Levels : IF j < w.level THEN w.key \in Linked(j)' ELSE w.key \notin Linked(j)'
    BY <1>4, <1>13
  <2> QED BY <1>5, <1>10, <1>13, <2>1, <2>2 DEF WriterLinks
<1>15. WriterPublishes'
  <2>1. next'[k][l] = next[p][l] /\ next'[p][l] = next[p][l]
    BY <1>3, <1>4
  <2> QED BY <2>1, <1>1, <1>10 DEF WriterPublishes
<1>16. WriterFinds' /\ WriterHasFound'
  BY <1>10 DEF WriterFinds, WriterHasFound
<1>17. ReaderInv'
  BY <1>2, <1>4, ReadersStand DEF SkipInv
<1> QED BY <1>4, <1>8, <1>9, <1>10, <1>11, <1>12, <1>14, <1>15, <1>16, <1>17
        DEF SkipInv, ListInv, WriterInv

\* Between p and the node after it a key is put where it belongs: no gap.
LEMMA PutBetween ==
  ASSUME ListInv, NEW l \in Levels, NEW k \in Key, k \notin Linked(l), NEW p, Place(p, k, l)
  PROVE  LET q == next[p][l]
         IN  /\ \A m \in Linked(l) : Follows(p, m) => ~Before(m, k)
             /\ q # Raw /\ (q \in Key => Before(k, q))
             /\ \A m \in Linked(l) : Before(k, m) => q \in Key /\ ~Before(m, q)
             /\ \A n \in On(l) : n # p /\ Follows(n, k) => next[n][l] \in Key /\ ~Before(k, next[n][l])
<1>1. PICK q : q = next[p][l]
  OBVIOUS
<1>2. /\ p \in On(l) /\ (p = HeadNode \/ Before(p, k)) /\ (q = Nil \/ ~Before(q, k))
      /\ \A n \in On(l) : n = HeadNode \/ n \in Key
      /\ Linked(l) \subseteq Key /\ Nil \notin Key
  BY <1>1, LinkedIn, HeadIsNoKey DEF Place, Follows, KeyIsAfterNode, On
<1>3. \A n \in On(l) :
         /\ next[n][l] # Raw
         /\ next[n][l] \in Key => n = HeadNode \/ Before(n, next[n][l])
         /\ \A m \in Linked(l) : n = HeadNode \/ Before(n, m)
                                 => next[n][l] \in Key /\ ~Before(m, next[n][l])
  BY DEF ListInv, Gapless, Follows
<1>4. q \in Key => q \in Linked(l)
  BY <1>1, <1>2, LinkedIn DEF Linked
<1>5. q \in Key => Before(k, q)
  BY <1>2, <1>4, OrderIsStrict
<1>6. \A m \in Linked(l) : Follows(p, m) => ~Before(m, k)
  BY <1>1, <1>2, <1>3, <1>5, OrderIsStrict DEF Follows
<1>7. \A m \in Linked(l) : Before(k, m) => q \in Key /\ ~Before(m, q)
  BY <1>1, <1>2, <1>3, OrderIsStrict
<1>8. ASSUME NEW n \in On(l), n # p, Follows(n, k)
      PROVE  next[n][l] \in Key /\ ~Before(k, next[n][l])
  <2>1. CASE n \in Key /\ (p = HeadNode \/ Before(p, n))
    <3>1. n \in Linked(l) /\ Before(n, k)
      BY <2>1, <1>8, HeadIsNoKey DEF On, Follows
    <3>2. Follows(p, n)
      BY <2>1 DEF Follows
    <3> QED BY <3>1, <3>2, <1>6
  <2>2. CASE n = HeadNode \/ (p # HeadNode /\ ~Before(p, n))
    <3>1. p \in Linked(l) /\ p \in Key /\ Before(p, k)
      BY <2>2, <1>8, <1>2 DEF On
    <3>2. n = HeadNode \/ Before(n, p)
      BY <2>2, <3>1, <1>2, <1>8, OrderIsStrict
    <3>3. next[n][l] \in Key /\ ~Before(p, next[n][l])
      BY <3>1, <3>2, <1>3
    <3> QED BY <3>1, <3>3, OrderIsStrict
  <2> QED BY <2>1, <2>2, <1>2
<1> QED BY <1>1, <1>2, <1>3, <1>5, <1>6, <1>7, <1>8

LEMMA PublishNodeGapless ==
  ASSUME SkipInv, PublishNode
  PROVE  Gapless'
<1>1. PICK k, l, p, q : /\ k = writer.key /\ l = writer.level /\ p = writer.prev[l]
                        /\ q = next[p][l]
  OBVIOUS
<1>2. writer.pc = "publish"
  BY DEF PublishNode
<1>3. /\ k \in Key /\ k \in Nodes /\ l \in Levels /\ k \notin Linked(l)
      /\ p \in Nodes /\ p # k /\ Place(p, k, l)
  BY <1>1, <1>2, LinkingFacts, HeadIsNoKey
<1>4. /\ \A m \in Nodes, j \in Levels : next'[m][j] = IF m = p /\ j = l THEN k ELSE next[m][j]
      /\ \A j \in Levels : Linked(j)' = IF j = l THEN Linked(j) \cup {k} ELSE Linked(j)
      /\ next[k][l] = q
  BY <1>1, PublishNodeLinks
<1>5. \A j \in Levels : On(j)' = IF j = l THEN On(j) \cup {k} ELSE On(j)
  BY <1>4 DEF On
<1>6. /\ \A m \in Linked(l) : Follows(p, m) => ~Before(m, k)
      /\ q # Raw /\ (q \in Key => Before(k, q))
      /\ \A m \in Linked(l) : Before(k, m) => q \in Key /\ ~Before(m, q)
      /\ \A n \in On(l) : n # p /\ Follows(n, k) => next[n][l] \in Key /\ ~Before(k, next[n][l])
  BY <1>1, <1>3, PutBetween DEF SkipInv
<1> SUFFICES ASSUME NEW j \in Levels, NEW n \in On(j)'
             PROVE  /\ next'[n][j] # Raw
                    /\ next'[n][j] \in Key => Follows(n, next'[n][j])
                    /\ \A m \in Linked(j)' :
                          Follows(n, m) => next'[n][j] \in Key /\ ~Before(m, next'[n][j])
  BY DEF Gapless, Follows
<1>7. \A i \in Levels : \A a \in On(i) :
         /\ a \in Nodes /\ next[a][i] # Raw
         /\ next[a][i] \in Key => Follows(a, next[a][i])
         /\ \A m \in Linked(i) : Follows(a, m) => next[a][i] \in Key /\ ~Before(m, next[a][i])
  BY LinkedIn DEF SkipInv, ListInv, Gapless
<1>8. CASE j # l
  <2>1. n \in On(j) /\ next'[n][j] = next[n][j] /\ Linked(j)' = Linked(j)
    BY <1>4, <1>5, <1>7, <1>8
  <2> QED BY <2>1, <1>7
<1>9. CASE j = l /\ n = p
  <2>1. next'[n][j] = k
    BY <1>3, <1>4, <1>9
  <2>2. \A m \in Linked(j)' : Follows(n, m) => ~Before(m, k)
    BY <1>3, <1>4, <1>6, <1>9, OrderIsStrict
  <2> QED BY <2>1, <2>2, <1>3, <1>9, HeadIsNoKey DEF Place
<1>10. CASE j = l /\ n = k
  <2>1. next'[n][j] = q
    BY <1>3, <1>4, <1>10
  <2>2. \A m \in Linked(j)' : Follows(n, m) => m \in Linked(l) /\ Before(k, m)
    BY <1>3, <1>4, <1>10, OrderIsStrict, HeadIsNoKey DEF Follows
  <2> QED BY <2>1, <2>2, <1>6, <1>10 DEF Follows
<1>11. CASE j = l /\ n # p /\ n # k
  <2>1. n \in On(l) /\ next'[n][j] = next[n][l]
    BY <1>4, <1>5, <1>7, <1>11
  <2>2. \A m \in Linked(j)' : m = k \/ m \in Linked(l)
    BY <1>4, <1>11
  <2> QED BY <2>1, <2>2, <1>6, <1>7, <1>11
<1> QED BY <1>8, <1>9, <1>10, <1>11

LEMMA PublishNodeKeeps ==
  ASSUME SkipInv, PublishNode
  PROVE  SkipInv'
<1>1. PICK w, k, l, p : w = writer /\ k = writer.key /\ l = writer.level /\ p = writer.prev[l]
  OBVIOUS
<1>2. /\ w.pc = "publish"
      /\ writer' = IF w.level + 1 < w.height THEN [w EXCEPT !.pc = "link", !.level = @ + 1] ELSE Idle
      /\ UNCHANGED heights /\ UNCHANGED cursor /\ UNCHANGED known
  BY <1>1 DEF PublishNode
<1>3. /\ k \in Key /\ k \in Nodes /\ l \in Levels /\ k \notin Linked(l)
      /\ p \in Nodes /\ p # k /\ Place(p, k, l)
      /\ w.height \in Nat /\ w.height <= MaxHeight /\ l < w.height /\ w.height <= MaxHeightNow
  BY <1>1, <1>2, LinkingFacts, HeadIsNoKey
<1>4. /\ NextType'
      /\ \A m \in Nodes, j \in Levels : next'[m][j] = IF m = p /\ j = l THEN k ELSE next[m][j]
      /\ \A j \in Levels : Linked(j)' = IF j = l THEN Linked(j) \cup {k} ELSE Linked(j)
  BY <1>1, PublishNodeLinks
<1>5. UNCHANGED MaxHeightNow
  BY <1>2 DEF MaxHeightNow
<1>6. \A j \in Levels : On(j)' = IF j = l THEN On(j) \cup {k} ELSE On(j)
  BY <1>4 DEF On
<1>7. /\ w.key = k /\ w.level = l
      /\ \A j \in Levels : IF j < l THEN k \in Linked(j) ELSE k \notin Linked(j)
      /\ \A j \in Levels : j >= l /\ j < w.height => Place(w.prev[j], k, j)
  BY <1>1, <1>2 DEF SkipInv, WriterInv, WriterLinks
<1>8. Nested'
  <2> SUFFICES ASSUME NEW i \in Levels, NEW j \in Levels, i <= j
               PROVE  Linked(j)' \subseteq Linked(i)'
    BY DEF Nested
  <2>1. Linked(j) \subseteq Linked(i) /\ Linked(i) \subseteq Linked(i)'
    BY <1>4 DEF SkipInv, ListInv, Nested
  <2>2. j = l => k \in Linked(i)'
    BY <1>4, <1>7, LevelsAreNat
  <2> QED BY <2>1, <2>2, <1>4
<1>9. EmptyAbove'
  <2>1. MaxHeightNow \in Nat
    BY MaxHeightIsThere, LevelsAreNat DEF SkipInv, ListInv
  <2>2. ~(l >= MaxHeightNow)
    BY <2>1, <1>3, LevelsAreNat
  <2> QED BY <2>2, <1>4, <1>5 DEF SkipInv, ListInv, EmptyAbove
<1>10. w \in [pc : {"idle", "find", "height", "link", "publish"},
              key : Key \cup {Nil}, x : Nodes, level : Levels,
              prev : [Levels -> Nodes \cup {Nil}], height : 0 .. MaxHeight]
  BY <1>1 DEF SkipInv, WriterInv, WriterType
<1>11. writer'.pc \in {"idle", "link"}
  BY <1>2, <1>10 DEF Idle
<1>12. RawUntilLinked'
  <2> SUFFICES ASSUME NEW j \in Levels, NEW n \in Key \ Linked(j)' PROVE next'[n][j] = Raw
    BY <1>11 DEF RawUntilLinked
  <2>1. n \notin Linked(j) /\ ~(n = k /\ j = l)
    BY <1>4
  <2>2. ~(n = p /\ j = l)
    BY <2>1, <1>3, HeadIsNoKey DEF Place, On
  <2>3. next'[n][j] = next[n][j]
    BY <2>2, <1>4, HeadIsNoKey
  <2> QED BY <2>1, <2>3, <1>1 DEF SkipInv, ListInv, RawUntilLinked
<1>13. HeightsType'
  BY <1>2 DEF SkipInv, ListInv, HeightsType
<1>14. \A j \in Levels : Linked(j) \subseteq Linked(j)'
  BY <1>4
<1>15. ReaderInv'
  BY <1>2, <1>14, ReadersStand DEF SkipInv
<1>16. WriterInv'
  <2>1. CASE l + 1 < w.height
    <3>1. PICK i \in Nat : i = l + 1
      BY <1>3, LevelsAreNat
    <3>2. i \in Levels
      BY <3>1, <2>1, <1>3, LevelsAreNat
    <3>3. writer' = [pc |-> "link", key |-> k, x |-> w.x, level |-> i, prev |-> w.prev,
                     height |-> w.height]
      BY <3>1, <2>1, <1>2, <1>7, <1>10
    <3>4. WriterType'
      BY <3>2, <3>3, <1>3, <1>10 DEF WriterType
    <3>5. \A j \in Levels : IF j < i THEN k \in Linked(j)' ELSE k \notin Linked(j)'
      BY <3>1, <1>3, <1>4, <1>7, LevelsAreNat
    <3>6. \A j \in Levels : j >= i /\ j < w.height => Place(w.prev[j], k, j)'
      <4> SUFFICES ASSUME NEW j \in Levels, j >= i, j < w.height PROVE Place(w.prev[j], k, j)'
        OBVIOUS
      <4>1. Place(w.prev[j], k, j) /\ j # l
        BY <3>1, <1>3, <1>7, LevelsAreNat
      <4>2. On(j)' = On(j) /\ next'[w.prev[j]][j] = next[w.prev[j]][j]
        BY <4>1, <1>4, <1>6, LinkedIn DEF Place
      <4> QED BY <4>1, <4>2 DEF Place, Follows, KeyIsAfterNode
    <3>7. WriterLinks'
      BY <3>1, <3>3, <3>5, <3>6, <2>1, <1>3, <1>5 DEF WriterLinks
    <3>8. WriterFinds' /\ WriterHasFound' /\ WriterPublishes'
      BY <3>3 DEF WriterFinds, WriterHasFound, WriterPublishes
    <3> QED BY <3>4, <3>7, <3>8 DEF WriterInv
  <2>2. CASE ~(l + 1 < w.height)
    <3>1. writer' = Idle
      BY <2>2, <1>2, <1>7
    <3>2. WriterType'
      <4>1. [j \in Levels |-> Nil] \in [Levels -> Nodes \cup {Nil}] /\ 0 \in 0 .. MaxHeight
        BY LevelsAreNat
      <4> QED BY <3>1, <4>1, HeadIsNoKey, LevelsAreNat DEF WriterType, Idle
    <3>3. writer'.pc = "idle"
      BY <3>1 DEF Idle
    <3> QED BY <3>2, <3>3 DEF WriterInv, WriterFinds, WriterHasFound, WriterLinks, WriterPublishes
  <2> QED BY <2>1, <2>2
<1>17. Gapless'
  BY PublishNodeGapless
<1> QED BY <1>4, <1>8, <1>9, <1>12, <1>13, <1>15, <1>16, <1>17 DEF SkipInv, ListInv

---------------------------------------------------------------------------
(* The invariant, and what it says *)

LEMMA SkipInit == Init => SkipInv
<1> SUFFICES ASSUME Init PROVE SkipInv
  OBVIOUS
<1> USE HeadIsNoKey, LevelsAreNat
<1>1. NextType
  BY DEF Init, NextType
<1>2. \A n \in Nodes, l \in Levels : next[n][l] = IF n = HeadNode THEN Nil ELSE Raw
  BY DEF Init
<1>3. \A l \in Levels : Linked(l) = {} /\ On(l) = {HeadNode}
  BY <1>2 DEF Linked, On
<1>4. HeightsType
  BY DEF Init, HeightsType, Heights
<1>5. Nested /\ Gapless /\ RawUntilLinked /\ EmptyAbove
  BY <1>2, <1>3 DEF Nested, Gapless, RawUntilLinked, EmptyAbove
<1>6. WriterInv
  <2>1. writer = Idle /\ writer.pc = "idle"
    BY DEF Init, Idle
  <2>2. [j \in Levels |-> Nil] \in [Levels -> Nodes \cup {Nil}] /\ 0 \in 0 .. MaxHeight
    OBVIOUS
  <2>3. WriterType
    BY <2>1, <2>2 DEF WriterType, Idle
  <2> QED BY <2>1, <2>3 DEF WriterInv, WriterFinds, WriterHasFound, WriterLinks, WriterPublishes
<1>7. ReaderInv
  <2>1. NoSearch \in Search /\ NoSearch.op = "idle" /\ NoSearch.x = HeadNode /\ NoSearch.level = 0
    BY DEF NoSearch, Search
  <2>2. PICK c : c = [at |-> Nil, find |-> NoSearch]
    OBVIOUS
  <2>3. c \in Cursor /\ c.at = Nil /\ c.find = NoSearch
    BY <2>1, <2>2 DEF Cursor
  <2>4. Standing(c, {})
    BY <2>1, <2>3, <1>3 DEF Standing
  <2>5. cursor = [r \in Readers |-> c] /\ known = [r \in Readers |-> {}]
    BY <2>2 DEF Init
  <2> QED BY <2>3, <2>4, <2>5 DEF ReaderInv
<1> QED BY <1>1, <1>4, <1>5, <1>6, <1>7 DEF SkipInv, ListInv

LEMMA SkipStep == SkipInv /\ [Next]_vars => SkipInv'
<1> SUFFICES ASSUME SkipInv, [Next]_vars PROVE SkipInv'
  OBVIOUS
<1>1. ASSUME NEW k \in Key, Insert(k) PROVE SkipInv'
  BY <1>1, InsertKeeps
<1>2. ASSUME NEW h \in Heights, ChooseHeight(h) PROVE SkipInv'
  BY <1>2, ChooseHeightKeeps
<1>3. CASE Write
  BY <1>3, FindPrevKeeps, LinkNodeKeeps, PublishNodeKeeps DEF Write
<1>4. ASSUME NEW r \in Readers, ReaderStep(r) PROVE SkipInv'
  BY <1>4, ReaderStepKeeps
<1>5. CASE UNCHANGED vars
  <2>1. /\ UNCHANGED next /\ UNCHANGED heights /\ UNCHANGED writer
        /\ UNCHANGED cursor /\ UNCHANGED known
    BY <1>5 DEF vars
  <2>2. ListInv' /\ WriterInv'
    BY <2>1, ListAndWriterStay DEF SkipInv
  <2>3. ReaderInv'
    BY <2>1, ListStays, ReadersStand DEF SkipInv
  <2> QED BY <2>2, <2>3 DEF SkipInv
<1> QED BY <1>1, <1>2, <1>3, <1>4, <1>5 DEF Next, ReaderStep

\* Nobody, on any interleaving, leaves the state that SkipInv describes: the
\* list is whole on every level between any two stores of the writer.
THEOREM SkipListInvariant == Spec => []SkipInv
<1>1. Init => SkipInv
  BY SkipInit
<1>2. SkipInv /\ [Next]_vars => SkipInv'
  BY SkipStep
<1> QED BY <1>1, <1>2, PTL DEF Spec

\* Every node that the writer or a reader stands at has been filled in
\* (PointersAreFilledIn): nobody walks into memory that Insert() has not set.
LEMMA FilledIn == SkipInv => PointersAreFilledIn
<1> SUFFICES ASSUME SkipInv PROVE PointersAreFilledIn
  OBVIOUS
<1>1. /\ next \in [Nodes -> [Levels -> Key \cup {Nil, Raw}]]
      /\ heights \subseteq Heights /\ 1 \in heights
  BY DEF SkipInv, ListInv, NextType, HeightsType
<1>2. /\ writer.pc \in {"idle", "find", "height", "link", "publish"}
      /\ writer.x \in Nodes /\ writer.key \in Key \cup {Nil}
  BY DEF SkipInv, WriterInv, WriterType
<1>3. ASSUME NEW r \in Readers
      PROVE  /\ cursor[r].at \in Linked(0) \cup {Nil}
             /\ cursor[r].find.x \in Linked(0) \cup {HeadNode}
             /\ cursor[r].find.level \in Levels
  <2>1. Standing(cursor[r], known[r])
    BY DEF SkipInv, ReaderInv
  <2>2. cursor[r].find.level \in Levels /\ cursor[r].at \in Linked(0) \cup {Nil}
    BY <2>1 DEF Standing, Cursor, Search
  <2>3. Linked(cursor[r].find.level) \subseteq Linked(0)
    BY <2>2, LevelsAreNat DEF SkipInv, ListInv, Nested
  <2> QED BY <2>1, <2>2, <2>3 DEF Standing, On
<1> QED BY <1>1, <1>2, <1>3 DEF PointersAreFilledIn

\* Every node a reader or Insert() comes to by Next() has been filled in
\* (PointersAreFilledIn), whatever the interleaving of their loads and stores.
THEOREM ListFilledIn == Spec => []PointersAreFilledIn
BY SkipListInvariant, FilledIn, PTL

\* The lists are sorted, each node has one predecessor, and a level holds only
\* nodes of the level below (LevelsAreSorted), in the middle of an Insert()
\* too.
LEMMA Sorted == SkipInv => LevelsAreSorted
<1> SUFFICES ASSUME SkipInv, NEW l \in Levels
    PROVE  /\ l > 0 => Linked(l) \subseteq Linked(l - 1)
           /\ \A n \in Linked(l) : next[n][l] \in Key => Before(n, next[n][l])
           /\ \A k \in Linked(l) : Cardinality({n \in On(l) : next[n][l] = k}) = 1
  BY DEF LevelsAreSorted, On
<1>1. ASSUME l > 0 PROVE Linked(l) \subseteq Linked(l - 1)
  BY <1>1, LevelsAreNat DEF SkipInv, ListInv, Nested
<1>2. \A n \in On(l) :
         /\ next[n][l] \in Key => Follows(n, next[n][l])
         /\ \A m \in Linked(l) : Follows(n, m) => next[n][l] \in Key /\ ~Before(m, next[n][l])
  BY DEF SkipInv, ListInv, Gapless
<1>3. \A n \in Linked(l) : n \in On(l) /\ n \in Key /\ n # HeadNode
  BY LinkedIn, HeadIsNoKey DEF On
<1>4. \A n \in Linked(l) : next[n][l] \in Key => Before(n, next[n][l])
  BY <1>2, <1>3 DEF Follows
<1>5. ASSUME NEW k \in Linked(l) PROVE Cardinality({n \in On(l) : next[n][l] = k}) = 1
  <2>1. \E n \in On(l) : next[n][l] = k
    <3>1. PICK n \in Nodes : next[n][l] = k /\ k \in Key
      BY DEF Linked
    <3>2. CASE n \in On(l)
      BY <3>1, <3>2
    <3>3. CASE n \notin On(l)
      <4>1. n \in Key \ Linked(l)
        BY <3>3 DEF On, Nodes
      <4>2. writer.pc = "publish" /\ n = writer.key /\ l = writer.level
        BY <4>1, <3>1, HeadIsNoKey DEF SkipInv, ListInv, RawUntilLinked
      <4>3. next[writer.prev[l]][l] = k /\ writer.prev[l] \in On(l)
        <5>1. next[writer.key][writer.level] = next[writer.prev[writer.level]][writer.level]
          BY <4>2 DEF SkipInv, WriterInv, WriterPublishes
        <5>2. Place(writer.prev[writer.level], writer.key, writer.level)
          BY <4>2, LinkingFacts
        <5> QED BY <5>1, <5>2, <4>2, <3>1 DEF Place
      <4> QED BY <4>3
    <3> QED BY <3>2, <3>3
  <2>2. ASSUME NEW n \in On(l), NEW m \in On(l), next[n][l] = k, next[m][l] = k, n # m
        PROVE  FALSE
    <3>1. n = HeadNode \/ n \in Linked(l)
      BY DEF On
    <3>2. m = HeadNode \/ m \in Linked(l)
      BY DEF On
    <3>3. k \in Key /\ Follows(n, k) /\ Follows(m, k)
      BY <2>2, <1>2, <1>3
    <3>4. n \in Linked(l) => ~Follows(m, n)
      BY <2>2, <3>3, <1>2, <1>3 DEF Follows
    <3>5. m \in Linked(l) => ~Follows(n, m)
      BY <2>2, <3>3, <1>2, <1>3 DEF Follows
    <3> QED BY <2>2, <3>1, <3>2, <3>4, <3>5, <1>3, OrderIsStrict DEF Follows
  <2>3. PICK n \in On(l) : next[n][l] = k
    BY <2>1
  <2>4. {m \in On(l) : next[m][l] = k} = {n}
    BY <2>2, <2>3
  <2> QED BY <2>4, FS_Singleton
<1> QED BY <1>1, <1>4, <1>5

\* Insert() keeps every level sorted and a part of the level below it between
\* any two of its stores (LevelsAreSorted).
THEOREM ListSorted == Spec => []LevelsAreSorted
BY SkipListInvariant, Sorted, PTL

---------------------------------------------------------------------------
(* The list is an ordered set to readers that take no lock: OrderedSet     *)

At    == [r \in Readers |-> cursor[r].at]
Moves == [r \in Readers |-> [op |-> cursor[r].find.op, bound |-> cursor[r].find.bound]]

PVars == <<Linked(0), At, Moves, known>>

\* What an answer is, for each kind of move
LEMMA SeekAnswers ==
  ASSUME NEW n, NEW b, NEW was, NEW now,
         n = Nil \/ (n \in now /\ ~Before(n, b)),
         \A k \in was : ~Before(k, b) => n # Nil /\ (n = k \/ Before(n, k))
  PROVE  Promise!Answers(n, "seek", b, was, now)
BY DEF Promise!Answers, Promise!Reach, Promise!Forward

LEMMA PrevAnswers ==
  ASSUME NEW n, NEW b, NEW was, NEW now,
         n = Nil \/ (n \in now /\ Before(n, b)),
         \A k \in was : Before(k, b) => n # Nil /\ (n = k \/ Before(k, n))
  PROVE  Promise!Answers(n, "prev", b, was, now)
BY DEF Promise!Answers, Promise!Reach, Promise!Forward

LEMMA LastAnswers ==
  ASSUME NEW n, NEW b, NEW was, NEW now,
         n = Nil \/ n \in now,
         \A k \in was : n # Nil /\ (n = k \/ Before(k, n))
  PROVE  Promise!Answers(n, "last", b, was, now)
BY DEF Promise!Answers, Promise!Reach, Promise!Forward

LEMMA FirstAnswers ==
  ASSUME NEW n, NEW b, NEW was, NEW now,
         n = Nil \/ n \in now,
         \A k \in was : n # Nil /\ (n = k \/ Before(n, k))
  PROVE  Promise!Answers(n, "first", b, was, now)
BY DEF Promise!Answers, Promise!Reach, Promise!Forward

LEMMA NextAnswers ==
  ASSUME NEW n, NEW b, NEW was, NEW now,
         n = Nil \/ (n \in now /\ Before(b, n)),
         \A k \in was : Before(b, k) => n # Nil /\ (n = k \/ Before(n, k))
  PROVE  Promise!Answers(n, "next", b, was, now)
BY DEF Promise!Answers, Promise!Reach, Promise!Forward

\* The node after n in level 0 is the nearest key after it.
LEMMA NextIsNearest ==
  ASSUME SkipInv, NEW n \in On(0)
  PROVE  /\ next[n][0] \in Linked(0) \cup {Nil}
         /\ next[n][0] # Nil => Follows(n, next[n][0])
         /\ \A k \in Linked(0) :
               Follows(n, k) => next[n][0] # Nil /\ (next[n][0] = k \/ Before(next[n][0], k))
<1>1. n \in Nodes /\ 0 \in Levels /\ Linked(0) \subseteq Key
  BY LinkedIn, LevelsAreNat
<1>2. /\ next[n][0] # Raw /\ next[n][0] \in Key \cup {Nil, Raw}
      /\ next[n][0] \in Key => Follows(n, next[n][0])
      /\ \A m \in Linked(0) : Follows(n, m) => next[n][0] \in Key /\ ~Before(m, next[n][0])
  BY <1>1 DEF SkipInv, ListInv, Gapless, NextType
<1>3. next[n][0] \in Key => next[n][0] \in Linked(0)
  BY <1>1 DEF Linked
<1> QED BY <1>1, <1>2, <1>3, OrderIsStrict, HeadIsNoKey

\* Where the loop of a search ends is the answer to it.
LEMMA SearchEndsAnswers ==
  ASSUME SkipInv, NEW r \in Readers, cursor[r].find.op # "idle", cursor[r].find.level = 0,
         ~Passes(cursor[r].find)
  PROVE  LET s == cursor[r].find
         IN  Promise!Answers(IF s.op = "seek" THEN Loaded(s)
                             ELSE IF s.x = HeadNode THEN Nil ELSE s.x,
                             s.op, s.bound, known[r], Linked(0))
<1>1. PICK s, was : s = cursor[r].find /\ was = known[r]
  OBVIOUS
<1>2. PICK n : n = next[s.x][0]
  OBVIOUS
<1>3. Loaded(s) = n /\ s.level = 0
  BY <1>1, <1>2 DEF Loaded
<1>4. /\ s \in Search /\ s.x \in On(0)
      /\ s.op \in {"seek", "prev"} => s.bound \in Key /\ Follows(s.x, s.bound)
  BY <1>1, LoadedIsNext DEF SkipInv
<1>5. was \subseteq Linked(0) /\ Linked(0) \subseteq Key
  BY <1>1, LinkedIn DEF SkipInv, ReaderInv, Standing
<1>6. /\ n \in Linked(0) \cup {Nil}
      /\ \A k \in Linked(0) : Follows(s.x, k) => n # Nil /\ (n = k \/ Before(n, k))
  BY <1>2, <1>4, NextIsNearest
<1>7. s.x = HeadNode \/ (s.x \in Linked(0) /\ s.x \in Key /\ s.x # HeadNode /\ s.x # Nil)
  BY <1>4, LinkedIn, HeadIsNoKey DEF On
<1>8. CASE s.op = "seek"
  <2>1. n = Nil \/ ~Before(n, s.bound)
    BY <1>1, <1>3, <1>8 DEF Passes, KeyIsAfterNode
  <2>2. \A k \in was : ~Before(k, s.bound) => n # Nil /\ (n = k \/ Before(n, k))
    <3>1. TAKE k \in was
    <3>2. ~Before(k, s.bound) => Follows(s.x, k)
      BY <1>4, <1>5, <1>7, <1>8, OrderIsStrict DEF Follows
    <3> QED BY <3>2, <1>5, <1>6
  <2>3. Promise!Answers(n, "seek", s.bound, was, Linked(0))
    BY <2>1, <2>2, <1>6, SeekAnswers
  <2> QED BY <2>3, <1>1, <1>3, <1>8
<1>9. CASE s.op = "prev"
  <2>1. PICK m : m = IF s.x = HeadNode THEN Nil ELSE s.x
    OBVIOUS
  <2>2. n = Nil \/ ~Before(n, s.bound)
    BY <1>1, <1>3, <1>9 DEF Passes, KeyIsAfterNode
  <2>3. m = Nil \/ (m \in Linked(0) /\ Before(m, s.bound))
    BY <2>1, <1>4, <1>7, <1>9 DEF Follows
  <2>4. \A k \in was : Before(k, s.bound) => m # Nil /\ (m = k \/ Before(k, m))
    <3>1. TAKE k \in was
    <3>2. Before(k, s.bound) => ~Follows(s.x, k)
      BY <2>2, <1>4, <1>5, <1>6, <1>9, OrderIsStrict
    <3> QED BY <3>2, <2>1, <1>5, <1>7, OrderIsStrict DEF Follows
  <2>5. Promise!Answers(m, "prev", s.bound, was, Linked(0))
    BY <2>3, <2>4, PrevAnswers
  <2> QED BY <2>1, <2>5, <1>1, <1>9
<1>10. CASE s.op = "last"
  <2>1. PICK m : m = IF s.x = HeadNode THEN Nil ELSE s.x
    OBVIOUS
  <2>2. n = Nil
    BY <1>1, <1>3, <1>10 DEF Passes
  <2>3. m = Nil \/ m \in Linked(0)
    BY <2>1, <1>7
  <2>4. \A k \in was : m # Nil /\ (m = k \/ Before(k, m))
    BY <2>1, <2>2, <1>5, <1>6, <1>7, OrderIsStrict DEF Follows
  <2>5. Promise!Answers(m, "last", s.bound, was, Linked(0))
    BY <2>3, <2>4, LastAnswers
  <2> QED BY <2>1, <2>5, <1>1, <1>10
<1> QED BY <1>1, <1>4, <1>8, <1>9, <1>10 DEF Search

\* What the abstract set sees of a step of a reader
Seen(r, c, was) ==
    /\ At' = [At EXCEPT ![r] = c.at]
    /\ Moves' = [Moves EXCEPT ![r] = [op |-> c.find.op, bound |-> c.find.bound]]
    /\ known' = [known EXCEPT ![r] = was]
    /\ Linked(0)' = Linked(0)
    /\ At[r] = cursor[r].at
    /\ Moves[r] = [op |-> cursor[r].find.op, bound |-> cursor[r].find.bound]
    /\ cursor[r].find.op = "idle" => Moves[r] = Promise!NoMove
    /\ [At EXCEPT ![r] = cursor[r].at] = At
    /\ [Moves EXCEPT ![r] = [op |-> cursor[r].find.op, bound |-> cursor[r].find.bound]] = Moves
    /\ [known EXCEPT ![r] = known[r]] = known

LEMMA ReaderSeen ==
  ASSUME SkipInv, NEW r \in Readers, NEW c, NEW was, ReaderMoves(r, c, was)
  PROVE  Seen(r, c, was)
<1>1. cursor \in [Readers -> Cursor] /\ known \in [Readers -> SUBSET Key]
  BY DEF SkipInv, ReaderInv
<1>2. At' = [At EXCEPT ![r] = c.at]
  BY <1>1 DEF ReaderMoves, At
<1>3. Moves' = [Moves EXCEPT ![r] = [op |-> c.find.op, bound |-> c.find.bound]]
  BY <1>1 DEF ReaderMoves, Moves
<1>4. known' = [known EXCEPT ![r] = was] /\ Linked(0)' = Linked(0)
  BY ListStays DEF ReaderMoves
<1>5. cursor[r].find.op = "idle" => cursor[r].find.bound = Nil
  BY DEF SkipInv, ReaderInv, Standing, NoSearch
<1>6. /\ At[r] = cursor[r].at
      /\ Moves[r] = [op |-> cursor[r].find.op, bound |-> cursor[r].find.bound]
  BY DEF At, Moves
<1>7. cursor[r].find.op = "idle" => Moves[r] = Promise!NoMove
  BY <1>5, <1>6 DEF Promise!NoMove
<1>8. [At EXCEPT ![r] = cursor[r].at] = At
  BY DEF At
<1>9. [Moves EXCEPT ![r] = [op |-> cursor[r].find.op, bound |-> cursor[r].find.bound]] = Moves
  BY DEF Moves
<1>10. [known EXCEPT ![r] = known[r]] = known
  BY <1>1
<1> QED BY <1>2, <1>3, <1>4, <1>6, <1>7, <1>8, <1>9, <1>10 DEF Seen

\* A search begins.
LEMMA BeginImplements ==
  ASSUME SkipInv, NEW r \in Readers, NEW op \in {"seek", "prev", "last"},
         NEW k \in Key \cup {Nil}, op # "last" => k \in Key, BeginSearch(r, op, k)
  PROVE  Promise!Begin(r, op, k)
<1>1. PICK c : /\ ReaderMoves(r, c, Linked(0))
               /\ c.at = cursor[r].at /\ c.find.op = op /\ c.find.bound = k
  BY BeginMoves DEF SkipInv
<1>2. cursor[r].find.op = "idle"
  BY DEF BeginSearch
<1>3. Seen(r, c, Linked(0))
  BY <1>1, ReaderSeen
<1>4. /\ Moves[r] = Promise!NoMove
      /\ Moves' = [Moves EXCEPT ![r] = [op |-> op, bound |-> k]]
      /\ known' = [known EXCEPT ![r] = Linked(0)]
      /\ Linked(0)' = Linked(0) /\ At' = At
  BY <1>1, <1>2, <1>3 DEF Seen
<1> QED BY <1>4 DEF Promise!Begin, At, Moves

LEMMA SearchEndsImplements ==
  ASSUME SkipInv, NEW r \in Readers, SearchEnds(r)
  PROVE  Moves[r] # Promise!NoMove /\ \E n \in Linked(0) \cup {Nil} : Promise!End(r, n)
<1>1. PICK s : s = cursor[r].find
  OBVIOUS
<1>2. PICK n : n = IF s.op = "seek" THEN Loaded(s) ELSE IF s.x = HeadNode THEN Nil ELSE s.x
  OBVIOUS
<1>3. PICK c : /\ ReaderMoves(r, c, {}) /\ Standing(c, {})
               /\ s.op # "idle" /\ ~Passes(s) /\ s.level = 0
               /\ c.at = n /\ c.find = NoSearch
  BY <1>1, <1>2, SearchEndsMoves DEF SkipInv
<1>4. n \in Linked(0) \cup {Nil}
  BY <1>3 DEF Standing
<1>5. c.find.op = "idle" /\ c.find.bound = Nil
  BY <1>3 DEF NoSearch
<1>6. /\ At' = [At EXCEPT ![r] = n]
      /\ Moves' = [Moves EXCEPT ![r] = Promise!NoMove]
      /\ known' = [known EXCEPT ![r] = {}]
      /\ Linked(0)' = Linked(0)
  <2>1. /\ At' = [At EXCEPT ![r] = c.at]
        /\ Moves' = [Moves EXCEPT ![r] = [op |-> c.find.op, bound |-> c.find.bound]]
        /\ known' = [known EXCEPT ![r] = {}]
        /\ Linked(0)' = Linked(0)
    <3>1. Seen(r, c, {})
      BY <1>3, ReaderSeen
    <3> QED BY <3>1 DEF Seen
  <2> QED BY <2>1, <1>3, <1>5 DEF Promise!NoMove
<1>7. Moves[r].op = s.op /\ Moves[r].bound = s.bound
  BY <1>1 DEF Moves
<1>8. Promise!Answers(n, s.op, s.bound, known[r], Linked(0))
  BY <1>1, <1>2, <1>3, SearchEndsAnswers
<1>9. Promise!Answers(n, Moves[r].op, Moves[r].bound, known[r], Linked(0))
  BY <1>7, <1>8
<1>10. Promise!End(r, n)
  BY <1>6, <1>9 DEF Promise!End, At, Moves
<1>11. Moves[r] # Promise!NoMove
  BY <1>3, <1>7 DEF Promise!NoMove
<1> QED BY <1>4, <1>10, <1>11

LEMMA StepToImplements ==
  ASSUME SkipInv, NEW r \in Readers, NEW n \in Linked(0) \cup {Nil}, StepTo(r, n)
  PROVE  /\ Moves[r] = Promise!NoMove
         /\ At' = [At EXCEPT ![r] = n]
         /\ Linked(0)' = Linked(0) /\ Moves' = Moves /\ known' = known
<1>1. PICK c : /\ ReaderMoves(r, c, known[r]) /\ c.at = n /\ c.find = cursor[r].find
  BY StepToMoves DEF SkipInv
<1>2. cursor[r].find.op = "idle"
  BY DEF StepTo
<1>3. Seen(r, c, known[r])
  BY <1>1, ReaderSeen
<1> QED BY <1>1, <1>2, <1>3 DEF Seen

\* A turn of a loop is no step of the abstract set.
LEMMA SearchOnImplements ==
  ASSUME SkipInv, NEW r \in Readers, SearchOn(r)
  PROVE  UNCHANGED PVars
<1>1. PICK c : /\ ReaderMoves(r, c, known[r]) /\ c.at = cursor[r].at
               /\ c.find.op = cursor[r].find.op /\ c.find.bound = cursor[r].find.bound
  BY SearchOnMoves DEF SkipInv
<1>2. Seen(r, c, known[r])
  BY <1>1, ReaderSeen
<1>3. /\ At' = At /\ Moves' = Moves /\ known' = known /\ Linked(0)' = Linked(0)
  BY <1>1, <1>2 DEF Seen
<1> QED BY <1>3 DEF PVars

LEMMA ReaderImplements ==
  ASSUME SkipInv, NEW r \in Readers, ReaderStep(r)
  PROVE  Promise!Next \/ UNCHANGED PVars
<1>1. Linked(0) \subseteq Key
  BY LinkedIn
<1>2. ASSUME NEW k \in Key, Seek(r, k) PROVE Promise!Next
  <2>1. Promise!Begin(r, "seek", k)
    BY <1>2, BeginImplements DEF Seek
  <2> QED BY <2>1 DEF Promise!Next
<1>3. CASE Prev(r)
  <2>1. cursor[r].at \in Key /\ cursor[r].at # Nil
    BY <1>1, <1>3 DEF Prev, SkipInv, ReaderInv, Standing
  <2>2. PICK k \in Key : k = cursor[r].at
    BY <2>1
  <2>3. BeginSearch(r, "prev", k)
    BY <1>3, <2>2 DEF Prev
  <2>4. Promise!Begin(r, "prev", k)
    BY <2>3, BeginImplements
  <2>5. At[r] = k /\ k # Nil
    BY <2>1, <2>2 DEF At
  <2>6. At[r] # Nil /\ Promise!Begin(r, "prev", At[r])
    BY <2>4, <2>5 DEF Promise!Begin
  <2> QED BY <2>6 DEF Promise!Next, At
<1>4. CASE SeekToLast(r)
  <2>1. Promise!Begin(r, "last", Nil)
    BY <1>4, BeginImplements DEF SeekToLast
  <2> QED BY <2>1 DEF Promise!Next
<1>5. CASE NewIterator(r)
  <2>1. /\ Moves[r] = Promise!NoMove
        /\ At' = [At EXCEPT ![r] = Nil]
        /\ Linked(0)' = Linked(0) /\ Moves' = Moves /\ known' = known
    BY <1>5, StepToImplements DEF NewIterator
  <2>2. Promise!Reset(r)
    BY <2>1 DEF Promise!Reset, At, Moves
  <2> QED BY <2>2 DEF Promise!Next
<1>6. CASE SeekToFirst(r)
  <2>1. PICK n : n = next[HeadNode][0]
    OBVIOUS
  <2>2. /\ n \in Linked(0) \cup {Nil}
        /\ \A k \in Linked(0) : n # Nil /\ (n = k \/ Before(n, k))
    BY <2>1, NextIsNearest DEF On, Follows
  <2>3. /\ Moves[r] = Promise!NoMove
        /\ At' = [At EXCEPT ![r] = n]
        /\ Linked(0)' = Linked(0) /\ Moves' = Moves /\ known' = known
    BY <1>6, <2>1, <2>2, StepToImplements DEF SeekToFirst
  <2>4. Promise!Answers(n, "first", At[r], Linked(0), Linked(0))
    BY <2>2, FirstAnswers
  <2>5. Promise!Jump(r, "first", n)
    BY <2>3, <2>4 DEF Promise!Jump, At, Moves
  <2> QED BY <2>2, <2>5 DEF Promise!Next
<1>7. CASE NextNode(r)
  <2>1. PICK a, n : a = cursor[r].at /\ n = next[a][0]
    OBVIOUS
  <2>2. a \in Linked(0) /\ a \in On(0) /\ a # HeadNode /\ a # Nil
    BY <1>1, <1>7, <2>1, HeadIsNoKey DEF NextNode, SkipInv, ReaderInv, Standing, On
  <2>3. /\ n \in Linked(0) \cup {Nil}
        /\ n # Nil => Before(a, n)
        /\ \A k \in Linked(0) : Before(a, k) => n # Nil /\ (n = k \/ Before(n, k))
    BY <2>1, <2>2, NextIsNearest DEF Follows
  <2>4. /\ Moves[r] = Promise!NoMove
        /\ At' = [At EXCEPT ![r] = n]
        /\ Linked(0)' = Linked(0) /\ Moves' = Moves /\ known' = known
    BY <1>7, <2>1, <2>3, StepToImplements DEF NextNode
  <2>5. Promise!Answers(n, "next", a, Linked(0), Linked(0))
    BY <2>3, NextAnswers
  <2>6. At[r] = a
    BY <2>1 DEF At
  <2>7. At[r] # Nil /\ Promise!Jump(r, "next", n)
    <3>1. Promise!Answers(n, "next", At[r], Linked(0), Linked(0))
      BY <2>5, <2>6
    <3> QED BY <2>2, <2>4, <2>6, <3>1 DEF Promise!Jump, At, Moves
  <2> QED BY <2>3, <2>7 DEF Promise!Next, At
<1>8. CASE SearchOn(r)
  BY <1>8, SearchOnImplements
<1>9. CASE SearchEnds(r)
  <2>1. Moves[r] # Promise!NoMove /\ \E n \in Linked(0) \cup {Nil} : Promise!End(r, n)
    BY <1>9, SearchEndsImplements
  <2> QED BY <2>1 DEF Promise!Next, Moves
<1> QED BY <1>2, <1>3, <1>4, <1>5, <1>6, <1>7, <1>8, <1>9 DEF ReaderStep, Move, Turn

\* Of Insert() the abstract set sees one store: the one that links the node
\* in level 0.
LEMMA WriterImplements ==
  ASSUME SkipInv,
         \/ \E k \in Key : Insert(k)
         \/ \E h \in Heights : ChooseHeight(h)
         \/ Write
  PROVE  Promise!Next \/ UNCHANGED PVars
<1>1. UNCHANGED cursor /\ UNCHANGED known
  BY DEF Insert, ChooseHeight, Write, FindPrev, LinkNode, PublishNode
<1>2. At' = At /\ Moves' = Moves /\ known' = known
  BY <1>1 DEF At, Moves
<1>3. CASE \/ \E k \in Key : Insert(k)
           \/ \E h \in Heights : ChooseHeight(h)
           \/ FindPrev
  <2>1. UNCHANGED next
    BY <1>3 DEF Insert, ChooseHeight, FindPrev
  <2> QED BY <1>2, <2>1, ListStays DEF PVars
<1>4. CASE LinkNode
  <2>1. Linked(0)' = Linked(0)
    BY <1>4, LinkNodeLinks, LevelsAreNat
  <2> QED BY <1>2, <2>1 DEF PVars
<1>5. CASE PublishNode
  <2>1. Linked(0)' = IF 0 = writer.level THEN Linked(0) \cup {writer.key} ELSE Linked(0)
    BY <1>5, PublishNodeLinks, LevelsAreNat
  <2>2. CASE writer.level = 0
    <3>1. writer.key \in Key
      BY <1>5, LinkingFacts DEF PublishNode
    <3>2. Promise!Add(writer.key)
      BY <2>1, <2>2, <1>2 DEF Promise!Add, At, Moves
    <3> QED BY <3>1, <3>2 DEF Promise!Next
  <2>3. CASE writer.level # 0
    BY <2>1, <2>3, <1>2 DEF PVars
  <2> QED BY <2>2, <2>3
<1> QED BY <1>3, <1>4, <1>5 DEF Write

LEMMA StepImplements == SkipInv /\ [Next]_vars => [Promise!Next]_PVars
<1> SUFFICES ASSUME SkipInv, [Next]_vars PROVE Promise!Next \/ UNCHANGED PVars
  OBVIOUS
<1>1. CASE UNCHANGED vars
  <2>1. UNCHANGED next /\ UNCHANGED cursor /\ UNCHANGED known
    BY <1>1 DEF vars
  <2> QED BY <2>1, ListStays DEF PVars, At, Moves
<1>2. ASSUME NEW r \in Readers, ReaderStep(r) PROVE Promise!Next \/ UNCHANGED PVars
  BY <1>2, ReaderImplements
<1>3. CASE \/ \E k \in Key : Insert(k)
           \/ \E h \in Heights : ChooseHeight(h)
           \/ Write
  BY <1>3, WriterImplements
<1> QED BY <1>1, <1>2, <1>3 DEF Next, ReaderStep

LEMMA InitImplements == Init => Promise!Init
<1> SUFFICES ASSUME Init PROVE Promise!Init
  OBVIOUS
<1>1. Linked(0) = {}
  BY HeadIsNoKey, LevelsAreNat DEF Init, Linked
<1>2. At = [r \in Readers |-> Nil]
  BY DEF Init, At
<1>3. Moves = [r \in Readers |-> Promise!NoMove]
  BY DEF Init, Moves, NoSearch, Promise!NoMove
<1>4. known = [r \in Readers |-> {}]
  BY DEF Init
<1> QED BY <1>1, <1>2, <1>3, <1>4 DEF Promise!Init, At, Moves

\* Readers that take no lock see a set that only grows, and their moves miss
\* nothing that was there when they began, whatever Insert() is in the middle
\* of (IsAnOrderedSet): the skip list implements OrderedSet.
THEOREM ListIsAnOrderedSet == Spec => IsAnOrderedSet
<1>1. Init => Promise!Init
  BY InitImplements
<1>2. SkipInv /\ [Next]_vars => [Promise!Next]_PVars
  BY StepImplements
<1>3. [Promise!Next]_PVars => [Promise!Next]_<<Linked(0), At, Moves, known>>
  BY DEF PVars
<1> QED BY <1>1, <1>2, SkipListInvariant, PTL DEF Spec, IsAnOrderedSet, Promise!Spec, PVars, At, Moves

---------------------------------------------------------------------------
(* The memtable *)

LEMMA EntriesAreOrdered ==
  /\ Key = Entry
  /\ \A e \in Entry : /\ e \in [user : Users, seq : 0 .. MaxSequence, type : {0, 1}]
                      /\ e.user \in Nat /\ e.seq \in Nat /\ e.seq <= MaxSequence /\ e.type \in {0, 1}
  /\ \A a, b \in Entry :
        Before(a, b) <=> \/ a.user < b.user
                         \/ a.user = b.user /\ a.seq * 256 + a.type > b.seq * 256 + b.type
<1>1. Key = Entry /\ \A a, b \in Entry : Before(a, b) <=> EntryBefore(a, b)
  BY EntriesAreKeys
<1>2. \A e \in Entry : /\ e \in [user : Users, seq : 0 .. MaxSequence, type : {0, 1}]
                       /\ e.user \in Nat /\ e.seq \in Nat /\ e.seq <= MaxSequence /\ e.type \in {0, 1}
  <2>1. TAKE e \in Entry
  <2>2. e \in [user : Users, seq : 0 .. MaxSequence, type : {0, 1}]
    BY DEF Entry, kTypeDeletion, kTypeValue
  <2>3. e.user \in Users /\ e.seq \in 0 .. MaxSequence /\ e.type \in {0, 1}
    BY <2>2
  <2>4. Users \subseteq Nat /\ MaxSequence \in Nat
    BY MemTableAssumption
  <2>5. e.user \in Nat /\ e.seq \in Nat /\ e.seq <= MaxSequence
    <3>1. PICK M, s : M = MaxSequence /\ s = e.seq
      OBVIOUS
    <3>2. M \in Nat /\ s \in 0 .. M
      BY <3>1, <2>3, <2>4
    <3>3. s \in Nat /\ s <= M
      BY <3>2
    <3> QED BY <3>1, <3>3, <2>3, <2>4
  <2> QED BY <2>2, <2>3, <2>5
<1> QED BY <1>1, <1>2 DEF EntryBefore, Packed

LEMMA LookupKeyIsEntry ==
  ASSUME NEW u \in Users, NEW s \in 0 .. MaxSequence
  PROVE  /\ LookupKey(u, s) \in Entry
         /\ LookupKey(u, s) = [user |-> u, seq |-> s, type |-> 1]
BY DEF LookupKey, Entry, kTypeValue

\* An entry is not before the lookup key of a user key when it is of a later
\* user key, or of this one and not newer than the number.
LEMMA NotBeforeLookup ==
  ASSUME NEW u \in Users, NEW s \in 0 .. MaxSequence, NEW e \in Entry
  PROVE  ~Before(e, LookupKey(u, s)) <=> (u < e.user \/ (u = e.user /\ e.seq <= s))
<1>1. PICK k \in Entry : k = LookupKey(u, s)
  BY LookupKeyIsEntry
<1>2. k.user = u /\ k.seq = s /\ k.type = 1
  BY <1>1, LookupKeyIsEntry
<1>3. u \in Nat /\ s \in Nat /\ e.user \in Nat /\ e.seq \in Nat /\ e.type \in {0, 1}
  BY EntriesAreOrdered, MemTableAssumption
<1>4. Before(e, k) <=> e.user < u \/ (e.user = u /\ e.seq * 256 + e.type > s * 256 + 1)
  BY <1>2, EntriesAreOrdered
<1>5. e.seq * 256 + e.type > s * 256 + 1 <=> e.seq > s
  BY <1>3
<1> QED BY <1>1, <1>3, <1>4, <1>5

\* Of two entries of a user key the later one comes first.
LEMMA NewestFirst ==
  ASSUME NEW a \in Entry, NEW b \in Entry
  PROVE  /\ Before(a, b) => a.user <= b.user
         /\ Before(a, b) /\ a.user = b.user => b.seq <= a.seq
<1>1. /\ a.user \in Nat /\ a.seq \in Nat /\ a.type \in {0, 1}
      /\ b.user \in Nat /\ b.seq \in Nat /\ b.type \in {0, 1}
  BY EntriesAreOrdered
<1>2. Before(a, b) <=> \/ a.user < b.user
                       \/ a.user = b.user /\ a.seq * 256 + a.type > b.seq * 256 + b.type
  BY EntriesAreOrdered
<1>3. a.seq * 256 + a.type > b.seq * 256 + b.type => b.seq <= a.seq
  BY <1>1
<1> QED BY <1>1, <1>2, <1>3

\* The sequence numbers in the list are 1 to Added, each there once; the one
\* that is on its way is the next.
Numbered ==
    /\ IsFiniteSet(Linked(0))
    /\ \A e \in Linked(0) : 1 <= e.seq /\ e.seq <= Added
    /\ \A e, f \in Linked(0) : e.seq = f.seq => e = f
    /\ writer.pc # "idle" /\ writer.key \notin Linked(0) => writer.key.seq = Added + 1
    /\ lastSequence \in Nat /\ lastSequence <= Added /\ Added <= MaxSequence
    /\ writer.pc # "idle" /\ writer.key \notin Linked(0) => Added < MaxSequence

\* A Get() that is looking, and one that has found: no entry of its user key
\* that it may see is nearer than where it stands.
Looks(c, was, u, s) ==
    c.find.op # "idle" =>
       /\ c.find.op = "seek" /\ c.find.bound = LookupKey(u, s)
       /\ \A e \in Linked(0) : e.seq <= s => e \in was
Stands(c, u, s) ==
    c.find.op = "idle" =>
       /\ c.at = Nil \/ (c.at \in Linked(0) /\ ~Before(c.at, LookupKey(u, s)))
       /\ \A e \in Linked(0) :
             e.seq <= s /\ ~Before(e, LookupKey(u, s)) => c.at # Nil /\ (c.at = e \/ Before(c.at, e))
GetIs(c, was, g) ==
    /\ g \in [user : Users, seq : 0 .. MaxSequence] /\ g.seq <= lastSequence
    /\ Looks(c, was, g.user, g.seq) /\ Stands(c, g.user, g.seq)
Gets == /\ lookup \in [Readers -> [user : Users, seq : 0 .. MaxSequence] \cup {Nil}]
        /\ \A r \in Readers : lookup[r] # Nil => GetIs(cursor[r], known[r], lookup[r])

GetInv == SkipInv /\ Numbered /\ Gets

LEMMA AddedIsNat ==
  ASSUME Numbered
  PROVE  Added \in Nat /\ MaxSequence \in Nat
BY FS_CardinalityType, MemTableAssumption DEF Numbered, Added

LEMMA AddInserts ==
  ASSUME Numbered, NEW up \in Updates, Add(up)
  PROVE  /\ Added < MaxSequence /\ UNCHANGED <<lastSequence, lookup>>
         /\ \E k \in Key : Insert(k) /\ k.seq = Added + 1
<1>1. PICK n : n = Added
  OBVIOUS
<1>2. PICK k : k = [user |-> up.user, seq |-> n + 1, type |-> up.type]
  OBVIOUS
<1>3. n < MaxSequence /\ Insert(k) /\ UNCHANGED <<lastSequence, lookup>>
  BY <1>1, <1>2 DEF Add
<1>4. up.user \in Users /\ up.type \in {0, 1}
  BY MemTableAssumption DEF kTypeDeletion, kTypeValue
<1>5. n + 1 \in 0 .. MaxSequence /\ n + 1 > 0
  BY <1>1, <1>3, AddedIsNat
<1>6. k \in Entry /\ k.seq = n + 1
  BY <1>2, <1>4, <1>5 DEF Entry, kTypeDeletion, kTypeValue
<1> QED BY <1>1, <1>3, <1>6, EntriesAreOrdered

\* Every step of the memtable is a step of its list, or none.
LEMMA MemStepIsListStep == Numbered /\ [MemNext]_memVars => [Next]_vars
<1> SUFFICES ASSUME Numbered, [MemNext]_memVars PROVE Next \/ UNCHANGED vars
  OBVIOUS
<1>1. CASE UNCHANGED memVars
  BY <1>1 DEF memVars
<1>2. ASSUME NEW up \in Updates, Add(up) PROVE Next
  BY <1>2, AddInserts DEF Next
<1>3. ASSUME NEW h \in Heights, AllocateNode(h) PROVE Next
  BY <1>3 DEF AllocateNode, Next
<1>4. CASE WriteStep
  BY <1>4 DEF WriteStep, Next
<1>5. CASE BatchEnds
  BY <1>5 DEF BatchEnds
<1>6. ASSUME NEW r \in Readers,
             (\E u \in Users : Get(r, u)) \/ GetReturns(r) \/ Iterate(r) \/ ReadStep(r)
      PROVE  ReaderStep(r)
  <2>1. lastSequence \in 0 .. MaxSequence
    BY AddedIsNat DEF Numbered
  <2>2. \A u \in Users : LookupKey(u, lastSequence) \in Key
    BY <2>1, LookupKeyIsEntry, EntriesAreOrdered
  <2>3. ASSUME NEW u \in Users, Get(r, u) PROVE ReaderStep(r)
    <3>1. PICK k \in Key : k = LookupKey(u, lastSequence)
      BY <2>2
    <3>2. Seek(r, k)
      BY <2>3, <3>1 DEF Get
    <3> QED BY <3>2 DEF ReaderStep
  <2>4. CASE GetReturns(r)
    BY <2>4 DEF GetReturns, ReaderStep, Move
  <2>5. CASE Iterate(r)
    <3>1. ASSUME NEW u \in Users, Seek(r, LookupKey(u, lastSequence)) PROVE ReaderStep(r)
      <4>1. PICK k \in Key : k = LookupKey(u, lastSequence)
        BY <2>2
      <4>2. Seek(r, k)
        BY <3>1, <4>1
      <4> QED BY <4>2 DEF ReaderStep
    <3> QED BY <2>5, <3>1 DEF Iterate, ReaderStep
  <2>6. CASE ReadStep(r)
    BY <2>6 DEF ReadStep, ReaderStep
  <2> QED BY <1>6, <2>3, <2>4, <2>5, <2>6
<1>7. ASSUME NEW r \in Readers, ReaderStep(r) PROVE Next
  BY <1>7 DEF ReaderStep, Next
<1>8. MemNext => Next \/ UNCHANGED vars
  BY <1>2, <1>3, <1>4, <1>5, <1>6, <1>7 DEF MemNext
<1> QED BY <1>1, <1>8

\* A step of Insert() goes on with the same key, or ends.
LEMMA SameKey ==
  ASSUME SkipInv, Write \/ \E h \in Heights : ChooseHeight(h)
  PROVE  /\ writer.pc # "idle" /\ (writer'.pc # "idle" => writer'.key = writer.key)
         /\ UNCHANGED <<cursor, known>>
<1>1. writer \in [pc : {"idle", "find", "height", "link", "publish"},
                  key : Key \cup {Nil}, x : Nodes, level : Levels,
                  prev : [Levels -> Nodes \cup {Nil}], height : 0 .. MaxHeight]
  BY DEF SkipInv, WriterInv, WriterType
<1>2. PICK w : w = writer
  OBVIOUS
<1>3. CASE FindPrev
  <2>1. PICK m : m = next[w.x][w.level]
    OBVIOUS
  <2>2. writer' = IF KeyIsAfterNode(w.key, m) THEN [w EXCEPT !.x = m]
                  ELSE [w EXCEPT !.prev[w.level] = w.x,
                                 !.level = IF @ = 0 THEN 0 ELSE @ - 1,
                                 !.pc = IF w.level = 0 THEN "height" ELSE @]
    BY <1>2, <1>3, <2>1 DEF FindPrev
  <2>3. writer'.key = w.key
    BY <2>2, <1>1, <1>2
  <2>4. writer.pc = "find" /\ UNCHANGED <<cursor, known>>
    BY <1>3 DEF FindPrev
  <2> QED BY <2>3, <2>4, <1>2
<1>4. CASE LinkNode
  <2>1. writer.pc = "link" /\ writer' = [w EXCEPT !.pc = "publish"] /\ UNCHANGED <<cursor, known>>
    BY <1>2, <1>4 DEF LinkNode
  <2> QED BY <2>1, <1>1, <1>2
<1>5. CASE PublishNode
  <2>1. /\ writer.pc = "publish" /\ UNCHANGED <<cursor, known>>
        /\ writer' = IF w.level + 1 < w.height THEN [w EXCEPT !.pc = "link", !.level = @ + 1] ELSE Idle
    BY <1>2, <1>5 DEF PublishNode
  <2> QED BY <2>1, <1>1, <1>2 DEF Idle
<1>6. ASSUME NEW h \in Heights, ChooseHeight(h)
      PROVE  writer.pc # "idle" /\ writer'.key = writer.key /\ UNCHANGED <<cursor, known>>
  <2>1. PICK p : writer' = [w EXCEPT !.pc = "link", !.height = h, !.x = HeadNode, !.prev = p]
    BY <1>2, <1>6 DEF ChooseHeight
  <2>2. writer.pc = "height" /\ UNCHANGED <<cursor, known>>
    BY <1>6 DEF ChooseHeight
  <2> QED BY <2>1, <2>2, <1>1, <1>2
<1> QED BY <1>3, <1>4, <1>5, <1>6 DEF Write

\* What a step of Insert() does to the bottom level
LEMMA BottomLevel ==
  ASSUME SkipInv, Write \/ \E h \in Heights : ChooseHeight(h)
  PROVE  \/ Linked(0)' = Linked(0)
         \/ /\ Linked(0)' = Linked(0) \cup {writer.key}
            /\ writer.key \in Key \ Linked(0)
<1>1. CASE FindPrev \/ \E h \in Heights : ChooseHeight(h)
  <2>1. UNCHANGED next
    BY <1>1 DEF FindPrev, ChooseHeight
  <2> QED BY <2>1, ListStays
<1>2. CASE LinkNode
  BY <1>2, LinkNodeLinks, LevelsAreNat
<1>3. CASE PublishNode
  <2>1. Linked(0)' = IF 0 = writer.level THEN Linked(0) \cup {writer.key} ELSE Linked(0)
    BY <1>3, PublishNodeLinks, LevelsAreNat
  <2>2. writer.key \in Key \ Linked(writer.level)
    BY <1>3, LinkingFacts DEF PublishNode
  <2> QED BY <2>1, <2>2
<1> QED BY <1>1, <1>2, <1>3 DEF Write

LEMMA NumberedStays ==
  ASSUME Numbered, Linked(0)' = Linked(0), UNCHANGED lastSequence,
         writer'.pc # "idle" /\ writer'.key \notin Linked(0)
            => writer.pc # "idle" /\ writer'.key = writer.key
  PROVE  Numbered'
<1>1. Added' = Added
  BY DEF Added
<1> QED BY <1>1 DEF Numbered

LEMMA WriteNumbered ==
  ASSUME SkipInv, Numbered, Write \/ \E h \in Heights : ChooseHeight(h), UNCHANGED lastSequence
  PROVE  Numbered' /\ Added <= Added'
<1>1. writer.pc # "idle" /\ (writer'.pc # "idle" => writer'.key = writer.key)
  BY SameKey
<1>2. CASE Linked(0)' = Linked(0)
  <2>1. Added' = Added /\ Added \in Nat
    BY <1>2, AddedIsNat DEF Added
  <2> QED BY <1>1, <1>2, <2>1, NumberedStays
<1>3. CASE Linked(0)' = Linked(0) \cup {writer.key} /\ writer.key \in Key \ Linked(0)
  <2>1. PICK n, k, S : n = Added /\ k = writer.key /\ S = Linked(0)
    OBVIOUS
  <2>2. /\ IsFiniteSet(S) /\ k \notin S /\ n = Cardinality(S) /\ n \in Nat
        /\ k.seq = n + 1 /\ n < MaxSequence /\ MaxSequence \in Nat
        /\ lastSequence \in Nat /\ lastSequence <= n
    BY <2>1, <1>1, <1>3, AddedIsNat DEF Numbered, Added
  <2>3. IsFiniteSet(S \cup {k}) /\ Cardinality(S \cup {k}) = n + 1
    BY <2>2, FS_AddElement
  <2>4. Linked(0)' = S \cup {k} /\ Added' = n + 1
    BY <2>1, <2>3, <1>3 DEF Added
  <2>5. \A e \in S : e.seq \in Nat /\ 1 <= e.seq /\ e.seq <= n
    <3>1. S \subseteq Entry
      BY <2>1, LinkedIn, EntriesAreOrdered
    <3> QED BY <3>1, <2>1, EntriesAreOrdered DEF Numbered
  <2>6. \A e \in S \cup {k} : 1 <= e.seq /\ e.seq <= n + 1
    BY <2>2, <2>5
  <2>7. \A e, f \in S \cup {k} : e.seq = f.seq => e = f
    <3>1. \A e \in S : e.seq # n + 1
      BY <2>2, <2>5
    <3>2. \A e, f \in S : e.seq = f.seq => e = f
      BY <2>1 DEF Numbered
    <3> QED BY <3>1, <3>2, <2>2
  <2>8. ~(writer'.pc # "idle" /\ writer'.key \notin Linked(0)')
    BY <1>1, <2>1, <2>4
  <2>9. UNCHANGED lastSequence /\ lastSequence <= n + 1 /\ n + 1 <= MaxSequence
    BY <2>2
  <2>10. PICK m : m = n + 1
    OBVIOUS
  <2>11. /\ IsFiniteSet(Linked(0)') /\ Added' = m
         /\ \A e \in Linked(0)' : 1 <= e.seq /\ e.seq <= m
         /\ \A e, f \in Linked(0)' : e.seq = f.seq => e = f
    BY <2>3, <2>4, <2>6, <2>7, <2>10
  <2>12. lastSequence' \in Nat /\ lastSequence' <= m /\ m <= MaxSequence
    BY <2>2, <2>9, <2>10
  <2>13. Numbered'
    BY <2>8, <2>11, <2>12 DEF Numbered
  <2>14. n <= m
    BY <2>2, <2>10
  <2> QED BY <2>1, <2>11, <2>13, <2>14
<1> QED BY <1>2, <1>3, BottomLevel

LEMMA GetsStay ==
  ASSUME Numbered, Gets, UNCHANGED <<cursor, known, lookup>>,
         lastSequence' \in Nat, lastSequence <= lastSequence',
         Linked(0) \subseteq Linked(0)',
         \A e \in Linked(0)' : e \in Linked(0) \/ ~(e.seq <= lastSequence),
         Linked(0)' \subseteq Key
  PROVE  Gets'
<1>1. UNCHANGED cursor /\ UNCHANGED known /\ UNCHANGED lookup
  OBVIOUS
<1>2. ASSUME NEW r \in Readers, lookup'[r] # Nil PROVE GetIs(cursor[r], known[r], lookup[r])'
  <2>1. PICK c, was, g : c = cursor[r] /\ was = known[r] /\ g = lookup[r]
    OBVIOUS
  <2>2. GetIs(c, was, g)
    BY <1>1, <1>2, <2>1 DEF Gets
  <2>3. PICK m \in Nat, n \in Nat : m = lastSequence /\ n = lastSequence' /\ m <= n
    BY DEF Numbered
  <2>4. g \in [user : Users, seq : 0 .. MaxSequence] /\ g.seq <= m /\ g.seq \in Nat
    BY <2>2, <2>3, MemTableAssumption DEF GetIs
  <2>5. \A e \in Linked(0)' : e.seq <= g.seq => e \in Linked(0)
    <3>1. TAKE e \in Linked(0)'
    <3>2. e.seq \in Nat
      BY EntriesAreOrdered
    <3>3. e.seq <= g.seq => e.seq <= m
      BY <3>2, <2>4, <2>3
    <3> QED BY <3>3, <2>3
  <2>6. g.seq <= n
    BY <2>3, <2>4
  <2>7. Looks(c, was, g.user, g.seq)' /\ Stands(c, g.user, g.seq)'
    BY <2>2, <2>5 DEF GetIs, Looks, Stands, LookupKey
  <2>8. GetIs(c, was, g)'
    BY <2>3, <2>4, <2>6, <2>7 DEF GetIs
  <2> QED BY <1>1, <2>1, <2>8 DEF GetIs, Looks, Stands
<1>3. lookup' \in [Readers -> [user : Users, seq : 0 .. MaxSequence] \cup {Nil}]
  BY <1>1 DEF Gets
<1> QED BY <1>2, <1>3 DEF Gets

LEMMA GetsMove ==
  ASSUME SkipInv, Gets, NEW r \in Readers, NEW c, NEW was, ReaderMoves(r, c, was),
         NEW g, lookup' = [lookup EXCEPT ![r] = g], UNCHANGED lastSequence,
         g = Nil \/ (g \in [user : Users, seq : 0 .. MaxSequence] /\ GetIs(c, was, g))
  PROVE  Gets'
<1>1. Linked(0)' = Linked(0)
  BY ListStays DEF ReaderMoves
<1>2. lookup' \in [Readers -> [user : Users, seq : 0 .. MaxSequence] \cup {Nil}]
  BY DEF Gets
<1>3. ASSUME NEW q \in Readers, lookup'[q] # Nil PROVE GetIs(cursor[q], known[q], lookup[q])'
  <2>1. PICK d, w, f : d = cursor'[q] /\ w = known'[q] /\ f = lookup'[q]
    OBVIOUS
  <2>2. GetIs(d, w, f)
    <3>1. CASE q = r
      <4>1. d = c /\ w = was /\ f = g
        BY <2>1, <3>1 DEF ReaderMoves, SkipInv, ReaderInv, Gets
      <4> QED BY <4>1, <2>1, <1>3
    <3>2. CASE q # r
      <4>1. d = cursor[q] /\ w = known[q] /\ f = lookup[q]
        BY <2>1, <3>2 DEF ReaderMoves, SkipInv, ReaderInv, Gets
      <4> QED BY <4>1, <2>1, <1>3 DEF Gets
    <3> QED BY <3>1, <3>2
  <2>3. GetIs(d, w, f)'
    BY <2>2, <1>1 DEF GetIs, Looks, Stands
  <2> QED BY <2>1, <2>3 DEF GetIs, Looks, Stands
<1> QED BY <1>2, <1>3 DEF Gets

LEMMA SeekAnswered ==
  ASSUME NEW n, NEW b, NEW was, NEW now, Promise!Answers(n, "seek", b, was, now)
  PROVE  /\ n = Nil \/ (n \in now /\ ~Before(n, b))
         /\ \A k \in was : ~Before(k, b) => n # Nil /\ (n = k \/ Before(n, k))
BY DEF Promise!Answers, Promise!Reach, Promise!Forward

LEMMA GetBegins ==
  ASSUME SkipInv, Numbered, Gets, NEW r \in Readers, NEW u \in Users, Get(r, u)
  PROVE  Gets'
<1>1. PICK s \in 0 .. MaxSequence : s = lastSequence
  BY AddedIsNat DEF Numbered
<1>2. PICK k \in Key : k = LookupKey(u, s)
  BY LookupKeyIsEntry, EntriesAreOrdered
<1>3. BeginSearch(r, "seek", k)
  BY <1>1, <1>2 DEF Get, Seek
<1>4. PICK c : ReaderMoves(r, c, Linked(0)) /\ c.find.op = "seek" /\ c.find.bound = k
  BY <1>3, BeginMoves DEF SkipInv
<1>5. PICK g : g = [user |-> u, seq |-> s]
  OBVIOUS
<1>6. lookup' = [lookup EXCEPT ![r] = g] /\ UNCHANGED lastSequence
  BY <1>1, <1>5 DEF Get
<1>7. g \in [user : Users, seq : 0 .. MaxSequence] /\ g.user = u /\ g.seq = s
  BY <1>5
<1>8. g.seq <= lastSequence
  BY <1>1, <1>7 DEF Numbered
<1>9. GetIs(c, Linked(0), g)
  BY <1>2, <1>4, <1>7, <1>8 DEF GetIs, Looks, Stands
<1> QED BY <1>4, <1>6, <1>7, <1>9, GetsMove

LEMMA GetTurns ==
  ASSUME SkipInv, Numbered, Gets, NEW r \in Readers, Turn(r), UNCHANGED <<lastSequence, lookup>>
  PROVE  Gets'
<1>1. PICK g, d, w : g = lookup[r] /\ d = cursor[r] /\ w = known[r]
  OBVIOUS
<1>2. lookup' = [lookup EXCEPT ![r] = g] /\ UNCHANGED lastSequence
  BY <1>1 DEF Gets
<1>3. g = Nil \/ (g \in [user : Users, seq : 0 .. MaxSequence] /\ GetIs(d, w, g))
  BY <1>1 DEF Gets
<1>4. d.find.op # "idle"
  BY <1>1 DEF Turn, SearchOn, SearchEnds
<1>5. CASE SearchOn(r)
  <2>1. PICK c : /\ ReaderMoves(r, c, w) /\ c.find.op = d.find.op /\ c.find.bound = d.find.bound
    BY <1>1, <1>5, SearchOnMoves DEF SkipInv
  <2>2. GetIs(d, w, g) => GetIs(c, w, g)
    BY <2>1, <1>4 DEF GetIs, Looks, Stands
  <2> QED BY <2>1, <2>2, <1>2, <1>3, GetsMove
<1>6. CASE SearchEnds(r)
  <2>1. PICK s : s = d.find
    OBVIOUS
  <2>2. PICK n : n = IF s.op = "seek" THEN Loaded(s) ELSE IF s.x = HeadNode THEN Nil ELSE s.x
    OBVIOUS
  <2>3. PICK c : /\ ReaderMoves(r, c, {}) /\ s.op # "idle" /\ ~Passes(s) /\ s.level = 0
                 /\ c.at = n /\ c.find = NoSearch
    BY <1>1, <1>6, <2>1, <2>2, SearchEndsMoves DEF SkipInv
  <2>4. Promise!Answers(n, s.op, s.bound, w, Linked(0))
    BY <1>1, <2>1, <2>2, <2>3, SearchEndsAnswers
  <2>5. c.find.op = "idle"
    BY <2>3 DEF NoSearch
  <2>6. GetIs(d, w, g) => GetIs(c, {}, g)
    <3> SUFFICES ASSUME GetIs(d, w, g) PROVE GetIs(c, {}, g)
      OBVIOUS
    <3>1. /\ s.op = "seek" /\ s.bound = LookupKey(g.user, g.seq)
          /\ \A e \in Linked(0) : e.seq <= g.seq => e \in w
      BY <1>4, <2>1 DEF GetIs, Looks
    <3>2. PICK b : b = s.bound
      OBVIOUS
    <3>3. Promise!Answers(n, "seek", b, w, Linked(0))
      BY <2>4, <3>1, <3>2
    <3>4. /\ n = Nil \/ (n \in Linked(0) /\ ~Before(n, b))
          /\ \A k \in w : ~Before(k, b) => n # Nil /\ (n = k \/ Before(n, k))
      BY <3>3, SeekAnswered
    <3>5. Stands(c, g.user, g.seq)
      BY <2>3, <3>1, <3>2, <3>4 DEF Stands
    <3>6. Looks(c, {}, g.user, g.seq)
      BY <2>5 DEF Looks
    <3> QED BY <3>5, <3>6 DEF GetIs
  <2> QED BY <2>3, <2>6, <1>2, <1>3, GetsMove
<1> QED BY <1>5, <1>6 DEF Turn

LEMMA GetEnds ==
  ASSUME SkipInv, Numbered, Gets, NEW r \in Readers, GetReturns(r) \/ Iterate(r)
  PROVE  Gets'
<1>1. lookup' = [lookup EXCEPT ![r] = Nil] /\ UNCHANGED lastSequence
  <2>1. CASE GetReturns(r)
    BY <2>1 DEF GetReturns
  <2>2. CASE Iterate(r)
    BY <2>2 DEF Iterate, Gets
  <2> QED BY <2>1, <2>2
<1>2. \E c, w : ReaderMoves(r, c, w)
  <2>1. CASE NewIterator(r)
    BY <2>1, StepToMoves DEF NewIterator, SkipInv
  <2>2. CASE Prev(r)
    <3>1. cursor[r].at \in Key
      BY <2>2, LinkedIn DEF Prev, SkipInv, ReaderInv, Standing
    <3> QED BY <2>2, <3>1, BeginMoves DEF Prev, SkipInv
  <2>3. CASE SeekToLast(r)
    BY <2>3, BeginMoves DEF SeekToLast, SkipInv
  <2>4. CASE SeekToFirst(r)
    BY <2>4, StepToMoves, FirstAndNext DEF SeekToFirst, SkipInv
  <2>5. CASE NextNode(r)
    BY <2>5, StepToMoves, FirstAndNext DEF NextNode, SkipInv
  <2>6. ASSUME NEW u \in Users, Seek(r, LookupKey(u, lastSequence)) PROVE \E c, w : ReaderMoves(r, c, w)
    <3>1. PICK s \in 0 .. MaxSequence : s = lastSequence
      BY AddedIsNat DEF Numbered
    <3>2. PICK k \in Key : k = LookupKey(u, s)
      BY LookupKeyIsEntry, EntriesAreOrdered
    <3>3. BeginSearch(r, "seek", k)
      BY <2>6, <3>1, <3>2 DEF Seek
    <3> QED BY <3>3, BeginMoves DEF SkipInv
  <2> QED BY <2>1, <2>2, <2>3, <2>4, <2>5, <2>6 DEF GetReturns, Iterate, Move
<1>3. PICK c, w : ReaderMoves(r, c, w)
  BY <1>2
<1> QED BY <1>1, <1>3, GetsMove

LEMMA GetInvInit == MemInit => GetInv
<1> SUFFICES ASSUME MemInit PROVE GetInv
  OBVIOUS
<1>1. SkipInv
  BY SkipInit DEF MemInit
<1>2. Linked(0) = {}
  BY HeadIsNoKey, LevelsAreNat DEF MemInit, Init, Linked
<1>3. IsFiniteSet(Linked(0)) /\ Added = 0
  BY <1>2, FS_EmptySet DEF Added
<1>4. writer.pc = "idle" /\ lastSequence = 0 /\ MaxSequence \in Nat
  BY MemTableAssumption DEF MemInit, Init, Idle
<1>5. Numbered
  BY <1>2, <1>3, <1>4 DEF Numbered
<1>6. Gets
  BY DEF MemInit, Gets
<1> QED BY <1>1, <1>5, <1>6 DEF GetInv

LEMMA GetInvStep == GetInv /\ [MemNext]_memVars => GetInv'
<1> SUFFICES ASSUME GetInv, [MemNext]_memVars PROVE GetInv'
  OBVIOUS
<1>1. SkipInv /\ Numbered /\ Gets
  BY DEF GetInv
<1>2. SkipInv'
  BY <1>1, MemStepIsListStep, SkipStep
<1>3. Linked(0)' \subseteq Key
  BY DEF Linked
<1>4. PICK n \in Nat, m \in Nat : n = Added /\ m = lastSequence /\ m <= n
  BY <1>1, AddedIsNat DEF Numbered
<1>5. CASE UNCHANGED memVars
  <2>1. /\ UNCHANGED next /\ UNCHANGED writer /\ UNCHANGED cursor /\ UNCHANGED known
        /\ UNCHANGED lastSequence /\ UNCHANGED lookup
    BY <1>5 DEF memVars, vars
  <2>2. Numbered'
    BY <1>1, <2>1, ListStays, NumberedStays
  <2>3. Gets'
    <3>1. UNCHANGED <<cursor, known, lookup>> /\ lastSequence' \in Nat /\ lastSequence <= lastSequence'
      BY <1>4, <2>1
    <3>2. Linked(0)' = Linked(0)
      BY <2>1, ListStays
    <3> QED BY <1>1, <1>3, <3>1, <3>2, GetsStay
  <2> QED BY <1>2, <2>2, <2>3 DEF GetInv
<1>6. ASSUME NEW up \in Updates, Add(up) PROVE GetInv'
  <2>1. PICK k \in Key : Insert(k) /\ k.seq = Added + 1
    BY <1>1, <1>6, AddInserts
  <2>2. /\ Added < MaxSequence /\ UNCHANGED lastSequence /\ UNCHANGED lookup
        /\ UNCHANGED next /\ UNCHANGED cursor /\ UNCHANGED known
        /\ writer' = [Idle EXCEPT !.pc = "find", !.key = k, !.level = MaxHeightNow - 1]
    BY <1>1, <1>6, <2>1, AddInserts DEF Insert
  <2>3. writer'.key = k
    BY <2>2 DEF Idle
  <2>4. Linked(0)' = Linked(0) /\ Added' = Added
    BY <2>2, ListStays DEF Added
  <2>5. Numbered'
    BY <1>1, <2>1, <2>2, <2>3, <2>4 DEF Numbered
  <2>6. Gets'
    <3>1. UNCHANGED <<cursor, known, lookup>> /\ lastSequence' \in Nat /\ lastSequence <= lastSequence'
      BY <1>4, <2>2
    <3> QED BY <1>1, <1>3, <2>4, <3>1, GetsStay
  <2> QED BY <1>2, <2>5, <2>6 DEF GetInv
<1>7. CASE WriteStep \/ \E h \in Heights : AllocateNode(h)
  <2>1. /\ Write \/ \E h \in Heights : ChooseHeight(h)
        /\ UNCHANGED lastSequence /\ UNCHANGED lookup
    BY <1>7 DEF WriteStep, AllocateNode
  <2>2. Numbered'
    BY <1>1, <2>1, WriteNumbered
  <2>3. UNCHANGED <<cursor, known>> /\ writer.pc # "idle"
    BY <1>1, <2>1, SameKey
  <2>4. Linked(0) \subseteq Linked(0)'
    BY <1>1, <2>1, BottomLevel
  <2>5. \A e \in Linked(0)' : e \in Linked(0) \/ ~(e.seq <= lastSequence)
    <3>1. CASE Linked(0)' = Linked(0)
      BY <3>1
    <3>2. CASE Linked(0)' = Linked(0) \cup {writer.key} /\ writer.key \in Key \ Linked(0)
      <4>1. writer.key.seq = n + 1
        BY <1>1, <1>4, <2>3, <3>2 DEF Numbered
      <4>2. ~(n + 1 <= m)
        BY <1>4
      <4> QED BY <3>2, <4>1, <4>2, <1>4
    <3> QED BY <1>1, <2>1, <3>1, <3>2, BottomLevel
  <2>6. UNCHANGED <<cursor, known, lookup>> /\ lastSequence' \in Nat /\ lastSequence <= lastSequence'
    BY <1>4, <2>1, <2>3
  <2>7. Gets'
    BY <1>1, <1>3, <2>4, <2>5, <2>6, GetsStay
  <2> QED BY <1>2, <2>2, <2>7 DEF GetInv
<1>8. CASE BatchEnds
  <2>1. /\ writer.pc = "idle" /\ lastSequence' = n /\ UNCHANGED lookup
        /\ UNCHANGED next /\ UNCHANGED writer /\ UNCHANGED cursor /\ UNCHANGED known
    BY <1>4, <1>8 DEF BatchEnds, vars
  <2>2. Linked(0)' = Linked(0) /\ Added' = n
    BY <1>4, <2>1, ListStays DEF Added
  <2>3. Numbered'
    BY <1>1, <1>4, <2>1, <2>2 DEF Numbered
  <2>4. UNCHANGED <<cursor, known, lookup>> /\ lastSequence' \in Nat /\ lastSequence <= lastSequence'
    BY <1>4, <2>1
  <2>5. Gets'
    BY <1>1, <1>3, <2>2, <2>4, GetsStay
  <2> QED BY <1>2, <2>3, <2>5 DEF GetInv
<1>9. ASSUME NEW r \in Readers,
             (\E u \in Users : Get(r, u)) \/ GetReturns(r) \/ Iterate(r) \/ ReadStep(r)
      PROVE  GetInv'
  <2>1. Gets'
    BY <1>1, <1>9, GetBegins, GetTurns, GetEnds DEF ReadStep
  <2>2. UNCHANGED lastSequence /\ UNCHANGED next /\ UNCHANGED writer
    BY <1>9 DEF Get, GetReturns, Iterate, ReadStep, Seek, BeginSearch, Move, Turn, SearchOn, SearchEnds,
                NewIterator, Prev, SeekToLast, SeekToFirst, NextNode, StepTo
  <2>3. Numbered'
    BY <1>1, <2>2, ListStays, NumberedStays
  <2> QED BY <1>2, <2>1, <2>3 DEF GetInv
<1> QED BY <1>5, <1>6, <1>7, <1>8, <1>9 DEF MemNext

\* What Get() has found is the newest entry of its user key that it may see
\* (GetIsExact).
LEMMA FoundIsNewest == GetInv => GetIsExact
<1> SUFFICES ASSUME GetInv, NEW r \in Readers, lookup[r] # Nil, cursor[r].find.op = "idle"
             PROVE  Found(cursor[r].at, lookup[r].user) = Newest(lookup[r].user, lookup[r].seq)
  BY DEF GetIsExact
<1>1. PICK n, u, s : n = cursor[r].at /\ u = lookup[r].user /\ s = lookup[r].seq
  OBVIOUS
<1>2. lookup[r] \in [user : Users, seq : 0 .. MaxSequence] /\ GetIs(cursor[r], known[r], lookup[r])
  BY DEF GetInv, Gets
<1>3. u \in Users /\ s \in 0 .. MaxSequence /\ u \in Nat /\ s \in Nat
  <2>1. PICK g \in [user : Users, seq : 0 .. MaxSequence] : g = lookup[r]
    BY <1>2
  <2>2. u = g.user /\ s = g.seq /\ g.user \in Users /\ g.seq \in 0 .. MaxSequence
    BY <1>1, <2>1
  <2>3. Users \subseteq Nat /\ MaxSequence \in Nat
    BY MemTableAssumption
  <2> QED BY <2>2, <2>3
<1>4. /\ n = Nil \/ (n \in Linked(0) /\ ~Before(n, LookupKey(u, s)))
      /\ \A e \in Linked(0) :
            e.seq <= s /\ ~Before(e, LookupKey(u, s)) => n # Nil /\ (n = e \/ Before(n, e))
  BY <1>1, <1>2 DEF GetIs, Stands
<1>5. Linked(0) \subseteq Entry /\ Nil \notin Entry
  BY LinkedIn, EntriesAreOrdered, HeadIsNoKey
<1> DEFINE mine == {e \in Linked(0) : e.user = u /\ e.seq <= s}
<1>6. \A e \in mine : n # Nil /\ (n = e \/ Before(n, e)) /\ n \in Entry
  <2>1. TAKE e \in mine
  <2>2. ~Before(e, LookupKey(u, s))
    BY <1>3, <1>5, NotBeforeLookup
  <2> QED BY <2>2, <1>4, <1>5
<1>7. CASE n # Nil /\ n.user = u
  <2>1. n \in mine
    BY <1>3, <1>4, <1>5, <1>7, NotBeforeLookup
  <2>2. \A f \in mine : f.seq <= n.seq
    <3>1. TAKE f \in mine
    <3>2. f \in Entry /\ n \in Entry /\ f.seq \in Nat /\ n.seq \in Nat
      BY <2>1, <1>5, EntriesAreOrdered
    <3> QED BY <3>2, <1>6, <1>7, NewestFirst
  <2>3. \A e \in mine : (\A f \in mine : f.seq <= e.seq) => e = n
    <3>1. TAKE e \in mine
    <3>2. HAVE \A f \in mine : f.seq <= e.seq
    <3>3. e.seq <= n.seq /\ n.seq <= e.seq
      BY <2>1, <2>2, <3>2
    <3>4. e.seq \in Nat /\ n.seq \in Nat
      BY <2>1, <1>5, EntriesAreOrdered
    <3>5. e.seq = n.seq
      BY <3>3, <3>4
    <3> QED BY <3>5, <2>1 DEF GetInv, Numbered
  <2>4. (CHOOSE e \in mine : \A f \in mine : f.seq <= e.seq) = n
    BY <2>1, <2>2, <2>3
  <2> QED BY <2>1, <2>4, <1>1, <1>7 DEF Found, Newest
<1>8. CASE ~(n # Nil /\ n.user = u)
  <2>1. mine = {}
    <3> SUFFICES ASSUME NEW e \in mine PROVE FALSE
      OBVIOUS
    <3>1. n # Nil /\ (n = e \/ Before(n, e)) /\ n \in Entry /\ e \in Entry /\ e.user = u
      BY <1>5, <1>6
    <3>2. n.user <= u /\ n.user \in Nat /\ n.user # u
      BY <3>1, <1>8, NewestFirst, EntriesAreOrdered
    <3>3. u < n.user \/ u = n.user
      BY <3>1, <1>3, <1>4, NotBeforeLookup
    <3> QED BY <3>2, <3>3, <1>3
  <2> QED BY <2>1, <1>1, <1>8 DEF Found, Newest
<1> QED BY <1>7, <1>8

\* The memtable stays in the states that GetInv describes: sequence numbers
\* without a gap, and every Get() at or on its way to the entry it must find.
THEOREM GetInvariant == MemSpec => []GetInv
<1>1. MemInit => GetInv
  BY GetInvInit
<1>2. GetInv /\ [MemNext]_memVars => GetInv'
  BY GetInvStep
<1> QED BY <1>1, <1>2, PTL DEF MemSpec

\* MemTable::Get() returns the newest entry of its user key at its sequence
\* number, whatever the writer adds meanwhile (GetIsExact).
THEOREM ReadsAreExact == MemSpec => []GetIsExact
BY GetInvariant, FoundIsNewest, PTL

\* The list under a memtable is a skip list: all that was proved of it holds.
THEOREM MemTableIsASkipList == MemSpec => Spec
<1>1. MemInit => Init
  BY DEF MemInit
<1>2. GetInv /\ [MemNext]_memVars => [Next]_vars
  BY MemStepIsListStep DEF GetInv
<1> QED BY <1>1, <1>2, GetInvariant, PTL DEF MemSpec, Spec

\* The iterators of a memtable that is written to miss nothing that was there
\* when their move began (IsAnOrderedSet).
THEOREM MemTableIsAnOrderedSet == MemSpec => IsAnOrderedSet
BY MemTableIsASkipList, ListIsAnOrderedSet, PTL

---------------------------------------------------------------------------
(* The arena *)

\* What was handed out lies in its block, no byte of it twice, and the rest of
\* the block in use is what alloc_bytes_remaining_ says.
ArenaType == [block : Nat, at : Nat, left : Nat, blocks : Seq(Nat),
              chunks : SUBSET [block : Nat, from : Nat, bytes : Nat]]
Apart(c, d) == c.from + c.bytes <= d.from \/ d.from + d.bytes <= c.from
ArenaOK(a) ==
    /\ a \in ArenaType
    /\ a.block <= Len(a.blocks)
    /\ a.block > 0 => a.at + a.left = a.blocks[a.block]
    /\ a.block = 0 => a.left = 0
    /\ \A c \in a.chunks : /\ c.block \in 1 .. Len(a.blocks)
                           /\ c.from + c.bytes <= a.blocks[c.block]
                           /\ c.block = a.block => c.from + c.bytes <= a.at
    /\ \A c, d \in a.chunks : c # d /\ c.block = d.block => Apart(c, d)

LEMMA NewBlock ==
  ASSUME NEW a, ArenaOK(a), NEW size \in Nat, NEW bytes \in Nat, bytes <= size,
         NEW at \in Nat, NEW left \in Nat, NEW block \in Nat,
         \/ block = a.block /\ at = a.at /\ left = a.left
         \/ block = Len(a.blocks) + 1 /\ at = bytes /\ at + left = size
  PROVE  ArenaOK([block |-> block, at |-> at, left |-> left, blocks |-> Append(a.blocks, size),
                  chunks |-> a.chunks \cup {Chunk(Len(a.blocks) + 1, 0, bytes)}])
<1>1. PICK n, B, C, x : /\ n = Len(a.blocks) /\ B = Append(a.blocks, size) /\ C = a.chunks
                        /\ x = Chunk(n + 1, 0, bytes)
  OBVIOUS
<1>2. /\ a.blocks \in Seq(Nat) /\ a.block \in Nat /\ a.at \in Nat /\ a.left \in Nat
      /\ C \subseteq [block : Nat, from : Nat, bytes : Nat]
  BY <1>1 DEF ArenaOK, ArenaType
<1>3. /\ n \in Nat /\ B \in Seq(Nat) /\ Len(B) = n + 1 /\ B[n + 1] = size
      /\ \A i \in 1 .. n : B[i] = a.blocks[i]
  BY <1>1, <1>2
<1>4. /\ x \in [block : Nat, from : Nat, bytes : Nat]
      /\ x.block = n + 1 /\ x.from = 0 /\ x.bytes = bytes
  BY <1>1, <1>3 DEF Chunk
<1>5. \A c \in C : /\ c.block \in 1 .. n /\ c.from \in Nat /\ c.bytes \in Nat
                   /\ c.from + c.bytes <= a.blocks[c.block]
                   /\ c.block = a.block => c.from + c.bytes <= a.at
  BY <1>1, <1>2 DEF ArenaOK
<1>6. PICK b : b = [block |-> block, at |-> at, left |-> left, blocks |-> B, chunks |-> C \cup {x}]
  OBVIOUS
<1>7. b \in ArenaType
  BY <1>2, <1>3, <1>4, <1>6 DEF ArenaType
<1>8. /\ b.block = block /\ b.at = at /\ b.left = left /\ b.blocks = B /\ b.chunks = C \cup {x}
  BY <1>6
<1>9. a.block <= n /\ (a.block > 0 => a.at + a.left = a.blocks[a.block]) /\ (a.block = 0 => a.left = 0)
  BY <1>1 DEF ArenaOK
<1>10. /\ block <= n + 1 /\ (block > 0 => at + left = B[block]) /\ (block = 0 => left = 0)
  <2>1. CASE block = a.block /\ at = a.at /\ left = a.left
    <3>1. a.block > 0 => a.block \in 1 .. n
      BY <1>2, <1>3, <1>9
    <3>2. a.block > 0 => at + left = B[a.block]
      BY <3>1, <2>1, <1>3, <1>9
    <3> QED BY <3>2, <2>1, <1>2, <1>3, <1>9
  <2>2. CASE block = n + 1 /\ at + left = size
    BY <2>2, <1>3
  <2> QED BY <2>1, <2>2, <1>1
<1>11. \A c \in C \cup {x} : /\ c.block \in 1 .. n + 1
                             /\ c.from + c.bytes <= B[c.block]
                             /\ c.block = block => c.from + c.bytes <= at
  <2>1. ASSUME NEW c \in C
        PROVE  /\ c.block \in 1 .. n + 1 /\ c.from + c.bytes <= B[c.block]
               /\ c.block = block => c.from + c.bytes <= at
    BY <1>1, <1>3, <1>5
  <2>2. /\ x.block \in 1 .. n + 1 /\ x.from + x.bytes <= B[x.block]
        /\ x.block = block => x.from + x.bytes <= at
    BY <1>1, <1>2, <1>3, <1>4, <1>9
  <2> QED BY <2>1, <2>2
<1>12. \A c, d \in C \cup {x} : c # d /\ c.block = d.block => Apart(c, d)
  <2>1. \A c \in C : c.block # x.block
    BY <1>3, <1>4, <1>5
  <2>2. \A c, d \in C : c # d /\ c.block = d.block => Apart(c, d)
    BY <1>1 DEF ArenaOK
  <2> QED BY <2>1, <2>2
<1>13. ArenaOK(b)
  BY <1>3, <1>7, <1>8, <1>10, <1>11, <1>12 DEF ArenaOK
<1> QED BY <1>1, <1>6, <1>13

LEMMA FromBlock ==
  ASSUME NEW a, ArenaOK(a), NEW slop \in Nat, NEW bytes \in Nat \ {0}, slop + bytes <= a.left
  PROVE  ArenaOK([block |-> a.block, at |-> a.at + slop + bytes, left |-> a.left - slop - bytes,
                  blocks |-> a.blocks,
                  chunks |-> a.chunks \cup {Chunk(a.block, a.at + slop, bytes)}])
<1>1. PICK k, t, l, B, C, x : /\ k = a.block /\ t = a.at /\ l = a.left /\ B = a.blocks /\ C = a.chunks
                              /\ x = Chunk(k, t + slop, bytes)
  OBVIOUS
<1>2. /\ B \in Seq(Nat) /\ k \in Nat /\ t \in Nat /\ l \in Nat /\ Len(B) \in Nat
      /\ C \subseteq [block : Nat, from : Nat, bytes : Nat]
  BY <1>1 DEF ArenaOK, ArenaType
<1>3. k <= Len(B) /\ (k > 0 => t + l = B[k]) /\ (k = 0 => l = 0)
  BY <1>1 DEF ArenaOK
<1>4. k > 0 /\ k \in 1 .. Len(B) /\ slop + bytes <= l
  BY <1>1, <1>2, <1>3
<1>5. /\ x \in [block : Nat, from : Nat, bytes : Nat]
      /\ x.block = k /\ x.from = t + slop /\ x.bytes = bytes
  BY <1>1, <1>2 DEF Chunk
<1>6. \A c \in C : /\ c.block \in 1 .. Len(B) /\ c.from \in Nat /\ c.bytes \in Nat
                   /\ c.from + c.bytes <= B[c.block]
                   /\ c.block = k => c.from + c.bytes <= t
  BY <1>1, <1>2 DEF ArenaOK
<1>7. PICK b : b = [block |-> k, at |-> t + slop + bytes, left |-> l - slop - bytes, blocks |-> B,
                    chunks |-> C \cup {x}]
  OBVIOUS
<1>8. t + slop + bytes \in Nat /\ l - slop - bytes \in Nat
      /\ t + slop + bytes + (l - slop - bytes) = B[k]
  BY <1>2, <1>3, <1>4
<1>9. b \in ArenaType
  BY <1>2, <1>5, <1>7, <1>8 DEF ArenaType
<1>10. /\ b.block = k /\ b.at = t + slop + bytes /\ b.left = l - slop - bytes /\ b.blocks = B
       /\ b.chunks = C \cup {x}
  BY <1>7
<1>11. \A c \in C \cup {x} : /\ c.block \in 1 .. Len(B)
                             /\ c.from + c.bytes <= B[c.block]
                             /\ c.block = k => c.from + c.bytes <= t + slop + bytes
  <2>1. ASSUME NEW c \in C
        PROVE  c.block = k => c.from + c.bytes <= t + slop + bytes
    BY <1>2, <1>6
  <2>2. x.block \in 1 .. Len(B) /\ x.from + x.bytes <= B[x.block] /\ x.from + x.bytes <= t + slop + bytes
    BY <1>2, <1>3, <1>4, <1>5
  <2> QED BY <2>1, <2>2, <1>6
<1>12. \A c, d \in C \cup {x} : c # d /\ c.block = d.block => Apart(c, d)
  <2>1. \A c \in C : c.block = x.block => Apart(c, x) /\ Apart(x, c)
    <3>1. TAKE c \in C
    <3>2. c.block = k => c.from + c.bytes <= x.from
      BY <1>2, <1>5, <1>6
    <3> QED BY <3>2, <1>5 DEF Apart
  <2>2. \A c, d \in C : c # d /\ c.block = d.block => Apart(c, d)
    BY <1>1 DEF ArenaOK
  <2> QED BY <2>1, <2>2
<1>13. ArenaOK(b)
  BY <1>3, <1>4, <1>8, <1>9, <1>10, <1>11, <1>12 DEF ArenaOK
<1> QED BY <1>1, <1>7, <1>13

LEMMA ArenaFields ==
  ASSUME NEW a \in ArenaType
  PROVE  a = [block |-> a.block, at |-> a.at, left |-> a.left, blocks |-> a.blocks,
              chunks |-> a.chunks]
BY DEF ArenaType

LEMMA FallbackOK ==
  ASSUME NEW a, ArenaOK(a), NEW bytes \in Nat \ {0}
  PROVE  ArenaOK(AllocateFallback(a, bytes))
<1>1. PICK n, x : n = Len(a.blocks) /\ x = Chunk(n + 1, 0, bytes)
  OBVIOUS
<1>2. a \in ArenaType /\ a.block \in Nat /\ a.at \in Nat /\ a.left \in Nat /\ n \in Nat
  BY <1>1 DEF ArenaOK, ArenaType
<1>3. CASE bytes > BlockSize \div 4
  <2>1. AllocateFallback(a, bytes) =
           [a EXCEPT !.blocks = Append(@, bytes), !.chunks = @ \cup {x}]
    BY <1>1, <1>3 DEF AllocateFallback
  <2>2. AllocateFallback(a, bytes) =
           [block |-> a.block, at |-> a.at, left |-> a.left, blocks |-> Append(a.blocks, bytes),
            chunks |-> a.chunks \cup {x}]
    BY <2>1, <1>2 DEF ArenaType
  <2>3. bytes \in Nat /\ bytes <= bytes
    OBVIOUS
  <2>4. ArenaOK([block |-> a.block, at |-> a.at, left |-> a.left, blocks |-> Append(a.blocks, bytes),
                 chunks |-> a.chunks \cup {Chunk(Len(a.blocks) + 1, 0, bytes)}])
    BY <2>3, <1>2, NewBlock
  <2> QED BY <2>2, <2>4, <1>1
<1>4. CASE ~(bytes > BlockSize \div 4)
  <2>1. AllocateFallback(a, bytes) =
           [block |-> n + 1, at |-> bytes, left |-> BlockSize - bytes,
            blocks |-> Append(a.blocks, BlockSize), chunks |-> a.chunks \cup {x}]
    BY <1>1, <1>4 DEF AllocateFallback
  <2>2. BlockSize \in Nat /\ bytes <= BlockSize
    <3>1. PICK z \in Nat : z = BlockSize
      BY ArenaAssumption
    <3>2. z \div 4 <= z
      OBVIOUS
    <3>3. z \div 4 \in Nat /\ ~(bytes > z \div 4)
      BY <3>1, <1>4
    <3> QED BY <3>1, <3>2, <3>3
  <2>3. BlockSize - bytes \in Nat /\ bytes + (BlockSize - bytes) = BlockSize
    BY <2>2
  <2>4. PICK l \in Nat : l = BlockSize - bytes /\ bytes + l = BlockSize
    BY <2>3
  <2>5. n + 1 \in Nat /\ bytes \in Nat
    BY <1>2
  <2>6. ArenaOK([block |-> n + 1, at |-> bytes, left |-> l, blocks |-> Append(a.blocks, BlockSize),
                 chunks |-> a.chunks \cup {Chunk(Len(a.blocks) + 1, 0, bytes)}])
    BY <2>2, <2>4, <2>5, <1>1, NewBlock
  <2> QED BY <2>1, <2>4, <2>6, <1>1
<1> QED BY <1>3, <1>4

LEMMA AllocateOK ==
  ASSUME NEW a, ArenaOK(a), NEW slop \in Nat, NEW bytes \in Nat \ {0}
  PROVE  ArenaOK(AllocateAfter(a, slop, bytes))
<1>1. CASE slop + bytes <= a.left
  <2>1. PICK x : x = Chunk(a.block, a.at + slop, bytes)
    OBVIOUS
  <2>2. AllocateAfter(a, slop, bytes) =
           [a EXCEPT !.at = @ + slop + bytes, !.left = @ - slop - bytes, !.chunks = @ \cup {x}]
    BY <1>1, <2>1 DEF AllocateAfter
  <2>3. AllocateAfter(a, slop, bytes) =
           [block |-> a.block, at |-> a.at + slop + bytes, left |-> a.left - slop - bytes,
            blocks |-> a.blocks, chunks |-> a.chunks \cup {x}]
    BY <2>2 DEF ArenaOK, ArenaType
  <2> QED BY <2>1, <2>3, <1>1, FromBlock
<1>2. CASE ~(slop + bytes <= a.left)
  BY <1>2, FallbackOK DEF AllocateAfter
<1> QED BY <1>1, <1>2

LEMMA SlopIsNat ==
  ASSUME NEW a, ArenaOK(a)
  PROVE  Slop(a) \in Nat
<1>1. PICK n \in Nat \ {0}, t \in Nat : n = Align /\ t = a.at
  BY ArenaAssumption DEF ArenaOK, ArenaType
<1>2. t % n \in 0 .. n - 1
  OBVIOUS
<1>3. PICK k \in Nat : k = n - (t % n)
  BY <1>2
<1>4. k % n \in Nat
  OBVIOUS
<1> QED BY <1>1, <1>3, <1>4 DEF Slop

LEMMA NewNodeOK ==
  ASSUME NEW a, ArenaOK(a), NEW h \in Nat
  PROVE  ArenaOK(NewNode(a, h))
<1>1. PICK z \in Nat \ {0} : z = PointerBytes
  BY ArenaAssumption
<1>2. z * (1 + h) \in Nat \ {0}
  OBVIOUS
<1> QED BY <1>1, <1>2, SlopIsNat, AllocateOK DEF NewNode, AllocateAligned

LEMMA ArenaInit == MemInit => ArenaOK(arena)
<1> SUFFICES ASSUME MemInit PROVE ArenaOK(arena)
  OBVIOUS
<1>1. ArenaOK(NoArena)
  <2>1. PICK a : a = [block |-> 0, at |-> 0, left |-> 0, blocks |-> <<>>, chunks |-> {}]
    OBVIOUS
  <2>2. a \in ArenaType /\ a.block = 0 /\ a.left = 0 /\ a.chunks = {} /\ a.blocks = <<>> /\ Len(a.blocks) = 0
    BY <2>1 DEF ArenaType
  <2>3. ArenaOK(a)
    BY <2>2 DEF ArenaOK
  <2> QED BY <2>1, <2>3 DEF NoArena
<1>2. arena = NewNode(NoArena, MaxHeight)
  BY DEF MemInit
<1> QED BY <1>1, <1>2, NewNodeOK, LevelsAreNat

LEMMA ArenaStep == ArenaOK(arena) /\ [MemNext]_memVars => ArenaOK(arena)'
<1> SUFFICES ASSUME ArenaOK(arena), [MemNext]_memVars PROVE ArenaOK(arena')
  BY DEF ArenaOK, Apart
<1>1. PICK a : a = arena
  OBVIOUS
<1>2. ASSUME NEW up \in Updates, Add(up) PROVE ArenaOK(arena')
  <2>1. PICK z : z = EntryBytes[up.type]
    OBVIOUS
  <2>2. z \in Nat \ {0}
    <3>1. up.type \in {kTypeDeletion, kTypeValue}
      BY MemTableAssumption
    <3> QED BY <2>1, <3>1, ArenaAssumption
  <2>3. arena' = AllocateAfter(a, 0, z)
    BY <1>1, <1>2, <2>1 DEF Add, Allocate
  <2> QED BY <1>1, <2>2, <2>3, AllocateOK
<1>3. ASSUME NEW h \in Heights, AllocateNode(h) PROVE ArenaOK(arena')
  <2>1. arena' = NewNode(a, h) /\ h \in Nat
    BY <1>1, <1>3, LevelsAreNat DEF AllocateNode
  <2> QED BY <1>1, <2>1, NewNodeOK
<1>4. CASE UNCHANGED arena
  BY <1>4
<1> QED BY <1>2, <1>3, <1>4 DEF MemNext, memVars, WriteStep, BatchEnds, Get, GetReturns, Iterate, ReadStep

LEMMA IsWellFormed == SkipInv /\ ArenaOK(arena) => WellFormed
BY FilledIn, Sorted DEF WellFormed, ArenaOK, Apart

\* Under a memtable the list is sorted and filled in, and the arena hands out
\* no byte twice or outside of a block (WellFormed).
THEOREM MemTableWellFormed == MemSpec => []WellFormed
<1>1. MemInit => ArenaOK(arena)
  BY ArenaInit
<1>2. ArenaOK(arena) /\ [MemNext]_memVars => ArenaOK(arena)'
  BY ArenaStep
<1>3. MemSpec => []ArenaOK(arena)
  BY <1>1, <1>2, PTL DEF MemSpec
<1>4. GetInv => SkipInv
  BY DEF GetInv
<1> QED BY <1>3, <1>4, GetInvariant, IsWellFormed, PTL
====
