------------------------- MODULE NativeObjectProofs -------------------------
(* Reference counting in the bindings is right for any number of threads,  *)
(* iterators, snapshots and batches: the native DB outlives whatever needs *)
(* it, and nothing is left when all wrappers are closed.                   *)
(*                                                                         *)
(* The count of a wrapper is the number of wrappers that hold a reference  *)
(* to it, itself included until it is closed.  Who holds one depends on    *)
(* how far the threads are in their calls; the invariant names the point   *)
(* each thread has reached, its stage, of which todo[t] is the rest.       *)
EXTENDS NativeObject, FiniteSetTheorems, SequenceTheorems, TLAPS

Handles == Iterators \cup Snapshots    \* the wrappers that keep the DB

----------------------------------------------------------------------------
(* The points at which a thread can be.                                    *)

\* o is the wrapper that the stage is about; within, when that wrapper is closed in
\* the course of closing another, is the other, and db if there is none.
Stage ==
    {c \in [pc : {"idle", "call", "with", "destroy",
                  "refForSnapshot", "snapshot",
                  "refForIterator", "refSnapshot", "iterator",
                  "freeBatch", "clearBatch", "delete", "clearDb",
                  "release", "unrefBySnapshot", "clearSnapshot",
                  "free", "unrefSnapshot", "unrefByIterator", "clearIterator"},
            o : Objects, within : Objects] :
        /\ c.pc = "call" => c.o \notin Snapshots
        /\ c.pc = "with" => c.o \in Snapshots \cup Batches
        /\ c.pc = "destroy" => c.o = db
        /\ c.pc \in {"refForSnapshot", "snapshot"} => c.o \in Snapshots
        /\ c.pc \in {"refForIterator", "refSnapshot", "iterator"} => c.o \in Iterators
        /\ c.pc \in {"freeBatch", "clearBatch"} => c.o \in Batches
        /\ c.pc \in {"delete", "clearDb"} => c.o = db /\ c.within \in {db} \cup Handles
        /\ c.pc \in {"release", "unrefBySnapshot", "clearSnapshot"} =>
             c.o \in Snapshots /\ c.within \in {db} \cup Iterators
        /\ c.pc \in {"free", "unrefSnapshot", "unrefByIterator", "clearIterator"} =>
             c.o \in Iterators /\ c.within = db}

At_(pc, o, within) == [pc |-> pc, o |-> o, within |-> within]

\* The step that a thread at stage c does next,
First(c) ==
    CASE c.pc \in {"call", "with", "destroy", "snapshot", "iterator", "release",
                   "free", "delete"} -> <<c.pc, c.o>>
      [] c.pc \in {"refForSnapshot", "refForIterator"}       -> <<"ref", db>>
      [] c.pc = "refSnapshot"                                -> <<"ref", source[c.o]>>
      [] c.pc \in {"unrefBySnapshot", "unrefByIterator"}     -> <<"unref", db>>
      [] c.pc = "unrefSnapshot"                              -> <<"unref", source[c.o]>>
      [] c.pc = "freeBatch"                                  -> <<"free", c.o>>
      [] c.pc \in {"clearBatch", "clearDb", "clearSnapshot", "clearIterator"}
                                                             -> <<"clear", c.o>>

\* ... and the stage after that, unless the step closes another wrapper.
AfterSource(c, pc, other) == At_(IF source[c.o] = None THEN other ELSE pc, c.o, db)

Then(c) ==
    CASE c.pc \in {"call", "with", "destroy", "snapshot", "iterator", "clearBatch",
                   "clearIterator"}     -> At_("idle", db, db)
      [] c.pc = "refForSnapshot"        -> At_("snapshot", c.o, db)
      [] c.pc = "refForIterator"        -> AfterSource(c, "refSnapshot", "iterator")
      [] c.pc = "refSnapshot"           -> At_("iterator", c.o, db)
      [] c.pc = "freeBatch"             -> At_("clearBatch", c.o, db)
      [] c.pc = "delete"                -> At_("clearDb", db, c.within)
      [] c.pc = "clearDb"               -> IF c.within = db THEN At_("idle", db, db)
                                           ELSE IF c.within \in Snapshots
                                           THEN At_("clearSnapshot", c.within, db)
                                           ELSE At_("clearIterator", c.within, db)
      [] c.pc = "release"               -> At_("unrefBySnapshot", c.o, c.within)
      [] c.pc = "unrefBySnapshot"       -> At_("clearSnapshot", c.o, c.within)
      [] c.pc = "clearSnapshot"         -> IF c.within = db THEN At_("idle", db, db)
                                           ELSE At_("unrefByIterator", c.within, db)
      [] c.pc = "free"                  -> AfterSource(c, "unrefSnapshot", "unrefByIterator")
      [] c.pc = "unrefSnapshot"         -> At_("unrefByIterator", c.o, db)
      [] c.pc = "unrefByIterator"       -> At_("clearIterator", c.o, db)

\* What is left to do at stage c
Steps(c) ==
    LET o == c.o
        w == c.within
        clear == <<"clear", o>>
        clearW == <<"clear", w>>
        unref == <<"unref", db>>
    IN
    CASE c.pc = "idle" -> <<>>
      [] c.pc \in {"call", "with", "destroy", "snapshot", "iterator"} -> <<<<c.pc, o>>>>
      [] c.pc = "refForSnapshot" -> <<<<"ref", db>>, <<"snapshot", o>>>>
      [] c.pc = "refForIterator" ->
           IF source[o] = None THEN <<<<"ref", db>>, <<"iterator", o>>>>
           ELSE <<<<"ref", db>>, <<"ref", source[o]>>, <<"iterator", o>>>>
      [] c.pc = "refSnapshot" -> <<<<"ref", source[o]>>, <<"iterator", o>>>>
      [] c.pc = "freeBatch" -> <<<<"free", o>>, clear>>
      [] c.pc \in {"clearBatch", "clearIterator"} -> <<clear>>
      [] c.pc = "delete" -> IF w = db THEN <<<<"delete", db>>, clear>>
                            ELSE <<<<"delete", db>>, clear, clearW>>
      [] c.pc = "clearDb" -> IF w = db THEN <<clear>> ELSE <<clear, clearW>>
      [] c.pc = "release" -> IF w = db THEN <<<<"release", o>>, unref, clear>>
                             ELSE <<<<"release", o>>, unref, clear, unref, clearW>>
      [] c.pc = "unrefBySnapshot" -> IF w = db THEN <<unref, clear>>
                                     ELSE <<unref, clear, unref, clearW>>
      [] c.pc = "clearSnapshot" -> IF w = db THEN <<clear>> ELSE <<clear, unref, clearW>>
      [] c.pc = "free" -> IF source[o] = None THEN <<<<"free", o>>, unref, clear>>
                          ELSE <<<<"free", o>>, <<"unref", source[o]>>, unref, clear>>
      [] c.pc = "unrefSnapshot" -> <<<<"unref", source[o]>>, unref, clear>>
      [] c.pc = "unrefByIterator" -> <<unref, clear>>

\* The stages in which the closing of o begins, in the course of closing another
Begins(o, within) ==
    At_(IF o = db THEN "delete" ELSE IF o \in Batches THEN "freeBatch"
        ELSE IF o \in Snapshots THEN "release" ELSE "free", o, within)

----------------------------------------------------------------------------
(* Who holds what.                                                         *)

\* the wrapper that a thread is making, and those that it is closing
Making(c) == IF c.pc \in {"refForSnapshot", "snapshot", "refForIterator", "refSnapshot",
                          "iterator"}
             THEN {c.o} ELSE {}
Closing(c) ==
    IF c.pc \in {"delete", "clearDb"} THEN {db, c.within}
    ELSE IF c.pc \in {"release", "unrefBySnapshot", "clearSnapshot"} THEN {c.o, c.within} \ {db}
    ELSE IF c.pc \in {"freeBatch", "clearBatch", "free", "unrefSnapshot",
                      "unrefByIterator", "clearIterator"} THEN {c.o}
    ELSE {}
Mine(c) == Making(c) \cup Closing(c)

\* those whose native object it has not released yet, and that still hold the DB, or
\* the snapshot, while they are closed
ToFree(c)        == IF c.pc \in {"freeBatch", "delete", "release", "free"} THEN {c.o} ELSE {}
KeepsDb(c)       == IF c.pc \in {"release", "unrefBySnapshot"} THEN {c.o, c.within} \ {db}
                    ELSE IF c.pc = "clearSnapshot" THEN {c.within} \ {db}
                    ELSE IF c.pc \in {"free", "unrefSnapshot", "unrefByIterator"}
                    THEN {c.o} ELSE {}
KeepsSnapshot(c) == IF c.pc \in {"free", "unrefSnapshot"} THEN {c.o} ELSE {}

\* those that hold the DB, or the snapshot, while they are made
GotDb(c)         == IF c.pc \in {"snapshot", "refSnapshot", "iterator"} THEN {c.o} ELSE {}
GotSnapshot(c)   == IF c.pc = "iterator" THEN {c.o} ELSE {}

HoldsDb(st, h) ==
    \/ h \in mPtr /\ \A t \in Threads : h \in Closing(st[t]) => h \in KeepsDb(st[t])
    \/ \E t \in Threads : h \in GotDb(st[t])
HoldsSnapshot(st, h) ==
    \/ h \in mPtr /\ \A t \in Threads : h \in Closing(st[t]) => h \in KeepsSnapshot(st[t])
    \/ \E t \in Threads : h \in GotSnapshot(st[t])
Owns(o) == o \notin closing /\ (o = db \/ o \in mPtr)

Holders(st, o) ==
    {h \in Handles : o = db /\ HoldsDb(st, h)}
      \cup {h \in Iterators : o \in Snapshots /\ source[h] = o /\ HoldsSnapshot(st, h)}
      \cup {h \in {o} : Owns(h)}

----------------------------------------------------------------------------
(* The inductive invariant, for threads at the stages st.                  *)

TypesInv ==
    /\ mPtr \subseteq wrappers /\ native \subseteq mPtr
    /\ wrappers \subseteq Objects /\ closing \subseteq wrappers
    /\ mRefCount \in [Objects -> Nat]
    /\ source \in [Iterators -> Snapshots \cup {None}]
    /\ wrappers \cap Handles # {} => db \in wrappers
    /\ \A h \in Iterators : h \in wrappers /\ source[h] # None => source[h] \in wrappers
    /\ db \in native => files

StagesInv(st) ==
    /\ st \in [Threads -> Stage]
    /\ todo = [t \in Threads |-> Steps(st[t])]

CountsInv(st) ==
    \A o \in Objects : /\ IsFiniteSet(Holders(st, o))
                       /\ mRefCount[o] = Cardinality(Holders(st, o))

\* A wrapper is made or closed by one thread, and closed once nobody holds it.
LifeInv(st) ==
    /\ \A t, u \in Threads : \A o \in Objects :
         (o \in Mine(st[t]) /\ o \in Mine(st[u])) => t = u
    /\ \A t \in Threads, o \in Objects :
         /\ o \in Making(st[t]) => (o \in wrappers /\ o \notin mPtr /\ o \notin closing)
         /\ o \in Closing(st[t]) => (o \in mPtr /\ o \in closing /\ mRefCount[o] = 0)
    /\ \A o \in mPtr :
         /\ o \in native <=> (\A t \in Threads : o \in Closing(st[t]) => o \in ToFree(st[t]))
         /\ mRefCount[o] = 0 => (\E t \in Threads : o \in Closing(st[t]))
    /\ \A o \in wrappers \ mPtr :
         /\ mRefCount[o] = 0
         /\ o \notin closing => (\E t \in Threads : o \in Making(st[t]))

\* What a call under way uses is open.
Open_(o) == o \in mPtr /\ o \notin closing
UsesAt(c) ==
    /\ c.pc \in {"call", "with"} => Open_(c.o)
    /\ c.pc \in {"with", "refForSnapshot", "refForIterator"} => Open_(db)
    /\ (c.pc \in {"refForIterator", "refSnapshot"} /\ source[c.o] # None)
         => Open_(source[c.o])
    /\ c.pc \in {"refSnapshot", "unrefSnapshot"} => source[c.o] # None
UsesInv(st) == \A t \in Threads : UsesAt(st[t])

RefInvOf(st) ==
    TypesInv /\ StagesInv(st) /\ CountsInv(st) /\ LifeInv(st) /\ UsesInv(st)

RefInv == \E st \in [Threads -> Stage] : RefInvOf(st)

----------------------------------------------------------------------------
(* Stages and steps.                                                       *)

LEMMA ConcatIs ==
  ASSUME NEW S, NEW x \in Seq(S), NEW y \in Seq(S), NEW z \in Seq(S),
         Len(z) = Len(x) + Len(y),
         \A i \in 1..Len(z) : z[i] = IF i <= Len(x) THEN x[i] ELSE y[i - Len(x)]
  PROVE  x \o y = z
<1>1. x \o y \in Seq(S) /\ Len(x \o y) = Len(z) BY ConcatProperties
<1>2. \A i \in 1..Len(x \o y) : (x \o y)[i] = z[i] BY <1>1, ConcatProperties
<1>   QED BY <1>1, <1>2, SeqEqual

LEMMA Concat11 ==
  ASSUME NEW a, NEW b
  PROVE  <<a>> \o <<b>> = <<a, b>>
<1>   DEFINE S == {a, b}
             x == <<a>>
             y == <<b>>
             z == <<a, b>>
<1>1. x \in Seq(S) /\ y \in Seq(S) /\ z \in Seq(S) OBVIOUS
<1>2. Len(x) = 1 /\ Len(y) = 1 /\ Len(z) = 2 OBVIOUS
<1>3. \A i \in 1..2 : z[i] = IF i <= 1 THEN x[i] ELSE y[i - 1] OBVIOUS
<1>   HIDE DEF S, x, y, z
<1>4. \A i \in 1..Len(z) : z[i] = IF i <= Len(x) THEN x[i] ELSE y[i - Len(x)] BY <1>2, <1>3
<1>5. Len(z) = Len(x) + Len(y) BY <1>2
<1>6. x \o y = z BY <1>1, <1>4, <1>5, ConcatIs
<1>   QED BY <1>6 DEF x, y, z

LEMMA Concat21 ==
  ASSUME NEW a, NEW b, NEW c
  PROVE  <<a, b>> \o <<c>> = <<a, b, c>>
<1>   DEFINE S == {a, b, c}
             x == <<a, b>>
             y == <<c>>
             z == <<a, b, c>>
<1>1. x \in Seq(S) /\ y \in Seq(S) /\ z \in Seq(S) OBVIOUS
<1>2. Len(x) = 2 /\ Len(y) = 1 /\ Len(z) = 3 OBVIOUS
<1>3. \A i \in 1..3 : z[i] = IF i <= 2 THEN x[i] ELSE y[i - 2] OBVIOUS
<1>   HIDE DEF S, x, y, z
<1>4. \A i \in 1..Len(z) : z[i] = IF i <= Len(x) THEN x[i] ELSE y[i - Len(x)] BY <1>2, <1>3
<1>5. Len(z) = Len(x) + Len(y) BY <1>2
<1>6. x \o y = z BY <1>1, <1>4, <1>5, ConcatIs
<1>   QED BY <1>6 DEF x, y, z

LEMMA Concat31 ==
  ASSUME NEW a, NEW b, NEW c, NEW d
  PROVE  <<a, b, c>> \o <<d>> = <<a, b, c, d>>
<1>   DEFINE S == {a, b, c, d}
             x == <<a, b, c>>
             y == <<d>>
             z == <<a, b, c, d>>
<1>1. x \in Seq(S) /\ y \in Seq(S) /\ z \in Seq(S) OBVIOUS
<1>2. Len(x) = 3 /\ Len(y) = 1 /\ Len(z) = 4 OBVIOUS
<1>3. \A i \in 1..4 : z[i] = IF i <= 3 THEN x[i] ELSE y[i - 3] OBVIOUS
<1>   HIDE DEF S, x, y, z
<1>4. \A i \in 1..Len(z) : z[i] = IF i <= Len(x) THEN x[i] ELSE y[i - Len(x)] BY <1>2, <1>3
<1>5. Len(z) = Len(x) + Len(y) BY <1>2
<1>6. x \o y = z BY <1>1, <1>4, <1>5, ConcatIs
<1>   QED BY <1>6 DEF x, y, z

LEMMA Concat32 ==
  ASSUME NEW a, NEW b, NEW c, NEW d, NEW e
  PROVE  <<a, b, c>> \o <<d, e>> = <<a, b, c, d, e>>
<1>   DEFINE S == {a, b, c, d, e}
             x == <<a, b, c>>
             y == <<d, e>>
             z == <<a, b, c, d, e>>
<1>1. x \in Seq(S) /\ y \in Seq(S) /\ z \in Seq(S) OBVIOUS
<1>2. Len(x) = 3 /\ Len(y) = 2 /\ Len(z) = 5 OBVIOUS
<1>3. \A i \in 1..5 : z[i] = IF i <= 3 THEN x[i] ELSE y[i - 3] OBVIOUS
<1>   HIDE DEF S, x, y, z
<1>4. \A i \in 1..Len(z) : z[i] = IF i <= Len(x) THEN x[i] ELSE y[i - Len(x)] BY <1>2, <1>3
<1>5. Len(z) = Len(x) + Len(y) BY <1>2
<1>6. x \o y = z BY <1>1, <1>4, <1>5, ConcatIs
<1>   QED BY <1>6 DEF x, y, z


LEMMA Concat10 ==
  ASSUME NEW a
  PROVE  <<a>> \o <<>> = <<a>>
<1>   DEFINE S == {a}
             x == <<a>>
<1>1. x \in Seq(S) OBVIOUS
<1>   HIDE DEF S, x
<1>2. x \o <<>> = x BY <1>1, ConcatEmptySeq
<1>   QED BY <1>2 DEF x

LEMMA Concat20 ==
  ASSUME NEW a, NEW b
  PROVE  <<a, b>> \o <<>> = <<a, b>>
<1>   DEFINE S == {a, b}
             x == <<a, b>>
<1>1. x \in Seq(S) OBVIOUS
<1>   HIDE DEF S, x
<1>2. x \o <<>> = x BY <1>1, ConcatEmptySeq
<1>   QED BY <1>2 DEF x

LEMMA Concat30 ==
  ASSUME NEW a, NEW b, NEW c
  PROVE  <<a, b, c>> \o <<>> = <<a, b, c>>
<1>   DEFINE S == {a, b, c}
             x == <<a, b, c>>
<1>1. x \in Seq(S) OBVIOUS
<1>   HIDE DEF S, x
<1>2. x \o <<>> = x BY <1>1, ConcatEmptySeq
<1>   QED BY <1>2 DEF x

LEMMA Concat40 ==
  ASSUME NEW a, NEW b, NEW c, NEW d
  PROVE  <<a, b, c, d>> \o <<>> = <<a, b, c, d>>
<1>   DEFINE S == {a, b, c, d}
             x == <<a, b, c, d>>
<1>1. x \in Seq(S) OBVIOUS
<1>   HIDE DEF S, x
<1>2. x \o <<>> = x BY <1>1, ConcatEmptySeq
<1>   QED BY <1>2 DEF x

LEMMA Unwind ==
  ASSUME NEW c \in Stage, TypesInv, c.pc # "idle",
         c.pc \in {"refSnapshot", "unrefSnapshot"} => source[c.o] # None
  PROVE  /\ Then(c) \in Stage
         /\ Steps(c) # <<>>
         /\ Head(Steps(c)) = First(c)
         /\ Tail(Steps(c)) = Steps(Then(c))
<1>   USE NativeObjectAssumption DEF Handles, Objects
<1>1. c.o \in Objects /\ c.within \in Objects BY DEF Stage
<1>2. c.o \in Iterators => source[c.o] \in Snapshots \cup {None} BY DEF TypesInv
<1>3. Then(c) \in Stage
  BY <1>1 DEF Stage, Then, At_, AfterSource
<1>4. Steps(c) # <<>> /\ Head(Steps(c)) = First(c)
  BY <1>1, <1>2 DEF Stage, Steps, First
<1>5. Tail(Steps(c)) = Steps(Then(c))
  <2>1. CASE c.pc \in {"call", "with", "destroy", "snapshot", "iterator"}
    <3>1. Then(c) = At_("idle", db, db) BY <2>1 DEF Then
    <3>2. Steps(At_("idle", db, db)) = <<>> BY DEF Steps, At_
    <3>3. Tail(Steps(c)) = <<>> BY <1>1, <2>1 DEF Steps, Stage
    <3>   QED BY <3>1, <3>2, <3>3
  <2>2. CASE c.pc \in {"clearBatch", "clearIterator"}
    <3>1. Then(c) = At_("idle", db, db) BY <2>2 DEF Then
    <3>2. Steps(At_("idle", db, db)) = <<>> BY DEF Steps, At_
    <3>3. Tail(Steps(c)) = <<>> BY <1>1, <2>2 DEF Steps, Stage
    <3>   QED BY <3>1, <3>2, <3>3
  <2>3. CASE c.pc = "refForSnapshot"
    <3>1. Then(c) = At_("snapshot", c.o, db) BY <2>3 DEF Then
    <3>2. Steps(At_("snapshot", c.o, db)) = <<<<"snapshot", c.o>>>> BY DEF Steps, At_
    <3>3. Tail(Steps(c)) = <<<<"snapshot", c.o>>>> BY <1>1, <2>3 DEF Steps, Stage
    <3>   QED BY <3>1, <3>2, <3>3
  <2>4. CASE c.pc = "refForIterator"
    <3>1. CASE source[c.o] = None
      <4>1. Then(c) = At_("iterator", c.o, db) BY <2>4, <3>1 DEF Then, AfterSource
      <4>2. Steps(At_("iterator", c.o, db)) = <<<<"iterator", c.o>>>> BY DEF Steps, At_
      <4>3. Tail(Steps(c)) = <<<<"iterator", c.o>>>> BY <2>4, <3>1 DEF Steps
      <4>   QED BY <4>1, <4>2, <4>3
    <3>2. CASE source[c.o] # None
      <4>1. Then(c) = At_("refSnapshot", c.o, db) BY <2>4, <3>2 DEF Then, AfterSource
      <4>2. Steps(At_("refSnapshot", c.o, db)) = <<<<"ref", source[c.o]>>, <<"iterator", c.o>>>> BY DEF Steps, At_
      <4>3. Tail(Steps(c)) = <<<<"ref", source[c.o]>>, <<"iterator", c.o>>>> BY <2>4, <3>2 DEF Steps
      <4>   QED BY <4>1, <4>2, <4>3
    <3>   QED BY <3>1, <3>2
  <2>5. CASE c.pc = "refSnapshot"
    <3>1. Then(c) = At_("iterator", c.o, db) BY <2>5 DEF Then
    <3>2. Steps(At_("iterator", c.o, db)) = <<<<"iterator", c.o>>>> BY DEF Steps, At_
    <3>3. Tail(Steps(c)) = <<<<"iterator", c.o>>>> BY <1>1, <2>5 DEF Steps, Stage
    <3>   QED BY <3>1, <3>2, <3>3
  <2>6. CASE c.pc = "freeBatch"
    <3>1. Then(c) = At_("clearBatch", c.o, db) BY <2>6 DEF Then
    <3>2. Steps(At_("clearBatch", c.o, db)) = <<<<"clear", c.o>>>> BY DEF Steps, At_
    <3>3. Tail(Steps(c)) = <<<<"clear", c.o>>>> BY <1>1, <2>6 DEF Steps, Stage
    <3>   QED BY <3>1, <3>2, <3>3
  <2>7. CASE c.pc = "delete"
    <3>1. Then(c) = At_("clearDb", db, c.within) BY <2>7 DEF Then
    <3>2. Steps(At_("clearDb", db, c.within)) = IF c.within = db THEN <<<<"clear", db>>>> ELSE <<<<"clear", db>>, <<"clear", c.within>>>> BY DEF Steps, At_
    <3>3. Tail(Steps(c)) = IF c.within = db THEN <<<<"clear", db>>>> ELSE <<<<"clear", db>>, <<"clear", c.within>>>> BY <1>1, <2>7 DEF Steps, Stage
    <3>   QED BY <3>1, <3>2, <3>3
  <2>8. CASE c.pc = "clearDb"
    BY <1>1, <1>2, <2>8 DEF Stage, Steps, Then, At_, AfterSource
  <2>9. CASE c.pc = "release"
    <3>1. Then(c) = At_("unrefBySnapshot", c.o, c.within) BY <2>9 DEF Then
    <3>2. Steps(At_("unrefBySnapshot", c.o, c.within)) = IF c.within = db THEN <<<<"unref", db>>, <<"clear", c.o>>>> ELSE <<<<"unref", db>>, <<"clear", c.o>>, <<"unref", db>>, <<"clear", c.within>>>> BY DEF Steps, At_
    <3>3. Tail(Steps(c)) = IF c.within = db THEN <<<<"unref", db>>, <<"clear", c.o>>>> ELSE <<<<"unref", db>>, <<"clear", c.o>>, <<"unref", db>>, <<"clear", c.within>>>> BY <1>1, <2>9 DEF Steps, Stage
    <3>   QED BY <3>1, <3>2, <3>3
  <2>10. CASE c.pc = "unrefBySnapshot"
    <3>1. Then(c) = At_("clearSnapshot", c.o, c.within) BY <2>10 DEF Then
    <3>2. Steps(At_("clearSnapshot", c.o, c.within)) = IF c.within = db THEN <<<<"clear", c.o>>>> ELSE <<<<"clear", c.o>>, <<"unref", db>>, <<"clear", c.within>>>> BY DEF Steps, At_
    <3>3. Tail(Steps(c)) = IF c.within = db THEN <<<<"clear", c.o>>>> ELSE <<<<"clear", c.o>>, <<"unref", db>>, <<"clear", c.within>>>> BY <1>1, <2>10 DEF Steps, Stage
    <3>   QED BY <3>1, <3>2, <3>3
  <2>11. CASE c.pc = "clearSnapshot"
    BY <1>1, <1>2, <2>11 DEF Stage, Steps, Then, At_, AfterSource
  <2>12. CASE c.pc = "free"
    <3>1. CASE source[c.o] = None
      <4>1. Then(c) = At_("unrefByIterator", c.o, db) BY <2>12, <3>1 DEF Then, AfterSource
      <4>2. Steps(At_("unrefByIterator", c.o, db)) = <<<<"unref", db>>, <<"clear", c.o>>>> BY DEF Steps, At_
      <4>3. Tail(Steps(c)) = <<<<"unref", db>>, <<"clear", c.o>>>> BY <2>12, <3>1 DEF Steps
      <4>   QED BY <4>1, <4>2, <4>3
    <3>2. CASE source[c.o] # None
      <4>1. Then(c) = At_("unrefSnapshot", c.o, db) BY <2>12, <3>2 DEF Then, AfterSource
      <4>2. Steps(At_("unrefSnapshot", c.o, db)) = <<<<"unref", source[c.o]>>, <<"unref", db>>, <<"clear", c.o>>>> BY DEF Steps, At_
      <4>3. Tail(Steps(c)) = <<<<"unref", source[c.o]>>, <<"unref", db>>, <<"clear", c.o>>>> BY <2>12, <3>2 DEF Steps
      <4>   QED BY <4>1, <4>2, <4>3
    <3>   QED BY <3>1, <3>2
  <2>13. CASE c.pc = "unrefSnapshot"
    <3>1. Then(c) = At_("unrefByIterator", c.o, db) BY <2>13 DEF Then
    <3>2. Steps(At_("unrefByIterator", c.o, db)) = <<<<"unref", db>>, <<"clear", c.o>>>> BY DEF Steps, At_
    <3>3. Tail(Steps(c)) = <<<<"unref", db>>, <<"clear", c.o>>>> BY <1>1, <2>13 DEF Steps, Stage
    <3>   QED BY <3>1, <3>2, <3>3
  <2>14. CASE c.pc = "unrefByIterator"
    <3>1. Then(c) = At_("clearIterator", c.o, db) BY <2>14 DEF Then
    <3>2. Steps(At_("clearIterator", c.o, db)) = <<<<"clear", c.o>>>> BY DEF Steps, At_
    <3>3. Tail(Steps(c)) = <<<<"clear", c.o>>>> BY <1>1, <2>14 DEF Steps, Stage
    <3>   QED BY <3>1, <3>2, <3>3
  <2>   QED
    BY <2>1, <2>2, <2>3, <2>4, <2>5, <2>6, <2>7, <2>8, <2>9, <2>10, <2>11, <2>12, <2>13, <2>14 DEF Stage
<1>   QED BY <1>3, <1>4, <1>5

LEMMA StepsAreSeq ==
  ASSUME NEW c \in Stage
  PROVE  \E S : Steps(c) \in Seq(S)
<1>   DEFINE o == c.o
             clear == <<"clear", o>>
             clearW == <<"clear", c.within>>
             unref == <<"unref", db>>
             by == <<c.pc, o>>
             S == {clear, clearW, unref, by, <<"ref", db>>, <<"snapshot", o>>, <<"iterator", o>>,
                   <<"ref", source[o]>>, <<"unref", source[o]>>, <<"free", o>>,
                   <<"release", o>>, <<"delete", db>>}
<1>0. ASSUME NEW u \in S, NEW v \in S, NEW w \in S, NEW x \in S, NEW y \in S
      PROVE  /\ <<>> \in Seq(S) /\ <<u>> \in Seq(S) /\ <<u, v>> \in Seq(S)
             /\ <<u, v, w>> \in Seq(S) /\ <<u, v, w, x>> \in Seq(S)
             /\ <<u, v, w, x, y>> \in Seq(S)
  <2>   HIDE DEF S, clear, clearW, unref, by
  <2>   QED BY <1>0
<1>5. clear \in S /\ clearW \in S /\ unref \in S /\ by \in S OBVIOUS
<1>6. <<"ref", db>> \in S /\ <<"snapshot", o>> \in S /\ <<"iterator", o>> \in S
      /\ <<"ref", source[o]>> \in S /\ <<"unref", source[o]>> \in S /\ <<"free", o>> \in S
      /\ <<"release", o>> \in S /\ <<"delete", db>> \in S
  OBVIOUS
<1>   HIDE DEF S
<1>1. CASE c.pc \in {"idle", "call", "with", "destroy", "snapshot", "iterator",
                     "clearBatch", "clearIterator"}
  <2>1. Steps(c) \in {<<>>, <<by>>, <<clear>>} BY <1>1 DEF Steps
  <2>   QED BY <2>1, <1>0, <1>5, <1>6
<1>2. CASE c.pc \in {"refForSnapshot", "refForIterator", "refSnapshot", "freeBatch",
                     "unrefByIterator"}
  <2>1. Steps(c) \in {<<<<"ref", db>>, <<"snapshot", o>>>>, <<<<"ref", db>>, <<"iterator", o>>>>,
                      <<<<"ref", db>>, <<"ref", source[o]>>, <<"iterator", o>>>>,
                      <<<<"ref", source[o]>>, <<"iterator", o>>>>,
                      <<<<"free", o>>, clear>>, <<unref, clear>>}
    BY <1>2 DEF Steps
  <2>2. <<<<"ref", db>>, <<"snapshot", o>>>> \in Seq(S) BY <1>0, <1>5, <1>6
  <2>3. <<<<"ref", db>>, <<"iterator", o>>>> \in Seq(S) BY <1>0, <1>5, <1>6
  <2>4. <<<<"ref", db>>, <<"ref", source[o]>>, <<"iterator", o>>>> \in Seq(S) BY <1>0, <1>5, <1>6
  <2>5. <<<<"ref", source[o]>>, <<"iterator", o>>>> \in Seq(S) BY <1>0, <1>5, <1>6
  <2>6. <<<<"free", o>>, clear>> \in Seq(S) BY <1>0, <1>5, <1>6
  <2>7. <<unref, clear>> \in Seq(S) BY <1>0, <1>5, <1>6
  <2>   QED BY <2>1, <2>2, <2>3, <2>4, <2>5, <2>6, <2>7
<1>3. CASE c.pc \in {"delete", "clearDb", "clearSnapshot", "unrefBySnapshot"}
  <2>1. Steps(c) \in {<<<<"delete", db>>, clear>>, <<<<"delete", db>>, clear, clearW>>, <<clear>>,
                      <<clear, clearW>>, <<clear, unref, clearW>>, <<unref, clear>>,
                      <<unref, clear, unref, clearW>>}
    BY <1>3 DEF Steps
  <2>2. <<<<"delete", db>>, clear>> \in Seq(S) BY <1>0, <1>5, <1>6
  <2>3. <<<<"delete", db>>, clear, clearW>> \in Seq(S) BY <1>0, <1>5, <1>6
  <2>4. <<clear>> \in Seq(S) BY <1>0, <1>5, <1>6
  <2>5. <<clear, clearW>> \in Seq(S) BY <1>0, <1>5, <1>6
  <2>6. <<clear, unref, clearW>> \in Seq(S) BY <1>0, <1>5, <1>6
  <2>7. <<unref, clear>> \in Seq(S) BY <1>0, <1>5, <1>6
  <2>8. <<unref, clear, unref, clearW>> \in Seq(S) BY <1>0, <1>5, <1>6
  <2>   QED BY <2>1, <2>2, <2>3, <2>4, <2>5, <2>6, <2>7, <2>8
<1>4. CASE c.pc \in {"release", "free", "unrefSnapshot"}
  <2>1. Steps(c) \in {<<<<"release", o>>, unref, clear>>,
                      <<<<"release", o>>, unref, clear, unref, clearW>>,
                      <<<<"free", o>>, unref, clear>>,
                      <<<<"free", o>>, <<"unref", source[o]>>, unref, clear>>,
                      <<<<"unref", source[o]>>, unref, clear>>}
    BY <1>4 DEF Steps
  <2>2. <<<<"release", o>>, unref, clear>> \in Seq(S) BY <1>0, <1>5, <1>6
  <2>3. <<<<"release", o>>, unref, clear, unref, clearW>> \in Seq(S) BY <1>0, <1>5, <1>6
  <2>4. <<<<"free", o>>, unref, clear>> \in Seq(S) BY <1>0, <1>5, <1>6
  <2>5. <<<<"free", o>>, <<"unref", source[o]>>, unref, clear>> \in Seq(S) BY <1>0, <1>5, <1>6
  <2>6. <<<<"unref", source[o]>>, unref, clear>> \in Seq(S) BY <1>0, <1>5, <1>6
  <2>   QED BY <2>1, <2>2, <2>3, <2>4, <2>5, <2>6
<1>   QED BY <1>1, <1>2, <1>3, <1>4 DEF Stage

\* Where a thread is says what it does next.
LEMMA Reached ==
  ASSUME NEW st, TypesInv, StagesInv(st), UsesInv(st), NEW t \in Threads
  PROVE  /\ st[t] \in Stage
         /\ Idle(t) <=> st[t].pc = "idle"
         /\ ~Idle(t) => /\ Current(t) = First(st[t])
                        /\ Then(st[t]) \in Stage
                        /\ Tail(todo[t]) = Steps(Then(st[t]))
                        /\ Goes(t, <<>>) =>
                             todo' = [todo EXCEPT ![t] = Steps(Then(st[t]))]
<1>1. st[t] \in Stage /\ todo[t] = Steps(st[t]) BY DEF StagesInv
<1>2. st[t].pc = "idle" => Idle(t) BY <1>1 DEF Steps, Idle
<1>3. ASSUME st[t].pc # "idle"
      PROVE  /\ Then(st[t]) \in Stage /\ ~Idle(t) /\ Current(t) = First(st[t])
             /\ Tail(todo[t]) = Steps(Then(st[t]))
  BY <1>1, <1>3, Unwind DEF UsesInv, UsesAt, Idle, Current
<1>4. ASSUME st[t].pc # "idle", Goes(t, <<>>)
      PROVE  todo' = [todo EXCEPT ![t] = Steps(Then(st[t]))]
  <2>1. <<>> \o Steps(Then(st[t])) = Steps(Then(st[t]))
    BY <1>3, <1>4, StepsAreSeq, ConcatEmptySeq
  <2>   QED BY <1>3, <1>4, <2>1 DEF Goes
<1>   QED BY <1>1, <1>2, <1>3, <1>4

\* The closing of o within the closing of another wrapper, of which rest is left.
LEMMA Nest ==
  ASSUME TypesInv, NEW o \in Objects, NEW within \in {db} \cup Handles,
         within # db => (o = db \/ (o \in Snapshots /\ within \in Iterators))
  PROVE  /\ Begins(o, within) \in Stage
         /\ CloseNativeObject(o) \o <<<<"clear", o>>>>
              \o (IF within = db THEN <<>>
                  ELSE IF o = db THEN <<<<"clear", within>>>>
                  ELSE <<<<"unref", db>>, <<"clear", within>>>>)
            = Steps(Begins(o, within))
<1>   USE NativeObjectAssumption DEF Handles, Objects
<1>1. Begins(o, within) \in Stage BY DEF Begins, At_, Stage
<1>   DEFINE clear == <<"clear", o>>
<1>2. CASE o = db
  <2>1. CloseNativeObject(o) = <<<<"delete", db>>>> BY <1>2 DEF CloseNativeObject
  <2>2. Steps(Begins(o, within)) = IF within = db THEN <<<<"delete", db>>, <<"clear", db>>>>
          ELSE <<<<"delete", db>>, <<"clear", db>>, <<"clear", within>>>>
    BY <1>2 DEF Begins, Steps, At_
  <2>3. <<<<"delete", db>>, <<"clear", db>>>> \o <<>> = <<<<"delete", db>>, <<"clear", db>>>>
    BY Concat20
  <2>4. CASE within = db BY <1>1, <1>2, <2>1, <2>2, <2>3, <2>4, Concat11
  <2>5. CASE within # db
    <3>1. CloseNativeObject(o) \o <<clear>> = <<<<"delete", db>>, <<"clear", db>>>>
      BY <1>2, <2>1, Concat11
    <3>2. CloseNativeObject(o) \o <<clear>> \o <<<<"clear", within>>>>
            = <<<<"delete", db>>, <<"clear", db>>, <<"clear", within>>>>
      BY <3>1, Concat21
    <3>   QED BY <1>1, <1>2, <2>2, <2>5, <3>2
  <2>   QED BY <2>4, <2>5
<1>3. CASE o \in Batches
  <2>1. CloseNativeObject(o) = <<<<"free", o>>>> BY <1>3 DEF CloseNativeObject
  <2>2. Steps(Begins(o, within)) = <<<<"free", o>>, clear>>
    BY <1>3 DEF Begins, Steps, At_
  <2>3. <<<<"free", o>>, clear>> \o <<>> = <<<<"free", o>>, clear>>
    BY Concat20
  <2>4. within = db BY <1>3
  <2>   QED BY <1>1, <2>1, <2>2, <2>3, <2>4, Concat11
<1>4. CASE o \in Snapshots
  <2>1. CloseNativeObject(o) = <<<<"release", o>>, <<"unref", db>>>>
    BY <1>4 DEF CloseNativeObject
  <2>2. Steps(Begins(o, within)) =
          IF within = db THEN <<<<"release", o>>, <<"unref", db>>, clear>>
          ELSE <<<<"release", o>>, <<"unref", db>>, clear, <<"unref", db>>, <<"clear", within>>>>
    BY <1>4 DEF Begins, Steps, At_
  <2>3. <<<<"release", o>>, <<"unref", db>>, clear>> \o <<>>
          = <<<<"release", o>>, <<"unref", db>>, clear>>
    BY Concat30
  <2>4. o # db BY <1>4
  <2>7. CloseNativeObject(o) \o <<clear>> = <<<<"release", o>>, <<"unref", db>>, clear>>
    BY <2>1, Concat21
  <2>5. CASE within = db BY <1>1, <2>2, <2>3, <2>5, <2>7
  <2>6. CASE within # db
    <3>1. CloseNativeObject(o) \o <<clear>> \o <<<<"unref", db>>, <<"clear", within>>>>
            = <<<<"release", o>>, <<"unref", db>>, clear, <<"unref", db>>, <<"clear", within>>>>
      <4>1. <<<<"release", o>>, <<"unref", db>>, clear>> \o <<<<"unref", db>>, <<"clear", within>>>>
             = <<<<"release", o>>, <<"unref", db>>, clear, <<"unref", db>>, <<"clear", within>>>>
        BY Concat32
      <4>   QED BY <2>7, <4>1
    <3>   QED BY <1>1, <2>2, <2>4, <2>6, <3>1
  <2>   QED BY <2>5, <2>6
<1>5. CASE o \in Iterators
  <2>1. within = db /\ o # db /\ o \notin Snapshots /\ o \notin Batches BY <1>5
  <2>2. CASE source[o] = None
    <3>1. CloseNativeObject(o) = <<<<"free", o>>>> \o <<>> \o <<<<"unref", db>>>>
      BY <2>1, <2>2 DEF CloseNativeObject
    <3>2. <<<<"free", o>>>> \o <<>> = <<<<"free", o>>>>
      BY Concat10
    <3>3. Steps(Begins(o, within)) = <<<<"free", o>>, <<"unref", db>>, clear>>
      BY <2>1, <2>2 DEF Begins, Steps, At_
    <3>4. <<<<"free", o>>, <<"unref", db>>, clear>> \o <<>>
            = <<<<"free", o>>, <<"unref", db>>, clear>>
      BY Concat30
    <3>5. CloseNativeObject(o) = <<<<"free", o>>, <<"unref", db>>>> BY <3>1, <3>2, Concat11
    <3>6. CloseNativeObject(o) \o <<clear>> = <<<<"free", o>>, <<"unref", db>>, clear>>
      BY <3>5, Concat21
    <3>   QED BY <1>1, <2>1, <3>3, <3>4, <3>6
  <2>3. CASE source[o] # None
    <3>   DEFINE s == source[o]
    <3>0. s \in Objects BY <1>5, <2>3 DEF TypesInv
    <3>1. CloseNativeObject(o) = <<<<"free", o>>>> \o <<<<"unref", s>>>> \o <<<<"unref", db>>>>
      BY <2>1, <2>3 DEF CloseNativeObject
    <3>3. Steps(Begins(o, within)) = <<<<"free", o>>, <<"unref", s>>, <<"unref", db>>, clear>>
      BY <2>1, <2>3 DEF Begins, Steps, At_
    <3>4. <<<<"free", o>>, <<"unref", s>>, <<"unref", db>>, clear>> \o <<>>
            = <<<<"free", o>>, <<"unref", s>>, <<"unref", db>>, clear>>
      BY Concat40
    <3>5. CloseNativeObject(o) = <<<<"free", o>>, <<"unref", s>>, <<"unref", db>>>>
      <4>1. <<<<"free", o>>>> \o <<<<"unref", s>>>> = <<<<"free", o>>, <<"unref", s>>>>
        BY Concat11
      <4>   QED BY <3>1, <4>1, Concat21
    <3>6. CloseNativeObject(o) \o <<clear>>
            = <<<<"free", o>>, <<"unref", s>>, <<"unref", db>>, clear>>
      BY <3>5, Concat31
    <3>   QED BY <1>1, <2>1, <3>3, <3>4, <3>6
  <2>   QED BY <2>2, <2>3
<1>   QED BY <1>2, <1>3, <1>4, <1>5

----------------------------------------------------------------------------
(* Holders.                                                                *)

LEMMA Roles ==
  ASSUME NEW c \in Stage
  PROVE  /\ GotDb(c) \subseteq Making(c) /\ GotSnapshot(c) \subseteq Making(c)
         /\ KeepsDb(c) \subseteq Closing(c) /\ KeepsSnapshot(c) \subseteq Closing(c)
         /\ ToFree(c) \subseteq Closing(c)
         /\ Mine(c) \subseteq Objects
BY NativeObjectAssumption
DEF Stage, GotDb, GotSnapshot, Making, KeepsDb, KeepsSnapshot, Closing, ToFree, Mine, Objects

\* Whether h holds a reference is changed only by the thread that makes or closes h,
\* and can be seen from the stage of that thread.
LEMMA Local ==
  ASSUME NEW st \in [Threads -> Stage], NEW t \in Threads, NEW c2 \in Stage, NEW h \in Objects
  PROVE  LET st2 == [st EXCEPT ![t] = c2]
             c1  == st[t]
             alone == \A u \in Threads \ {t} : h \notin Mine(st[u])
         IN  /\ (h \notin Mine(c1) \cup Mine(c2) /\ (h \in mPtr' <=> h \in mPtr))
                  => /\ HoldsDb(st2, h)' <=> HoldsDb(st, h)
                     /\ HoldsSnapshot(st2, h)' <=> HoldsSnapshot(st, h)
             /\ alone =>
                  /\ HoldsDb(st, h) <=>
                       \/ h \in mPtr /\ (h \in Closing(c1) => h \in KeepsDb(c1))
                       \/ h \in GotDb(c1)
                  /\ HoldsSnapshot(st, h) <=>
                       \/ h \in mPtr /\ (h \in Closing(c1) => h \in KeepsSnapshot(c1))
                       \/ h \in GotSnapshot(c1)
                  /\ HoldsDb(st2, h)' <=>
                       \/ h \in mPtr' /\ (h \in Closing(c2) => h \in KeepsDb(c2))
                       \/ h \in GotDb(c2)
                  /\ HoldsSnapshot(st2, h)' <=>
                       \/ h \in mPtr' /\ (h \in Closing(c2) => h \in KeepsSnapshot(c2))
                       \/ h \in GotSnapshot(c2)
<1>   DEFINE st2 == [st EXCEPT ![t] = c2]
<1>1. st2[t] = c2 /\ (\A u \in Threads \ {t} : st2[u] = st[u]) OBVIOUS
<1>2. \A u \in Threads : st[u] \in Stage OBVIOUS
<1>   HIDE DEF st2
<1>3. (h \notin Mine(st[t]) \cup Mine(c2) /\ (h \in mPtr' <=> h \in mPtr))
        => /\ HoldsDb(st2, h)' <=> HoldsDb(st, h)
           /\ HoldsSnapshot(st2, h)' <=> HoldsSnapshot(st, h)
  BY <1>1, <1>2, Roles DEF HoldsDb, HoldsSnapshot, Mine
<1>4. ASSUME \A u \in Threads \ {t} : h \notin Mine(st[u])
      PROVE  /\ HoldsDb(st, h) <=>
                  \/ h \in mPtr /\ (h \in Closing(st[t]) => h \in KeepsDb(st[t]))
                  \/ h \in GotDb(st[t])
             /\ HoldsSnapshot(st, h) <=>
                  \/ h \in mPtr /\ (h \in Closing(st[t]) => h \in KeepsSnapshot(st[t]))
                  \/ h \in GotSnapshot(st[t])
             /\ HoldsDb(st2, h)' <=>
                  \/ h \in mPtr' /\ (h \in Closing(c2) => h \in KeepsDb(c2))
                  \/ h \in GotDb(c2)
             /\ HoldsSnapshot(st2, h)' <=>
                  \/ h \in mPtr' /\ (h \in Closing(c2) => h \in KeepsSnapshot(c2))
                  \/ h \in GotSnapshot(c2)
  BY <1>1, <1>2, <1>4, Roles DEF HoldsDb, HoldsSnapshot, Mine
<1>   QED BY <1>3, <1>4 DEF st2

\* The three ways in which the holders of the wrappers change in a step
LEMMA SameHolders ==
  ASSUME NEW st, NEW st2, CountsInv(st), UNCHANGED mRefCount,
         \A x \in Objects : Holders(st2, x)' = Holders(st, x)
  PROVE  CountsInv(st2)'
BY DEF CountsInv, Objects

LEMMA OneHolderMore ==
  ASSUME NEW st, NEW st2, CountsInv(st), NEW o \in Objects, NEW h,
         mRefCount \in [Objects -> Nat],
         mRefCount' = [mRefCount EXCEPT ![o] = @ + 1],
         h \notin Holders(st, o), Holders(st2, o)' = Holders(st, o) \cup {h},
         \A x \in Objects \ {o} : Holders(st2, x)' = Holders(st, x)
  PROVE  CountsInv(st2)'
<1>1. ASSUME NEW x \in Objects \ {o}
      PROVE  IsFiniteSet(Holders(st2, x)') /\ mRefCount'[x] = Cardinality(Holders(st2, x)')
  BY <1>1 DEF CountsInv
<1>2. IsFiniteSet(Holders(st2, o)') /\ mRefCount'[o] = Cardinality(Holders(st2, o)')
  <2>1. IsFiniteSet(Holders(st, o)) /\ mRefCount[o] = Cardinality(Holders(st, o))
    BY DEF CountsInv
  <2>2. IsFiniteSet(Holders(st, o) \cup {h})
        /\ Cardinality(Holders(st, o) \cup {h}) = Cardinality(Holders(st, o)) + 1
    BY <2>1, FS_AddElement
  <2>   QED BY <2>1, <2>2
<1>   QED BY <1>1, <1>2 DEF CountsInv

LEMMA OneHolderLess ==
  ASSUME NEW st, NEW st2, CountsInv(st), NEW o \in Objects, NEW h,
         mRefCount \in [Objects -> Nat],
         mRefCount' = [mRefCount EXCEPT ![o] = @ - 1],
         h \in Holders(st, o), Holders(st2, o)' = Holders(st, o) \ {h},
         \A x \in Objects \ {o} : Holders(st2, x)' = Holders(st, x)
  PROVE  CountsInv(st2)'
<1>1. ASSUME NEW x \in Objects \ {o}
      PROVE  IsFiniteSet(Holders(st2, x)') /\ mRefCount'[x] = Cardinality(Holders(st2, x)')
  BY <1>1 DEF CountsInv
<1>2. IsFiniteSet(Holders(st2, o)') /\ mRefCount'[o] = Cardinality(Holders(st2, o)')
  <2>1. IsFiniteSet(Holders(st, o)) /\ mRefCount[o] = Cardinality(Holders(st, o))
    BY DEF CountsInv
  <2>2. IsFiniteSet(Holders(st, o) \ {h})
        /\ Cardinality(Holders(st, o) \ {h}) = Cardinality(Holders(st, o)) - 1
    BY <2>1, FS_RemoveElement
  <2>   QED BY <2>1, <2>2
<1>   QED BY <1>1, <1>2 DEF CountsInv

\* A count is positive exactly when somebody holds the wrapper.
LEMMA Held ==
  ASSUME NEW st, CountsInv(st), mRefCount \in [Objects -> Nat], NEW o \in Objects
  PROVE  mRefCount[o] = 0 <=> Holders(st, o) = {}
<1>1. IsFiniteSet(Holders(st, o)) /\ mRefCount[o] = Cardinality(Holders(st, o))
  BY DEF CountsInv
<1>   QED BY <1>1, FS_EmptySet

----------------------------------------------------------------------------
(* Steps.                                                                  *)

LEMMA SameSteps ==
  ASSUME NEW c, source' = source
  PROVE  Steps(c)' = Steps(c)
BY DEF Steps

LEMMA StagesFollow ==
  ASSUME NEW st, StagesInv(st), NEW t \in Threads, NEW c2 \in Stage, source' = source,
         todo' = [todo EXCEPT ![t] = Steps(c2)]
  PROVE  StagesInv([st EXCEPT ![t] = c2])'
<1>   DEFINE st2 == [st EXCEPT ![t] = c2]
<1>1. st2 \in [Threads -> Stage] BY DEF StagesInv
<1>2. \A u \in Threads : Steps(st2[u])' = Steps(st2[u]) BY SameSteps
<1>3. todo' = [u \in Threads |-> Steps(st2[u])] BY DEF StagesInv
<1>4. todo' = [u \in Threads |-> Steps(st2[u])'] BY <1>2, <1>3
<1>   QED BY <1>1, <1>4 DEF StagesInv

\* What a thread makes or closes, no other thread does.
LEMMA Alone ==
  ASSUME NEW st \in [Threads -> Stage], LifeInv(st), NEW t \in Threads, NEW h \in Mine(st[t])
  PROVE  \A u \in Threads \ {t} : h \notin Mine(st[u])
<1>1. h \in Objects BY Roles
<1>   QED BY <1>1 DEF LifeInv

(* A step that changes no count, and makes or closes nothing new: all there is to it is *)
(* that native objects which the thread had still to release are released.              *)
LEMMA Advance ==
  ASSUME NEW st, RefInvOf(st), NEW t \in Threads, NEW c2 \in Stage,
         Making(c2) = Making(st[t]), Closing(c2) = Closing(st[t]),
         KeepsDb(c2) = KeepsDb(st[t]), GotDb(c2) = GotDb(st[t]),
         GotSnapshot(c2) = GotSnapshot(st[t]),
         \A h \in Iterators : source[h] \in Snapshots =>
            (h \in KeepsSnapshot(c2) <=> h \in KeepsSnapshot(st[t])),
         ToFree(c2) \subseteq ToFree(st[t]),
         native' = native \ (ToFree(st[t]) \ ToFree(c2)),
         UNCHANGED <<mPtr, mRefCount, source, wrappers, closing>>,
         db \in native' => files',
         todo' = [todo EXCEPT ![t] = Steps(c2)], UsesAt(c2)
  PROVE  RefInvOf([st EXCEPT ![t] = c2])'
<1>   DEFINE st2 == [st EXCEPT ![t] = c2]
<1>0. st \in [Threads -> Stage] /\ st2 \in [Threads -> Stage] /\ st[t] \in Stage
  BY DEF RefInvOf, StagesInv
<1>00. st2[t] = c2 /\ \A u \in Threads \ {t} : st2[u] = st[u] BY <1>0
<1>000. LifeInv(st) /\ TypesInv /\ CountsInv(st) /\ UsesInv(st) /\ StagesInv(st) BY DEF RefInvOf
<1>1. TypesInv' BY <1>000 DEF TypesInv
<1>2. StagesInv(st2)' BY <1>000, StagesFollow
<1>   HIDE DEF st2
<1>3. CountsInv(st2)'
  <2>1. ASSUME NEW h \in Objects
        PROVE  /\ HoldsDb(st2, h)' <=> HoldsDb(st, h)
               /\ (h \in Iterators /\ source[h] \in Snapshots)
                     => (HoldsSnapshot(st2, h)' <=> HoldsSnapshot(st, h))
    <3>1. CASE h \in Mine(st[t])
      <4>1. \A u \in Threads \ {t} : h \notin Mine(st[u]) BY <1>0, <1>000, <3>1, Alone
      <4>   QED BY <1>0, <4>1, Local DEF st2
    <3>2. CASE h \notin Mine(st[t])
      <4>1. h \notin Mine(c2) BY <3>2 DEF Mine
      <4>   QED BY <1>0, <3>2, <4>1, Local DEF st2
    <3>   QED BY <3>1, <3>2
  <2>2. \A x : Owns(x)' <=> Owns(x) BY DEF Owns
  <2>3. \A x \in Objects : Holders(st2, x)' = Holders(st, x)
    BY <2>1, <2>2 DEF Holders, Objects, Handles
  <2>   QED BY <1>000, <2>3, SameHolders
<1>4. LifeInv(st2)'
  <2>1. ASSUME NEW u \in Threads
        PROVE  Making(st2[u]) = Making(st[u]) /\ Closing(st2[u]) = Closing(st[u])
               /\ Mine(st2[u]) = Mine(st[u])
    BY <1>00 DEF Mine
  <2>2. \A u, v \in Threads : \A o \in Objects :
           (o \in Mine(st2[u]) /\ o \in Mine(st2[v])) => u = v
    BY <1>000, <2>1 DEF LifeInv
  <2>3. ASSUME NEW o \in mPtr
        PROVE  o \in native' <=> (\A u \in Threads : o \in Closing(st2[u]) => o \in ToFree(st2[u]))
    <3>1. o \in native <=> (\A u \in Threads : o \in Closing(st[u]) => o \in ToFree(st[u]))
      BY <1>000 DEF LifeInv
    <3>2. CASE o \in Mine(st[t])
      <4>1. \A u \in Threads \ {t} : o \notin Closing(st[u])
        BY <1>0, <1>000, <3>2, Alone DEF Mine
      <4>   QED BY <1>00, <1>0, <2>1, <3>1, <4>1, Roles
    <3>3. CASE o \notin Mine(st[t])
      <4>1. o \notin Closing(st[t]) /\ o \notin ToFree(st[t])
        BY <1>0, <3>3, Roles DEF Mine
      <4>   QED BY <1>00, <2>1, <3>1, <4>1
    <3>   QED BY <3>2, <3>3
  <2>   QED BY <1>000, <2>1, <2>2, <2>3 DEF LifeInv
<1>5. UsesInv(st2)'
  <2>1. \A c : UsesAt(c)' <=> UsesAt(c) BY DEF UsesAt, Open_
  <2>   QED BY <1>000, <1>00, <2>1 DEF UsesInv
<1>   QED BY <1>1, <1>2, <1>3, <1>4, <1>5 DEF RefInvOf, st2

\* The stage of a thread is known from the step that it does next.
LEMMA FirstIs ==
  ASSUME NEW c \in Stage, c.pc # "idle", NEW o \in Objects
  PROVE  /\ First(c) = <<"call", o>> => c.pc = "call" /\ c.o = o
         /\ First(c) = <<"with", o>> => c.pc = "with" /\ c.o = o
         /\ First(c) = <<"destroy", o>> => c.pc = "destroy"
         /\ First(c) = <<"snapshot", o>> => c.pc = "snapshot" /\ c.o = o
         /\ First(c) = <<"iterator", o>> => c.pc = "iterator" /\ c.o = o
         /\ First(c) = <<"release", o>> => c.pc = "release" /\ c.o = o
         /\ First(c) = <<"delete", o>> => c.pc = "delete" /\ c.o = o
         /\ First(c) = <<"free", o>> => c.pc \in {"free", "freeBatch"} /\ c.o = o
         /\ First(c) = <<"ref", o>> =>
              \/ c.pc \in {"refForSnapshot", "refForIterator"} /\ o = db
              \/ c.pc = "refSnapshot" /\ o = source[c.o]
         /\ First(c) = <<"unref", o>> =>
              \/ c.pc \in {"unrefBySnapshot", "unrefByIterator"} /\ o = db
              \/ c.pc = "unrefSnapshot" /\ o = source[c.o]
         /\ First(c) = <<"clear", o>> =>
              c.pc \in {"clearBatch", "clearDb", "clearSnapshot", "clearIterator"} /\ c.o = o
<1>1. CASE c.pc \in {"call", "with", "destroy", "snapshot", "iterator", "release", "free", "delete"}
  BY <1>1 DEF First
<1>2. CASE c.pc \in {"refForSnapshot", "refForIterator", "refSnapshot", "freeBatch"}
  BY <1>2 DEF First
<1>3. CASE c.pc \in {"unrefBySnapshot", "unrefByIterator", "unrefSnapshot"}
  BY <1>3 DEF First
<1>4. CASE c.pc \in {"clearBatch", "clearDb", "clearSnapshot", "clearIterator"}
  BY <1>4 DEF First
<1>   QED BY <1>1, <1>2, <1>3, <1>4 DEF Stage

LEMMA AnyStages ==
  ASSUME NEW st, RefInvOf(st)'
  PROVE  RefInv'
BY DEF RefInv, RefInvOf, StagesInv

\* A call of a native method begins.
LEMMA CallKeepsInv ==
  ASSUME NEW st, RefInvOf(st), NEW t \in Threads, NEW o \in Objects,
         Call(t, o) \/ CallWith(t, o) \/ Destroy(t)
  PROVE  RefInv'
<1>   USE NativeObjectAssumption
<1>   DEFINE c1 == st[t]
             c2 == IF Call(t, o) THEN At_("call", o, db)
                   ELSE IF CallWith(t, o) THEN At_("with", o, db)
                   ELSE At_("destroy", db, db)
<1>1. TypesInv /\ StagesInv(st) /\ UsesInv(st) BY DEF RefInvOf
<1>2. c1 \in Stage /\ c1.pc = "idle"
  BY <1>1, Reached DEF Call, CallWith, Destroy
<1>3. c2 \in Stage BY DEF Stage, At_, Call, CallWith, Objects
<1>4. c2.pc \in {"call", "with", "destroy"} BY DEF At_
<1>5. UsesAt(c2) BY DEF UsesAt, At_, Open_, Call, CallWith, Usable
<1>6. todo' = [todo EXCEPT ![t] = Steps(c2)]
  <2>1. CASE Call(t, o) BY <2>1 DEF Call, Steps, At_
  <2>2. CASE ~Call(t, o) /\ CallWith(t, o) BY <2>2 DEF CallWith, Steps, At_
  <2>3. CASE ~Call(t, o) /\ ~CallWith(t, o) BY <2>3 DEF Destroy, Steps, At_
  <2>   QED BY <2>1, <2>2, <2>3
<1>7. UNCHANGED <<mPtr, mRefCount, source, wrappers, closing, native, files>>
  BY DEF Call, CallWith, Destroy
<1>   HIDE DEF c2
<1>8. /\ Making(c2) = Making(c1) /\ Closing(c2) = Closing(c1)
      /\ KeepsDb(c2) = KeepsDb(c1) /\ GotDb(c2) = GotDb(c1)
      /\ KeepsSnapshot(c2) = KeepsSnapshot(c1) /\ GotSnapshot(c2) = GotSnapshot(c1)
      /\ ToFree(c2) = ToFree(c1)
  BY <1>2, <1>4 DEF Making, Closing, KeepsDb, GotDb, KeepsSnapshot, GotSnapshot, ToFree
<1>9. (db \in native' => files') /\ native' = native \ (ToFree(c1) \ ToFree(c2))
  BY <1>1, <1>7, <1>8 DEF TypesInv
<1>   QED BY <1>3, <1>5, <1>6, <1>7, <1>8, <1>9, Advance, AnyStages

\* A native method returns, or releases its object.
LEMMA ReturnKeepsInv ==
  ASSUME NEW st, RefInvOf(st), NEW t \in Threads, NEW o \in Objects,
         StepCall(t, o) \/ StepIterator(t, o) \/ StepBatch(t, o) \/ StepDestroy(t)
           \/ StepFree(t, o) \/ StepRelease(t, o) \/ StepDelete(t)
  PROVE  RefInv'
<1>   USE NativeObjectAssumption
<1>   DEFINE c1 == st[t]
             c2 == Then(c1)
<1>1. TypesInv /\ StagesInv(st) /\ UsesInv(st) BY DEF RefInvOf
<1>2. ~Idle(t) /\ Goes(t, <<>>)
  BY DEF StepCall, StepIterator, StepBatch, StepDestroy, StepFree, StepRelease, StepDelete, At
<1>3. c1 \in Stage /\ c1.pc # "idle" /\ c2 \in Stage /\ Current(t) = First(c1)
      /\ todo' = [todo EXCEPT ![t] = Steps(c2)]
  BY <1>1, <1>2, Reached
<1>4. UNCHANGED <<mPtr, mRefCount, source, wrappers, closing>>
  BY DEF StepCall, StepIterator, StepBatch, StepDestroy, StepFree, StepRelease, StepDelete
<1>   HIDE DEF c1
<1>5. CASE StepCall(t, o) \/ StepIterator(t, o) \/ StepBatch(t, o) \/ StepDestroy(t)
  <2>1. c1.pc \in {"call", "with", "destroy"}
    BY <1>3, <1>5, FirstIs, db \in Objects
    DEF StepCall, StepIterator, StepBatch, StepDestroy, At, Objects
  <2>2. c2 = At_("idle", db, db) BY <2>1 DEF Then
  <2>3. /\ Making(c2) = Making(c1) /\ Closing(c2) = Closing(c1)
        /\ KeepsDb(c2) = KeepsDb(c1) /\ GotDb(c2) = GotDb(c1)
        /\ KeepsSnapshot(c2) = KeepsSnapshot(c1) /\ GotSnapshot(c2) = GotSnapshot(c1)
        /\ ToFree(c2) = ToFree(c1) /\ UsesAt(c2)
    BY <2>1, <2>2
    DEF Making, Closing, KeepsDb, GotDb, KeepsSnapshot, GotSnapshot, ToFree, UsesAt, At_
  <2>4. native' = native /\ (db \in native' => files')
    BY <1>1, <1>5 DEF TypesInv, StepCall, StepIterator, StepBatch, StepDestroy
  <2>   QED BY <1>3, <1>4, <2>3, <2>4, Advance, AnyStages DEF c1
<1>6. CASE StepFree(t, o) \/ StepRelease(t, o) \/ StepDelete(t)
  <2>1. c1.pc \in {"freeBatch", "free", "release", "delete"} /\ native' = native \ {c1.o}
    BY <1>3, <1>6, FirstIs, db \in Objects
    DEF StepFree, StepRelease, StepDelete, At, Objects
  <2>2. db \in native' => files'
    BY <1>1, <1>6 DEF TypesInv, StepFree, StepRelease, StepDelete
  <2>3. c1.pc \in {"free"} => c1.o \in Iterators BY <1>3 DEF Stage
  <2>4. c1.pc = "delete" => c1.o = db BY <1>3 DEF Stage
  <2>5. /\ Making(c2) = Making(c1) /\ Closing(c2) = Closing(c1)
        /\ KeepsDb(c2) = KeepsDb(c1) /\ GotDb(c2) = GotDb(c1)
        /\ GotSnapshot(c2) = GotSnapshot(c1)
        /\ \A h \in Iterators : source[h] \in Snapshots =>
             (h \in KeepsSnapshot(c2) <=> h \in KeepsSnapshot(c1))
        /\ ToFree(c1) = {c1.o} /\ ToFree(c2) = {} /\ UsesAt(c2)
    BY <2>1, <2>3, <2>4
    DEF Making, Closing, KeepsDb, GotDb, KeepsSnapshot, GotSnapshot, ToFree, UsesAt, Then,
        AfterSource, At_
  <2>6. ToFree(c2) \subseteq ToFree(c1) /\ native' = native \ (ToFree(c1) \ ToFree(c2))
    BY <2>1, <2>5
  <2>   QED BY <1>3, <1>4, <2>2, <2>5, <2>6, Advance, AnyStages DEF c1
<1>   QED BY <1>5, <1>6

\* Wrappers that are being made or closed exist.
LEMMA MineIsMade ==
  ASSUME NEW st, RefInvOf(st), NEW t \in Threads
  PROVE  Mine(st[t]) \subseteq wrappers
<1>1. st[t] \in Stage BY DEF RefInvOf, StagesInv
<1>2. Mine(st[t]) \subseteq Objects BY <1>1, Roles
<1>   QED BY <1>2 DEF RefInvOf, LifeInv, Mine, TypesInv

LEMMA HoldsIsMade ==
  ASSUME NEW st, RefInvOf(st), NEW h
  PROVE  HoldsDb(st, h) \/ HoldsSnapshot(st, h) => h \in wrappers
<1>1. \A t \in Threads : st[t] \in Stage /\ Mine(st[t]) \subseteq wrappers
  BY MineIsMade DEF RefInvOf, StagesInv
<1>2. mPtr \subseteq wrappers BY DEF RefInvOf, TypesInv
<1>3. \A t \in Threads : GotDb(st[t]) \subseteq Mine(st[t]) /\ GotSnapshot(st[t]) \subseteq Mine(st[t])
  BY <1>1, Roles DEF Mine
<1>   QED BY <1>1, <1>2, <1>3 DEF HoldsDb, HoldsSnapshot

\* The making of an iterator or a snapshot begins.
LEMMA MakeKeepsInv ==
  ASSUME NEW st, RefInvOf(st), NEW t \in Threads, NEW h \in Handles,
         NEW s \in Snapshots \cup {None},
         \/ h \in Iterators /\ GetIterator(t, h, s)
         \/ h \in Snapshots /\ GetSnapshot(t, h)
  PROVE  RefInv'
<1>   USE NativeObjectAssumption
<1>   DEFINE c1 == st[t]
             c2 == At_(IF h \in Iterators THEN "refForIterator" ELSE "refForSnapshot", h, db)
             st2 == [st EXCEPT ![t] = c2]
<1>1. TypesInv /\ StagesInv(st) /\ CountsInv(st) /\ LifeInv(st) /\ UsesInv(st) BY DEF RefInvOf
<1>2. c1 \in Stage /\ c1.pc = "idle"
  BY <1>1, Reached DEF GetIterator, GetSnapshot
<1>3. c2 \in Stage /\ h \in Objects BY DEF Stage, At_, Objects, Handles
<1>4. h \in Iterators <=> h \notin Snapshots BY DEF Handles
<1>5. /\ h \notin wrappers /\ wrappers' = wrappers \cup {h}
      /\ UNCHANGED <<mPtr, mRefCount, native, closing, files>>
      /\ db \in mPtr /\ db \notin closing
  BY DEF GetIterator, GetSnapshot, Usable
<1>6. \A g \in Iterators \ {h} : source'[g] = source[g]
  BY <1>1, <1>4 DEF GetIterator, GetSnapshot, TypesInv
<1>7. h \in Iterators => source'[h] = s /\ (s # None => Open_(s) /\ s \in wrappers)
  BY <1>1, <1>4 DEF GetIterator, TypesInv, Open_, Usable
<1>8. source' \in [Iterators -> Snapshots \cup {None}]
  BY <1>1, <1>4 DEF GetIterator, GetSnapshot, TypesInv
<1>9. \A u \in Threads : st[u] \in Stage /\ Mine(st[u]) \subseteq wrappers /\ h \notin Mine(st[u])
  BY <1>1, <1>5, MineIsMade DEF StagesInv
<1>10. \A u \in Threads : st[u].pc \in {"refForIterator", "refSnapshot", "free", "unrefSnapshot"}
          => st[u].o \in Iterators \ {h}
  BY <1>9 DEF Mine, Making, Closing, Stage
<1>11. /\ Mine(c1) = {} /\ Mine(c2) = {h} /\ Making(c2) = {h} /\ Closing(c2) = {}
       /\ Making(c1) = {} /\ Closing(c1) = {}
       /\ GotDb(c2) = {} /\ GotSnapshot(c2) = {} /\ ToFree(c2) = {}
  BY <1>2 DEF Mine, Making, Closing, GotDb, GotSnapshot, ToFree, At_
<1>12. st2 \in [Threads -> Stage] /\ st2[t] = c2 /\ \A u \in Threads \ {t} : st2[u] = st[u]
  BY <1>1, <1>3 DEF StagesInv
<1>13. TypesInv'
  BY <1>1, <1>3, <1>5, <1>6, <1>7, <1>8 DEF TypesInv
<1>14. StagesInv(st2)'
  <2>1. ASSUME NEW u \in Threads \ {t} PROVE todo'[u] = Steps(st2[u])'
    <3>1. Steps(st[u])' = Steps(st[u])
      BY <1>6, <1>10 DEF Steps
    <3>2. todo'[u] = todo[u] BY <1>1 DEF StagesInv, GetIterator, GetSnapshot
    <3>   QED BY <1>1, <1>12, <3>1, <3>2 DEF StagesInv
  <2>2. todo'[t] = Steps(c2)'
    <3>1. CASE h \in Snapshots
      BY <1>1, <1>4, <3>1 DEF Steps, At_, GetSnapshot, StagesInv
    <3>2. CASE h \in Iterators /\ s = None
      <4>1. todo'[t] = <<<<"ref", db>>>> \o <<>> \o <<<<"iterator", h>>>>
        BY <1>1, <1>4, <3>2 DEF GetIterator, StagesInv
      <4>2. <<<<"ref", db>>>> \o <<>> = <<<<"ref", db>>>> BY Concat10
      <4>3. todo'[t] = <<<<"ref", db>>, <<"iterator", h>>>> BY <4>1, <4>2, Concat11
      <4>4. Steps(c2)' = <<<<"ref", db>>, <<"iterator", h>>>>
        BY <1>7, <3>2 DEF Steps, At_
      <4>   QED BY <4>3, <4>4
    <3>3. CASE h \in Iterators /\ s # None
      <4>1. todo'[t] = <<<<"ref", db>>>> \o <<<<"ref", s>>>> \o <<<<"iterator", h>>>>
        BY <1>1, <1>4, <3>3 DEF GetIterator, StagesInv
      <4>2. <<<<"ref", db>>>> \o <<<<"ref", s>>>> = <<<<"ref", db>>, <<"ref", s>>>> BY Concat11
      <4>3. todo'[t] = <<<<"ref", db>>, <<"ref", s>>, <<"iterator", h>>>> BY <4>1, <4>2, Concat21
      <4>4. Steps(c2)' = <<<<"ref", db>>, <<"ref", s>>, <<"iterator", h>>>>
        BY <1>7, <3>3 DEF Steps, At_
      <4>   QED BY <4>3, <4>4
    <3>   QED BY <3>1, <3>2, <3>3 DEF Handles
  <2>3. \E ss : todo' = [u \in Threads |-> ss[u]]
    BY <1>1 DEF StagesInv, GetIterator, GetSnapshot
  <2>4. todo' = [u \in Threads |-> Steps(st2[u])'] BY <1>12, <2>1, <2>2, <2>3
  <2>   QED BY <1>12, <2>4 DEF StagesInv
<1>   HIDE DEF c1, c2, st2
<1>15. \A g \in Objects : /\ HoldsDb(st2, g)' <=> HoldsDb(st, g)
                          /\ HoldsSnapshot(st2, g)' <=> HoldsSnapshot(st, g)
  <2>1. ASSUME NEW g \in Objects \ {h}
        PROVE  /\ HoldsDb(st2, g)' <=> HoldsDb(st, g)
               /\ HoldsSnapshot(st2, g)' <=> HoldsSnapshot(st, g)
    BY <1>1, <1>3, <1>5, <1>11, Local DEF StagesInv, st2, c1
  <2>2. ~HoldsDb(st, h) /\ ~HoldsSnapshot(st, h) BY <1>5, HoldsIsMade
  <2>3. ~HoldsDb(st2, h)' /\ ~HoldsSnapshot(st2, h)'
    BY <1>1, <1>3, <1>5, <1>9, <1>11, Local DEF StagesInv, st2, TypesInv
  <2>   QED BY <2>1, <2>2, <2>3
<1>16. CountsInv(st2)'
  <2>1. \A x : Owns(x)' <=> Owns(x) BY <1>5 DEF Owns
  <2>2. ~HoldsSnapshot(st, h) BY <1>5, HoldsIsMade
  <2>3. \A x \in Objects : Holders(st2, x)' = Holders(st, x)
    BY <1>6, <1>15, <2>1, <2>2 DEF Holders, Objects, Handles
  <2>   QED BY <1>1, <1>5, <2>3, SameHolders
<1>17. LifeInv(st2)'
  <2>1. ASSUME NEW u \in Threads, NEW v \in Threads, NEW o \in Objects,
               o \in Mine(st2[u]), o \in Mine(st2[v])
        PROVE  u = v
    BY <1>1, <1>9, <1>11, <1>12, <2>1 DEF LifeInv
  <2>2. ASSUME NEW u \in Threads, NEW o \in Objects
        PROVE  /\ o \in Making(st2[u]) => (o \in wrappers' /\ o \notin mPtr' /\ o \notin closing')
               /\ o \in Closing(st2[u]) => (o \in mPtr' /\ o \in closing' /\ mRefCount'[o] = 0)
    BY <1>1, <1>5, <1>11, <1>12 DEF LifeInv, TypesInv
  <2>3. ASSUME NEW o \in mPtr
        PROVE  /\ o \in native' <=> (\A u \in Threads : o \in Closing(st2[u]) => o \in ToFree(st2[u]))
               /\ mRefCount'[o] = 0 => (\E u \in Threads : o \in Closing(st2[u]))
    <3>1. \A u \in Threads : /\ o \in Closing(st2[u]) <=> o \in Closing(st[u])
                             /\ o \in ToFree(st2[u]) <=> o \in ToFree(st[u])
      BY <1>2, <1>11, <1>12 DEF ToFree, c1
    <3>2. /\ o \in native <=> (\A u \in Threads : o \in Closing(st[u]) => o \in ToFree(st[u]))
          /\ mRefCount[o] = 0 => (\E u \in Threads : o \in Closing(st[u]))
      BY <1>1 DEF LifeInv
    <3>   QED BY <1>5, <3>1, <3>2
  <2>4. mRefCount[h] = 0
    <3>1. \A g \in Iterators : (h \in Snapshots /\ source[g] = h) => ~HoldsSnapshot(st, g)
      BY <1>1, <1>4, <1>5, HoldsIsMade DEF TypesInv
    <3>2. Holders(st, h) = {}
      BY <1>1, <1>5, <3>1 DEF Holders, Owns, Handles, TypesInv
    <3>   QED BY <1>1, <1>3, <3>2, Held DEF TypesInv
  <2>5. ASSUME NEW o \in wrappers' \ mPtr'
        PROVE  /\ mRefCount'[o] = 0
               /\ o \notin closing' => (\E u \in Threads : o \in Making(st2[u]))
    <3>1. CASE o = h BY <1>5, <1>11, <1>12, <2>4, <3>1
    <3>2. CASE o # h
      <4>1. /\ mRefCount[o] = 0
            /\ o \notin closing => (\E u \in Threads : o \in Making(st[u]))
        BY <1>1, <1>5, <3>2 DEF LifeInv
      <4>   QED BY <1>5, <1>11, <1>12, <4>1 DEF c1
    <3>   QED BY <3>1, <3>2
  <2>   QED BY <1>5, <2>1, <2>2, <2>3, <2>5 DEF LifeInv
<1>18. UsesInv(st2)'
  <2>1. \A x : Open_(x)' <=> Open_(x) BY <1>5 DEF Open_
  <2>2. ASSUME NEW u \in Threads \ {t} PROVE UsesAt(st2[u])'
    <3>1. UsesAt(st[u]) BY <1>1 DEF UsesInv
    <3>2. UsesAt(st[u])' BY <1>6, <1>10, <2>1, <3>1 DEF UsesAt
    <3>   QED BY <1>12, <3>2
  <2>3. UsesAt(c2)' BY <1>5, <1>7, <2>1 DEF UsesAt, c2, At_, Open_
  <2>   QED BY <1>12, <2>2, <2>3 DEF UsesInv
<1>   QED BY <1>13, <1>14, <1>16, <1>17, <1>18, AnyStages DEF RefInvOf

\* A DB is opened, or a batch is made.
LEMMA OpenKeepsInv ==
  ASSUME NEW st, RefInvOf(st), NEW t \in Threads, NEW o \in {db} \cup Batches,
         (o = db /\ Open(t)) \/ (o \in Batches /\ NewBatch(t, o))
  PROVE  RefInv'
<1>   USE NativeObjectAssumption
<1>1. TypesInv /\ StagesInv(st) /\ CountsInv(st) /\ LifeInv(st) /\ UsesInv(st) BY DEF RefInvOf
<1>2. o \in Objects /\ o \notin Handles BY DEF Objects, Handles
<1>3. /\ o \notin wrappers /\ wrappers' = wrappers \cup {o} /\ mPtr' = mPtr \cup {o}
      /\ native' = native \cup {o} /\ UNCHANGED <<source, closing, todo>>
  BY DEF Open, NewBatch
<1>4. o \notin mPtr /\ o \notin closing /\ o \notin native BY <1>1, <1>3 DEF TypesInv
<1>5. \A u \in Threads : st[u] \in Stage /\ o \notin Mine(st[u])
  BY <1>1, <1>3, MineIsMade DEF StagesInv
<1>6. /\ o = db => mRefCount' = mRefCount
      /\ o # db => mRefCount' = [mRefCount EXCEPT ![o] = @ + 1]
  BY DEF Open, NewBatch
<1>7. TypesInv'
  <2>1. mRefCount' \in [Objects -> Nat] BY <1>1, <1>6 DEF TypesInv
  <2>2. db \in native' => files' BY <1>1 DEF TypesInv, Open, NewBatch
  <2>   QED BY <1>1, <1>2, <1>3, <2>1, <2>2 DEF TypesInv
<1>8. StagesInv(st)'
  <2>1. \A u \in Threads : Steps(st[u])' = Steps(st[u]) BY <1>3, SameSteps
  <2>   QED BY <1>1, <1>3, <2>1 DEF StagesInv
<1>9. \A g \in Handles : (HoldsDb(st, g)' <=> HoldsDb(st, g))
                         /\ (HoldsSnapshot(st, g)' <=> HoldsSnapshot(st, g))
  BY <1>2, <1>3 DEF HoldsDb, HoldsSnapshot
<1>10. \A x \in Objects : x # o => (Owns(x)' <=> Owns(x)) BY <1>3 DEF Owns
<1>11. \A x \in Objects \ {o} : Holders(st, x)' = Holders(st, x)
  BY <1>3, <1>9, <1>10 DEF Holders, Handles
<1>12. CountsInv(st)' /\ mRefCount'[o] # 0
  <2>1. Owns(o)' BY <1>3, <1>4 DEF Owns
  <2>2. o \in Holders(st, o)' BY <2>1 DEF Holders
  <2>3. CASE o = db
    <3>1. Owns(o) BY <1>4, <2>3 DEF Owns
    <3>2. Holders(st, o)' = Holders(st, o) BY <1>3, <1>9, <2>1, <3>1 DEF Holders, Handles
    <3>3. CountsInv(st)'
      BY <1>1, <1>6, <1>11, <2>3, <3>2, SameHolders
    <3>4. mRefCount[o] # 0 BY <1>1, <1>2, <2>2, <3>2, Held DEF TypesInv
    <3>   QED BY <1>6, <2>3, <3>3, <3>4
  <2>4. CASE o # db
    <3>1. o \in Batches /\ o \notin Snapshots BY <2>4
    <3>2. Holders(st, o) = {} BY <1>4, <2>4, <3>1 DEF Holders, Owns
    <3>3. Holders(st, o)' = {o} BY <2>1, <2>4, <3>1 DEF Holders
    <3>4. CountsInv(st)'
      BY <1>1, <1>2, <1>6, <1>11, <2>4, <3>2, <3>3, OneHolderMore DEF TypesInv
    <3>5. mRefCount'[o] # 0 BY <1>1, <1>2, <1>6, <2>4 DEF TypesInv
    <3>   QED BY <3>4, <3>5
  <2>   QED BY <2>3, <2>4
<1>13. LifeInv(st)'
  <2>1. \A x \in Objects \ {o} : mRefCount'[x] = mRefCount[x] BY <1>1, <1>6 DEF TypesInv
  <2>2. \A u, v \in Threads : \A x \in Objects :
          (x \in Mine(st[u]) /\ x \in Mine(st[v])) => u = v
    BY <1>1 DEF LifeInv
  <2>3. ASSUME NEW u \in Threads, NEW x \in Objects
        PROVE  /\ x \in Making(st[u]) => (x \in wrappers' /\ x \notin mPtr' /\ x \notin closing')
               /\ x \in Closing(st[u]) => (x \in mPtr' /\ x \in closing' /\ mRefCount'[x] = 0)
    BY <1>1, <1>3, <1>5, <2>1 DEF LifeInv, Mine
  <2>4. ASSUME NEW x \in mPtr'
        PROVE  /\ x \in native' <=> (\A u \in Threads : x \in Closing(st[u]) => x \in ToFree(st[u]))
               /\ mRefCount'[x] = 0 => (\E u \in Threads : x \in Closing(st[u]))
    <3>1. CASE x = o BY <1>3, <1>5, <1>12, <3>1 DEF Mine
    <3>2. CASE x # o
      <4>1. x \in mPtr /\ x \in Objects BY <1>1, <1>3, <3>2 DEF TypesInv
      <4>   QED BY <1>1, <1>3, <2>1, <3>2, <4>1 DEF LifeInv
    <3>   QED BY <3>1, <3>2
  <2>5. ASSUME NEW x \in wrappers' \ mPtr'
        PROVE  /\ mRefCount'[x] = 0
               /\ x \notin closing' => (\E u \in Threads : x \in Making(st[u]))
    <3>1. x \in wrappers \ mPtr /\ x \in Objects /\ x # o BY <1>1, <1>3 DEF TypesInv
    <3>   QED BY <1>1, <1>3, <2>1, <3>1 DEF LifeInv
  <2>   QED BY <2>2, <2>3, <2>4, <2>5 DEF LifeInv
<1>14. UsesInv(st)'
  <2>1. \A c : UsesAt(c) => UsesAt(c)' BY <1>3 DEF UsesAt, Open_
  <2>   QED BY <1>1, <2>1 DEF UsesInv
<1>   QED BY <1>7, <1>8, <1>12, <1>13, <1>14, AnyStages DEF RefInvOf

\* A reference is taken for a wrapper that is being made.
LEMMA RefKeepsInv ==
  ASSUME NEW st, RefInvOf(st), NEW t \in Threads, NEW o \in Objects, StepRef(t, o)
  PROVE  RefInv'
<1>   USE NativeObjectAssumption
<1>   DEFINE c1 == st[t]
             h == c1.o
<1>1. TypesInv /\ StagesInv(st) /\ CountsInv(st) /\ LifeInv(st) /\ UsesInv(st) BY DEF RefInvOf
<1>2. ~Idle(t) /\ Goes(t, <<>>) BY DEF StepRef, At
<1>0. c1 \in Stage /\ c1.pc # "idle" /\ Then(c1) \in Stage /\ Current(t) = First(c1)
      /\ todo' = [todo EXCEPT ![t] = Steps(Then(c1))]
  BY <1>1, <1>2, Reached
<1>00. PICK c2 \in Stage : c2 = Then(c1) BY <1>0
<1>   DEFINE st2 == [st EXCEPT ![t] = c2]
<1>3. c1 \in Stage /\ c1.pc # "idle" /\ c2 \in Stage /\ Current(t) = First(c1)
      /\ todo' = [todo EXCEPT ![t] = Steps(c2)]
  BY <1>0, <1>00
<1>4. \/ c1.pc \in {"refForSnapshot", "refForIterator"} /\ o = db
      \/ c1.pc = "refSnapshot" /\ o = source[h]
  BY <1>3, FirstIs DEF StepRef, At
<1>5. UNCHANGED <<mPtr, native, source, wrappers, closing, files>>
      /\ mRefCount' = [mRefCount EXCEPT ![o] = @ + 1]
  BY DEF StepRef
<1>6. st2 \in [Threads -> Stage] /\ st2[t] = c2 /\ \A u \in Threads \ {t} : st2[u] = st[u]
  BY <1>1, <1>3 DEF StagesInv
<1>7. StagesInv(st2)' BY <1>1, <1>3, <1>5, StagesFollow
<1>8. TypesInv' BY <1>1, <1>5 DEF TypesInv
<1>9. h \in Handles /\ (c1.pc # "refForSnapshot" <=> h \in Iterators) /\ h \in Objects
  BY <1>3, <1>4 DEF Stage, Handles, Objects
<1>10. UsesAt(c1) BY <1>1 DEF UsesInv
<1>   HIDE DEF c1, st2, h
<1>11. c2.pc = IF c1.pc = "refForSnapshot" THEN "snapshot"
               ELSE IF c1.pc = "refForIterator" /\ source[h] # None THEN "refSnapshot"
               ELSE "iterator"
  BY <1>00, <1>4 DEF Then, AfterSource, At_, h
<1>12. c2.o = h BY <1>00, <1>4 DEF Then, AfterSource, At_, h
<1>13. /\ Making(c1) = {h} /\ Making(c2) = {h} /\ Closing(c1) = {} /\ Closing(c2) = {}
       /\ ToFree(c1) = {} /\ ToFree(c2) = {} /\ Mine(c1) = {h} /\ Mine(c2) = {h}
  BY <1>4, <1>11, <1>12 DEF Making, Closing, ToFree, Mine, h
<1>14. /\ h \in GotDb(c1) <=> c1.pc = "refSnapshot"
       /\ h \in GotDb(c2)
       /\ h \notin GotSnapshot(c1)
       /\ h \in GotSnapshot(c2) <=> c2.pc = "iterator"
  BY <1>4, <1>11, <1>12 DEF GotDb, GotSnapshot, h
<1>15. h \in wrappers /\ h \notin mPtr /\ h \notin closing
  BY <1>1, <1>9, <1>13 DEF LifeInv, c1
<1>16. o \in mPtr /\ o \notin closing
  BY <1>4, <1>10 DEF UsesAt, Open_, h
<1>17. \A u \in Threads : o \notin Closing(st[u])
  BY <1>1, <1>16 DEF LifeInv
<1>18. ASSUME NEW g \in Objects, g # h
       PROVE  /\ HoldsDb(st2, g)' <=> HoldsDb(st, g)
              /\ HoldsSnapshot(st2, g)' <=> HoldsSnapshot(st, g)
  <2>1. g \notin Mine(c1) \cup Mine(c2) BY <1>13, <1>18
  <2>   QED BY <1>1, <1>3, <1>5, <2>1, Local DEF StagesInv, st2, c1
<1>19. /\ HoldsDb(st, h) <=> c1.pc = "refSnapshot"
       /\ HoldsDb(st2, h)'
       /\ ~HoldsSnapshot(st, h)
       /\ HoldsSnapshot(st2, h)' <=> c2.pc = "iterator"
  <2>1. \A u \in Threads \ {t} : h \notin Mine(st[u])
    BY <1>1, <1>13, Alone DEF StagesInv, c1
  <2>2. st \in [Threads -> Stage] BY <1>1 DEF StagesInv
  <2>   QED BY <1>3, <1>5, <1>9, <1>13, <1>14, <1>15, <2>1, <2>2, Local DEF st2, c1
<1>20. CountsInv(st2)'
  <2>1. \A x : Owns(x)' <=> Owns(x) BY <1>5 DEF Owns
  <2>2. \A g \in Iterators : (HoldsSnapshot(st2, g)' /\ ~HoldsSnapshot(st, g))
           => g = h /\ (c1.pc = "refSnapshot" \/ source[h] = None)
    BY <1>4, <1>9, <1>11, <1>18, <1>19 DEF Objects
  <2>3. \A g \in Iterators : HoldsSnapshot(st, g) => HoldsSnapshot(st2, g)'
    BY <1>18, <1>19 DEF Objects
  <2>4. \A x \in Objects \ {o} : Holders(st2, x)' = Holders(st, x)
    <3>1. \A x \in Objects \ {o} : \A g \in Handles :
             (x = db /\ HoldsDb(st2, g)') <=> (x = db /\ HoldsDb(st, g))
      BY <1>4, <1>18, <1>19 DEF Handles, Objects
    <3>2. \A x \in Objects \ {o} : \A g \in Iterators :
             (x \in Snapshots /\ source[g] = x /\ HoldsSnapshot(st2, g)')
               <=> (x \in Snapshots /\ source[g] = x /\ HoldsSnapshot(st, g))
      BY <1>4, <2>2, <2>3
    <3>   QED BY <1>5, <2>1, <3>1, <3>2 DEF Holders
  <2>5. Holders(st2, o)' = Holders(st, o) \cup {h} /\ h \notin Holders(st, o)
    <3>1. h # o BY <1>15, <1>16
    <3>2. CASE o = db /\ c1.pc \in {"refForSnapshot", "refForIterator"}
      <4>1. \A g \in Handles : HoldsDb(st2, g)' <=> (HoldsDb(st, g) \/ g = h)
        BY <1>18, <1>19, <3>2 DEF Handles, Objects
      <4>2. ~HoldsDb(st, h) BY <1>19, <3>2
      <4>   QED BY <1>9, <2>1, <3>1, <3>2, <4>1, <4>2 DEF Holders
    <3>3. CASE c1.pc = "refSnapshot" /\ o = source[h]
      <4>1. o # None BY <1>10, <3>3 DEF UsesAt, h
      <4>2. o \in Snapshots /\ o # db /\ h \in Iterators BY <1>1, <1>9, <3>3, <4>1 DEF TypesInv
      <4>3. c2.pc = "iterator" BY <1>11, <3>3
      <4>4. \A g \in Iterators : HoldsSnapshot(st2, g)' <=> (HoldsSnapshot(st, g) \/ g = h)
        BY <1>18, <1>19, <4>3 DEF Objects
      <4>   QED BY <1>5, <1>19, <2>1, <3>1, <3>3, <4>2, <4>4 DEF Holders
    <3>   QED BY <1>4, <3>2, <3>3
  <2>   QED BY <1>1, <1>5, <2>4, <2>5, OneHolderMore DEF TypesInv
<1>21. LifeInv(st2)'
  <2>1. \A u \in Threads : /\ Mine(st2[u]) = Mine(st[u]) /\ Making(st2[u]) = Making(st[u])
                           /\ Closing(st2[u]) = Closing(st[u]) /\ ToFree(st2[u]) = ToFree(st[u])
    BY <1>6, <1>13 DEF c1
  <2>2. mRefCount'[o] # 0 /\ \A x \in Objects \ {o} : mRefCount'[x] = mRefCount[x]
    BY <1>1, <1>5 DEF TypesInv
  <2>3. \A x \in mPtr : /\ x \in Objects
                        /\ mRefCount'[x] = 0 => (\E u \in Threads : x \in Closing(st[u]))
    BY <1>1, <2>2 DEF LifeInv, TypesInv
  <2>4. \A x \in wrappers \ mPtr : mRefCount'[x] = 0
    BY <1>1, <1>16, <2>2 DEF LifeInv, TypesInv
  <2>5. \A u \in Threads, x \in Objects : x \in Closing(st[u]) => mRefCount'[x] = 0
    BY <1>1, <1>17, <2>2 DEF LifeInv
  <2>   QED BY <1>1, <1>5, <2>1, <2>3, <2>4, <2>5 DEF LifeInv
<1>22. UsesInv(st2)'
  <2>1. \A c : UsesAt(c)' <=> UsesAt(c) BY <1>5 DEF UsesAt, Open_
  <2>2. UsesAt(c2) BY <1>4, <1>10, <1>11, <1>12 DEF UsesAt, h
  <2>   QED BY <1>1, <1>6, <2>1, <2>2 DEF UsesInv
<1>   QED BY <1>7, <1>8, <1>20, <1>21, <1>22, AnyStages DEF RefInvOf

\* The wrapper is made.
LEMMA CreateKeepsInv ==
  ASSUME NEW st, RefInvOf(st), NEW t \in Threads, NEW o \in Objects, StepCreate(t, o)
  PROVE  RefInv'
<1>   USE NativeObjectAssumption
<1>   DEFINE c1 == st[t]
<1>1. TypesInv /\ StagesInv(st) /\ CountsInv(st) /\ LifeInv(st) /\ UsesInv(st) BY DEF RefInvOf
<1>2. ~Idle(t) /\ Goes(t, <<>>) BY DEF StepCreate, At
<1>0. c1 \in Stage /\ c1.pc # "idle" /\ Then(c1) \in Stage /\ Current(t) = First(c1)
      /\ todo' = [todo EXCEPT ![t] = Steps(Then(c1))]
  BY <1>1, <1>2, Reached
<1>00. PICK c2 \in Stage : c2 = Then(c1) BY <1>0
<1>   DEFINE st2 == [st EXCEPT ![t] = c2]
<1>3. c1 \in Stage /\ c1.pc # "idle" /\ c2 \in Stage /\ Current(t) = First(c1)
      /\ todo' = [todo EXCEPT ![t] = Steps(c2)]
  BY <1>0, <1>00
<1>4. c1.pc \in {"snapshot", "iterator"} /\ c1.o = o /\ o \in Handles
      /\ (o \in Iterators => c1.pc = "iterator")
  <2>1. c1.pc \in {"snapshot", "iterator"} /\ c1.o = o
    BY <1>3, FirstIs DEF StepCreate, At
  <2>   QED BY <1>3, <2>1 DEF Stage, Handles
<1>5. /\ UNCHANGED <<source, wrappers, closing, files>>
      /\ mPtr' = mPtr \cup {o} /\ native' = native \cup {o}
      /\ mRefCount' = [mRefCount EXCEPT ![o] = @ + 1]
  BY DEF StepCreate
<1>6. st2 \in [Threads -> Stage] /\ st2[t] = c2 /\ \A u \in Threads \ {t} : st2[u] = st[u]
  BY <1>1, <1>3 DEF StagesInv
<1>7. StagesInv(st2)' BY <1>1, <1>3, <1>5, StagesFollow
<1>8. c2 = At_("idle", db, db) BY <1>00, <1>4 DEF Then
<1>   HIDE DEF c1, st2
<1>9. /\ Making(c1) = {o} /\ Mine(c1) = {o} /\ Mine(c2) = {} /\ Making(c2) = {} /\ Closing(c2) = {}
      /\ Closing(c1) = {} /\ ToFree(c1) = {} /\ ToFree(c2) = {}
      /\ GotDb(c1) = {o} /\ (o \in Iterators => GotSnapshot(c1) = {o})
      /\ UsesAt(c2)
  BY <1>4, <1>8 DEF Making, Mine, Closing, ToFree, GotDb, GotSnapshot, UsesAt, At_
<1>10. o \in wrappers /\ o \notin mPtr /\ o \notin closing BY <1>1, <1>9 DEF LifeInv, c1
<1>11. TypesInv'
  <2>1. o # db BY <1>4 DEF Handles
  <2>   QED BY <1>1, <1>5, <1>10, <2>1 DEF TypesInv
<1>12. \A u \in Threads \ {t} : o \notin Mine(st[u])
  BY <1>1, <1>9, Alone DEF StagesInv, c1
<1>13. \A g \in Objects : /\ HoldsDb(st2, g)' <=> HoldsDb(st, g)
                          /\ g \in Iterators => (HoldsSnapshot(st2, g)' <=> HoldsSnapshot(st, g))
  <2>0. st \in [Threads -> Stage] BY <1>1 DEF StagesInv
  <2>1. ASSUME NEW g \in Objects, g # o
        PROVE  /\ HoldsDb(st2, g)' <=> HoldsDb(st, g)
               /\ HoldsSnapshot(st2, g)' <=> HoldsSnapshot(st, g)
    <3>1. g \notin Mine(c1) \cup Mine(c2) /\ (g \in mPtr' <=> g \in mPtr) BY <1>5, <1>9, <2>1
    <3>   QED BY <1>3, <2>0, <3>1, Local DEF st2, c1
  <2>2. /\ HoldsDb(st2, o)' /\ HoldsDb(st, o)
        /\ o \in Iterators => HoldsSnapshot(st2, o)' /\ HoldsSnapshot(st, o)
    BY <1>3, <1>5, <1>9, <1>12, <2>0, Local DEF st2, c1
  <2>   QED BY <2>1, <2>2
<1>14. mRefCount[o] = 0 BY <1>1, <1>10 DEF LifeInv
<1>15. CountsInv(st2)'
  <2>1. \A x : x # o => (Owns(x)' <=> Owns(x)) BY <1>5 DEF Owns
  <2>2. Owns(o)' BY <1>5, <1>10 DEF Owns
  <2>3. Holders(st, o) = {} BY <1>1, <1>14, Held DEF TypesInv
  <2>4. \A x \in Objects : \A g \in Handles :
           (x = db /\ HoldsDb(st2, g)') <=> (x = db /\ HoldsDb(st, g))
    BY <1>13 DEF Handles, Objects
  <2>5. \A x \in Objects : \A g \in Iterators :
           (x \in Snapshots /\ source[g] = x /\ HoldsSnapshot(st2, g)')
             <=> (x \in Snapshots /\ source[g] = x /\ HoldsSnapshot(st, g))
    BY <1>13 DEF Objects
  <2>6. \A x \in Objects \ {o} : Holders(st2, x)' = Holders(st, x)
    BY <1>5, <2>1, <2>4, <2>5 DEF Holders
  <2>7. Holders(st2, o)' = {o}
    BY <1>5, <2>2, <2>3, <2>4, <2>5 DEF Holders
  <2>8. Holders(st2, o)' = Holders(st, o) \cup {o} /\ o \notin Holders(st, o) BY <2>3, <2>7
  <2>   QED BY <1>1, <1>5, <2>6, <2>8, OneHolderMore DEF TypesInv
<1>16. LifeInv(st2)'
  <2>1. mRefCount'[o] = 1 /\ \A x \in Objects \ {o} : mRefCount'[x] = mRefCount[x]
    BY <1>1, <1>5, <1>14 DEF TypesInv
  <2>2. ASSUME NEW u \in Threads
        PROVE  /\ Mine(st2[u]) \subseteq Mine(st[u]) \ {o}
               /\ Making(st2[u]) = Making(st[u]) \ {o}
               /\ Closing(st2[u]) = Closing(st[u]) /\ ToFree(st2[u]) = ToFree(st[u])
               /\ o \notin Closing(st[u])
    BY <1>6, <1>9, <1>12 DEF c1, Mine
  <2>3. \A u, v \in Threads : \A x \in Objects :
          (x \in Mine(st2[u]) /\ x \in Mine(st2[v])) => u = v
    BY <1>1, <2>2 DEF LifeInv
  <2>4. ASSUME NEW u \in Threads, NEW x \in Objects
        PROVE  /\ x \in Making(st2[u]) => (x \in wrappers' /\ x \notin mPtr' /\ x \notin closing')
               /\ x \in Closing(st2[u]) => (x \in mPtr' /\ x \in closing' /\ mRefCount'[x] = 0)
    BY <1>1, <1>5, <2>1, <2>2 DEF LifeInv
  <2>5. ASSUME NEW x \in mPtr'
        PROVE  /\ x \in native' <=> (\A u \in Threads : x \in Closing(st2[u]) => x \in ToFree(st2[u]))
               /\ mRefCount'[x] = 0 => (\E u \in Threads : x \in Closing(st2[u]))
    <3>1. CASE x = o BY <1>5, <2>1, <2>2, <3>1
    <3>2. CASE x # o
      <4>1. x \in mPtr /\ x \in Objects BY <1>1, <1>5, <3>2 DEF TypesInv
      <4>   QED BY <1>1, <1>5, <2>1, <2>2, <3>2, <4>1 DEF LifeInv
    <3>   QED BY <3>1, <3>2
  <2>6. ASSUME NEW x \in wrappers' \ mPtr'
        PROVE  /\ mRefCount'[x] = 0
               /\ x \notin closing' => (\E u \in Threads : x \in Making(st2[u]))
    <3>1. x \in wrappers \ mPtr /\ x \in Objects /\ x # o BY <1>1, <1>5 DEF TypesInv
    <3>   QED BY <1>1, <1>5, <2>1, <2>2, <3>1 DEF LifeInv
  <2>   QED BY <2>3, <2>4, <2>5, <2>6 DEF LifeInv
<1>17. UsesInv(st2)'
  <2>1. \A c : UsesAt(c) => UsesAt(c)' BY <1>5 DEF UsesAt, Open_
  <2>   QED BY <1>1, <1>6, <1>9, <2>1 DEF UsesInv
<1>   QED BY <1>7, <1>11, <1>15, <1>16, <1>17, AnyStages DEF RefInvOf

LEMMA LastHolder ==
  ASSUME NEW st, CountsInv(st), mRefCount \in [Objects -> Nat], NEW o \in Objects,
         NEW h \in Holders(st, o), mRefCount[o] = 1
  PROVE  Holders(st, o) = {h}
<1>1. IsFiniteSet(Holders(st, o)) /\ Cardinality(Holders(st, o)) = 1 BY DEF CountsInv
<1>2. IsFiniteSet(Holders(st, o) \ {h}) /\ Cardinality(Holders(st, o) \ {h}) = 0
  BY <1>1, FS_RemoveElement
<1>3. Holders(st, o) \ {h} = {} BY <1>2, FS_EmptySet
<1>   QED BY <1>3

\* h gives back its reference to o; the thread closes o when that was the last one.
LEMMA DropKeepsInv ==
  ASSUME NEW st, RefInvOf(st), NEW t \in Threads, NEW c2 \in Stage,
         NEW o \in mPtr, NEW h \in Holders(st, o),
         mRefCount' = [mRefCount EXCEPT ![o] = @ - 1],
         UNCHANGED <<mPtr, native, source, wrappers, files>>,
         closing' = closing \/ closing' = closing \cup {o},
         todo' = [todo EXCEPT ![t] = Steps(c2)],
         Making(c2) = {}, Making(st[t]) = {}, ToFree(st[t]) = {},
         mRefCount[o] # 1 => Closing(c2) = Closing(st[t]) /\ ToFree(c2) = {},
         mRefCount[o] = 1 => /\ Closing(c2) = Closing(st[t]) \cup {o} /\ ToFree(c2) = {o}
                             /\ o \in closing',
         \A u \in Threads : o \notin Making(st[u]),
         Holders([st EXCEPT ![t] = c2], o)' = Holders(st, o) \ {h},
         \A x \in Objects \ {o} : Holders([st EXCEPT ![t] = c2], x)' = Holders(st, x),
         \A u \in Threads \ {t} : UsesAt(st[u])', UsesAt(c2)'
  PROVE  RefInv'
<1>   DEFINE st2 == [st EXCEPT ![t] = c2]
<1>1. TypesInv /\ StagesInv(st) /\ CountsInv(st) /\ LifeInv(st) /\ UsesInv(st) BY DEF RefInvOf
<1>2. st2 \in [Threads -> Stage] /\ st2[t] = c2 /\ \A u \in Threads \ {t} : st2[u] = st[u]
  BY <1>1 DEF StagesInv
<1>3. o \in Objects /\ o \in wrappers /\ mRefCount \in [Objects -> Nat] BY <1>1 DEF TypesInv
<1>4. StagesInv(st2)' BY <1>1, StagesFollow
<1>5. CountsInv(st2)' BY <1>1, <1>3, OneHolderLess
<1>6. mRefCount[o] # 0 BY <1>1, <1>3, Held
<1>   HIDE DEF st2
<1>7. /\ mRefCount' \in [Objects -> Nat] /\ (mRefCount'[o] = 0 <=> mRefCount[o] = 1)
      /\ \A x \in Objects \ {o} : mRefCount'[x] = mRefCount[x]
  BY <1>3, <1>6
<1>8. TypesInv' BY <1>1, <1>3, <1>7 DEF TypesInv
<1>9. \A u \in Threads : o \notin Closing(st[u]) /\ o \notin Mine(st[u])
  BY <1>1, <1>3, <1>6 DEF LifeInv, Mine
<1>10. o \in native
  BY <1>1, <1>9 DEF LifeInv
<1>11. ASSUME NEW u \in Threads
       PROVE  /\ Making(st2[u]) = Making(st[u])
              /\ Closing(st2[u]) =
                   Closing(st[u]) \cup (IF u = t /\ mRefCount[o] = 1 THEN {o} ELSE {})
              /\ Mine(st2[u]) =
                   Mine(st[u]) \cup (IF u = t /\ mRefCount[o] = 1 THEN {o} ELSE {})
              /\ ToFree(st2[u]) =
                   ToFree(st[u]) \cup (IF u = t /\ mRefCount[o] = 1 THEN {o} ELSE {})
  BY <1>2 DEF Mine
<1>12. LifeInv(st2)'
  <2>1. \A u, v \in Threads : \A x \in Objects :
          (x \in Mine(st2[u]) /\ x \in Mine(st2[v])) => u = v
    BY <1>1, <1>9, <1>11 DEF LifeInv
  <2>2. ASSUME NEW u \in Threads, NEW x \in Objects
        PROVE  /\ x \in Making(st2[u]) => (x \in wrappers' /\ x \notin mPtr' /\ x \notin closing')
               /\ x \in Closing(st2[u]) => (x \in mPtr' /\ x \in closing' /\ mRefCount'[x] = 0)
    <3>1. CASE x = o BY <1>7, <1>9, <1>11, <3>1
    <3>2. CASE x # o BY <1>1, <1>7, <1>11, <3>2 DEF LifeInv
    <3>   QED BY <3>1, <3>2
  <2>3. ASSUME NEW x \in mPtr
        PROVE  /\ x \in native <=> (\A u \in Threads : x \in Closing(st2[u]) => x \in ToFree(st2[u]))
               /\ mRefCount'[x] = 0 => (\E u \in Threads : x \in Closing(st2[u]))
    <3>1. CASE x = o BY <1>7, <1>9, <1>10, <1>11, <3>1
    <3>2. CASE x # o
      <4>1. x \in Objects BY <1>1 DEF TypesInv
      <4>2. \A u \in Threads : /\ x \in Closing(st2[u]) <=> x \in Closing(st[u])
                               /\ x \in ToFree(st2[u]) <=> x \in ToFree(st[u])
        BY <1>11, <3>2
      <4>   QED BY <1>1, <1>7, <3>2, <4>1, <4>2 DEF LifeInv
    <3>   QED BY <3>1, <3>2
  <2>4. ASSUME NEW x \in wrappers \ mPtr
        PROVE  /\ mRefCount'[x] = 0
               /\ x \notin closing' => (\E u \in Threads : x \in Making(st2[u]))
    <3>1. x \in Objects /\ x # o BY <1>1 DEF TypesInv
    <3>   QED BY <1>1, <1>7, <1>11, <3>1 DEF LifeInv
  <2>   QED BY <2>1, <2>2, <2>3, <2>4 DEF LifeInv
<1>13. UsesInv(st2)' BY <1>2 DEF UsesInv
<1>   QED BY <1>4, <1>5, <1>8, <1>12, <1>13, AnyStages DEF RefInvOf

\* The pointer of a wrapper is cleared.
LEMMA ClearKeepsInv ==
  ASSUME NEW st, RefInvOf(st), NEW t \in Threads, NEW o \in Objects, StepClear(t, o)
  PROVE  RefInv'
<1>   USE NativeObjectAssumption
<1>   DEFINE c1 == st[t]
<1>1. TypesInv /\ StagesInv(st) /\ CountsInv(st) /\ LifeInv(st) /\ UsesInv(st) BY DEF RefInvOf
<1>2. ~Idle(t) /\ Goes(t, <<>>) BY DEF StepClear, At
<1>0. c1 \in Stage /\ c1.pc # "idle" /\ Then(c1) \in Stage /\ Current(t) = First(c1)
      /\ todo' = [todo EXCEPT ![t] = Steps(Then(c1))]
  BY <1>1, <1>2, Reached
<1>00. PICK c2 \in Stage : c2 = Then(c1) BY <1>0
<1>   DEFINE st2 == [st EXCEPT ![t] = c2]
<1>4. c1.pc \in {"clearBatch", "clearDb", "clearSnapshot", "clearIterator"} /\ c1.o = o
  BY <1>0, FirstIs DEF StepClear, At
<1>5. UNCHANGED <<mRefCount, native, source, wrappers, closing, files>> /\ mPtr' = mPtr \ {o}
  BY DEF StepClear
<1>6. st2 \in [Threads -> Stage] /\ st2[t] = c2 /\ \A u \in Threads \ {t} : st2[u] = st[u]
  BY <1>1 DEF StagesInv
<1>7. StagesInv(st2)' BY <1>0, <1>00, <1>1, <1>5, StagesFollow
<1>   HIDE DEF c1, st2
<1>8. /\ c1.pc = "clearBatch" => o \in Batches
      /\ c1.pc = "clearDb" => o = db /\ c1.within \in {db} \cup Handles
      /\ c1.pc = "clearSnapshot" => o \in Snapshots /\ c1.within \in {db} \cup Iterators
      /\ c1.pc = "clearIterator" => o \in Iterators
  BY <1>0, <1>4 DEF Stage
<1>9. /\ o \in Closing(c1) /\ Closing(c2) = Closing(c1) \ {o}
      /\ o \notin KeepsDb(c1) /\ KeepsDb(c2) = KeepsDb(c1)
      /\ KeepsSnapshot(c1) = {} /\ KeepsSnapshot(c2) = {}
      /\ ToFree(c1) = {} /\ ToFree(c2) = {} /\ Making(c1) = {} /\ Making(c2) = {}
      /\ UsesAt(c2)' /\ Mine(c1) = Closing(c1) /\ Mine(c2) = Closing(c2)
      /\ GotDb(c1) = {} /\ GotDb(c2) = {} /\ GotSnapshot(c1) = {} /\ GotSnapshot(c2) = {}
  <2>1. CASE c1.pc \in {"clearBatch", "clearIterator"}
    BY <1>00, <1>4, <1>8, <2>1 DEF Then, At_, Closing, KeepsDb, KeepsSnapshot, ToFree, Making,
       UsesAt, Mine, GotDb, GotSnapshot
  <2>2. CASE c1.pc = "clearDb"
    <3>1. c2 = IF c1.within = db THEN At_("idle", db, db)
               ELSE IF c1.within \in Snapshots THEN At_("clearSnapshot", c1.within, db)
               ELSE At_("clearIterator", c1.within, db)
      BY <1>00, <2>2 DEF Then
    <3>   QED BY <1>4, <1>8, <2>2, <3>1 DEF At_, Closing, KeepsDb, KeepsSnapshot, ToFree,
             Making, UsesAt, Mine, GotDb, GotSnapshot, Handles
  <2>3. CASE c1.pc = "clearSnapshot"
    <3>1. c2 = IF c1.within = db THEN At_("idle", db, db)
               ELSE At_("unrefByIterator", c1.within, db)
      BY <1>00, <2>3 DEF Then
    <3>   QED BY <1>4, <1>8, <2>3, <3>1 DEF At_, Closing, KeepsDb, KeepsSnapshot, ToFree,
             Making, UsesAt, Mine, GotDb, GotSnapshot
  <2>   QED BY <1>4, <2>1, <2>2, <2>3
<1>10. o \in mPtr /\ o \in closing /\ mRefCount[o] = 0 BY <1>1, <1>9 DEF LifeInv, c1
<1>11. \A u \in Threads \ {t} : o \notin Mine(st[u])
  BY <1>1, <1>9, Alone DEF StagesInv, c1
<1>12. o \notin native BY <1>1, <1>9, <1>10 DEF LifeInv, c1
<1>13. TypesInv' BY <1>1, <1>5, <1>12 DEF TypesInv
<1>14. CountsInv(st2)'
  <2>0. st \in [Threads -> Stage] BY <1>1 DEF StagesInv
  <2>1. ASSUME NEW g \in Objects
        PROVE  /\ HoldsDb(st2, g)' <=> HoldsDb(st, g)
               /\ HoldsSnapshot(st2, g)' <=> HoldsSnapshot(st, g)
    <3>1. CASE g \in Mine(c1)
      <4>1. \A u \in Threads \ {t} : g \notin Mine(st[u])
        BY <1>1, <2>0, <3>1, Alone DEF c1
      <4>2. /\ HoldsDb(st, g) <=> (g \in mPtr /\ g \in KeepsDb(c1))
            /\ ~HoldsSnapshot(st, g)
        BY <1>00, <1>9, <2>0, <3>1, <4>1, Local DEF c1
      <4>3. /\ HoldsDb(st2, g)' <=>
                 \/ g \in mPtr' /\ (g \in Closing(c2) => g \in KeepsDb(c2))
                 \/ g \in GotDb(c2)
            /\ HoldsSnapshot(st2, g)' <=>
                 \/ g \in mPtr' /\ (g \in Closing(c2) => g \in KeepsSnapshot(c2))
                 \/ g \in GotSnapshot(c2)
        BY <2>0, <4>1, Local DEF st2
      <4>   QED BY <1>5, <1>9, <3>1, <4>2, <4>3
    <3>2. CASE g \notin Mine(c1)
      <4>1. g \notin Mine(c1) \cup Mine(c2) /\ (g \in mPtr' <=> g \in mPtr)
        BY <1>5, <1>9, <3>2
      <4>   QED BY <2>0, <4>1, Local DEF st2, c1
    <3>   QED BY <3>1, <3>2
  <2>2. \A x : Owns(x)' <=> Owns(x) BY <1>5, <1>10 DEF Owns
  <2>3. \A x \in Objects : Holders(st2, x)' = Holders(st, x)
    BY <1>5, <2>1, <2>2 DEF Holders, Objects, Handles
  <2>   QED BY <1>1, <1>5, <2>3, SameHolders
<1>15. LifeInv(st2)'
  <2>1. ASSUME NEW u \in Threads
        PROVE  /\ Making(st2[u]) = Making(st[u]) /\ Closing(st2[u]) = Closing(st[u]) \ {o}
               /\ ToFree(st2[u]) = ToFree(st[u]) /\ Mine(st2[u]) \subseteq Mine(st[u])
               /\ o \notin Making(st[u])
    <3>1. CASE u = t BY <1>6, <1>9, <3>1 DEF c1
    <3>2. CASE u # t BY <1>6, <1>11, <3>2 DEF Mine
    <3>   QED BY <3>1, <3>2
  <2>2. \A u, v \in Threads : \A x \in Objects :
          (x \in Mine(st2[u]) /\ x \in Mine(st2[v])) => u = v
    BY <1>1, <2>1 DEF LifeInv
  <2>3. ASSUME NEW u \in Threads, NEW x \in Objects
        PROVE  /\ x \in Making(st2[u]) => (x \in wrappers' /\ x \notin mPtr' /\ x \notin closing')
               /\ x \in Closing(st2[u]) => (x \in mPtr' /\ x \in closing' /\ mRefCount'[x] = 0)
    BY <1>1, <1>5, <2>1 DEF LifeInv
  <2>4. ASSUME NEW x \in mPtr'
        PROVE  /\ x \in native' <=> (\A u \in Threads : x \in Closing(st2[u]) => x \in ToFree(st2[u]))
               /\ mRefCount'[x] = 0 => (\E u \in Threads : x \in Closing(st2[u]))
    <3>1. x \in mPtr /\ x # o BY <1>5
    <3>2. \A u \in Threads : /\ x \in Closing(st2[u]) <=> x \in Closing(st[u])
                             /\ x \in ToFree(st2[u]) <=> x \in ToFree(st[u])
      BY <2>1, <3>1
    <3>3. /\ x \in native <=> (\A u \in Threads : x \in Closing(st[u]) => x \in ToFree(st[u]))
          /\ mRefCount[x] = 0 => (\E u \in Threads : x \in Closing(st[u]))
      BY <1>1, <3>1 DEF LifeInv
    <3>   QED BY <1>5, <3>2, <3>3
  <2>5. ASSUME NEW x \in wrappers' \ mPtr'
        PROVE  /\ mRefCount'[x] = 0
               /\ x \notin closing' => (\E u \in Threads : x \in Making(st2[u]))
    <3>1. x \in wrappers /\ (x \in mPtr => x = o) BY <1>5
    <3>   QED BY <1>1, <1>5, <1>10, <2>1, <3>1 DEF LifeInv
  <2>   QED BY <2>2, <2>3, <2>4, <2>5 DEF LifeInv
<1>16. UsesInv(st2)'
  <2>1. \A c : UsesAt(c) => UsesAt(c)' BY <1>5, <1>10 DEF UsesAt, Open_
  <2>   QED BY <1>1, <1>6, <1>9, <2>1 DEF UsesInv
<1>   QED BY <1>7, <1>13, <1>14, <1>15, <1>16, AnyStages DEF RefInvOf

\* The caller of close(o) sees every call under way that makes or uses o.
LEMMA UsesAreSeen ==
  ASSUME NEW st, RefInvOf(st), NEW o \in Objects, ~InUse(o), NEW u \in Threads
  PROVE  /\ st[u].pc \in {"call", "with"} => st[u].o # o
         /\ st[u].pc \in {"with", "refForSnapshot", "refForIterator"} => o # db
         /\ (st[u].pc \in {"refForIterator", "refSnapshot"} /\ source[st[u].o] # None)
              => source[st[u].o] # o
         /\ o \notin Making(st[u])
<1>   USE NativeObjectAssumption
<1>   DEFINE c == st[u]
<1>1. c \in Stage /\ todo[u] = Steps(c) BY DEF RefInvOf, StagesInv
<1>2. \A i \in 1..Len(todo[u]) : todo[u][i] \notin StepsOn(o) BY DEF InUse
<1>   HIDE DEF c
<1>3. CASE c.pc = "call"
  <2>1. todo[u] = <<<<"call", c.o>>>> BY <1>1, <1>3 DEF Steps
  <2>2. Len(todo[u]) = 1 /\ todo[u][1] = <<"call", c.o>> BY <2>1
  <2>3. <<"call", c.o>> \notin StepsOn(o) BY <1>2, <2>2
  <2>4. c.o # o BY <2>3 DEF StepsOn
  <2>   QED BY <1>3, <2>4 DEF c, Making
<1>4. CASE c.pc = "with"
  <2>1. todo[u] = <<<<"with", c.o>>>> /\ c.o \in Snapshots \cup Batches
    BY <1>1, <1>4 DEF Steps, Stage
  <2>2. Len(todo[u]) = 1 /\ todo[u][1] = <<"with", c.o>> BY <2>1
  <2>3. <<"with", c.o>> \notin StepsOn(o) BY <1>2, <2>2
  <2>4. c.o # o BY <2>3 DEF StepsOn
  <2>5. o # db BY <2>1, <2>3 DEF StepsOn
  <2>   QED BY <1>4, <2>4, <2>5 DEF c, Making
<1>5. CASE c.pc = "refForSnapshot"
  <2>1. todo[u] = <<<<"ref", db>>, <<"snapshot", c.o>>>> BY <1>1, <1>5 DEF Steps
  <2>2. Len(todo[u]) = 2 /\ todo[u][1] = <<"ref", db>> /\ todo[u][2] = <<"snapshot", c.o>>
    BY <2>1
  <2>3. <<"ref", db>> \notin StepsOn(o) /\ <<"snapshot", c.o>> \notin StepsOn(o) BY <1>2, <2>2
  <2>4. o # db /\ c.o # o BY <2>3 DEF StepsOn
  <2>   QED BY <1>5, <2>4 DEF c, Making
<1>6. CASE c.pc = "snapshot"
  <2>1. todo[u] = <<<<"snapshot", c.o>>>> BY <1>1, <1>6 DEF Steps
  <2>2. Len(todo[u]) = 1 /\ todo[u][1] = <<"snapshot", c.o>> BY <2>1
  <2>3. <<"snapshot", c.o>> \notin StepsOn(o) BY <1>2, <2>2
  <2>4. c.o # o BY <2>3 DEF StepsOn
  <2>   QED BY <1>6, <2>4 DEF c, Making
<1>7. CASE c.pc = "refForIterator" /\ source[c.o] = None
  <2>1. todo[u] = <<<<"ref", db>>, <<"iterator", c.o>>>> BY <1>1, <1>7 DEF Steps
  <2>2. Len(todo[u]) = 2 /\ todo[u][1] = <<"ref", db>> /\ todo[u][2] = <<"iterator", c.o>>
    BY <2>1
  <2>3. <<"ref", db>> \notin StepsOn(o) /\ <<"iterator", c.o>> \notin StepsOn(o) BY <1>2, <2>2
  <2>4. o # db /\ c.o # o BY <2>3 DEF StepsOn
  <2>   QED BY <1>7, <2>4 DEF c, Making
<1>8. CASE c.pc = "refForIterator" /\ source[c.o] # None
  <2>1. todo[u] = <<<<"ref", db>>, <<"ref", source[c.o]>>, <<"iterator", c.o>>>>
    BY <1>1, <1>8 DEF Steps
  <2>2. Len(todo[u]) = 3 /\ todo[u][1] = <<"ref", db>> /\ todo[u][2] = <<"ref", source[c.o]>>
        /\ todo[u][3] = <<"iterator", c.o>>
    BY <2>1
  <2>3. <<"ref", db>> \notin StepsOn(o) /\ <<"ref", source[c.o]>> \notin StepsOn(o)
        /\ <<"iterator", c.o>> \notin StepsOn(o)
    BY <1>2, <2>2
  <2>4. o # db /\ source[c.o] # o /\ c.o # o BY <2>3 DEF StepsOn
  <2>   QED BY <1>8, <2>4 DEF c, Making
<1>9. CASE c.pc = "refSnapshot"
  <2>1. todo[u] = <<<<"ref", source[c.o]>>, <<"iterator", c.o>>>> BY <1>1, <1>9 DEF Steps
  <2>2. Len(todo[u]) = 2 /\ todo[u][1] = <<"ref", source[c.o]>>
        /\ todo[u][2] = <<"iterator", c.o>>
    BY <2>1
  <2>3. <<"ref", source[c.o]>> \notin StepsOn(o) /\ <<"iterator", c.o>> \notin StepsOn(o)
    BY <1>2, <2>2
  <2>4. source[c.o] # o /\ c.o # o BY <2>3 DEF StepsOn
  <2>   QED BY <1>9, <2>4 DEF c, Making
<1>10. CASE c.pc = "iterator"
  <2>1. todo[u] = <<<<"iterator", c.o>>>> BY <1>1, <1>10 DEF Steps
  <2>2. Len(todo[u]) = 1 /\ todo[u][1] = <<"iterator", c.o>> BY <2>1
  <2>3. <<"iterator", c.o>> \notin StepsOn(o) BY <1>2, <2>2
  <2>4. c.o # o BY <2>3 DEF StepsOn
  <2>   QED BY <1>10, <2>4 DEF c, Making
<1>11. CASE c.pc \notin {"call", "with", "refForSnapshot", "snapshot", "refForIterator",
                         "refSnapshot", "iterator"}
  BY <1>11 DEF c, Making
<1>   QED BY <1>3, <1>4, <1>5, <1>6, <1>7, <1>8, <1>9, <1>10, <1>11

LEMMA StutterKeepsInv ==
  ASSUME NEW st, RefInvOf(st), UNCHANGED objectsVars
  PROVE  RefInv'
<1>1. TypesInv /\ StagesInv(st) /\ CountsInv(st) /\ LifeInv(st) /\ UsesInv(st) BY DEF RefInvOf
<1>2. UNCHANGED <<mPtr, mRefCount, native, source, wrappers, closing, files, todo>> BY DEF objectsVars
<1>3. TypesInv' BY <1>1, <1>2 DEF TypesInv
<1>4. StagesInv(st)'
  <2>1. \A u \in Threads : Steps(st[u])' = Steps(st[u]) BY <1>2, SameSteps
  <2>   QED BY <1>1, <1>2, <2>1 DEF StagesInv
<1>5. CountsInv(st)'
  <2>1. \A x \in Objects : Holders(st, x)' = Holders(st, x)
    BY <1>2 DEF Holders, HoldsDb, HoldsSnapshot, Owns
  <2>   QED BY <1>1, <1>2, <2>1, SameHolders
<1>6. LifeInv(st)' BY <1>1, <1>2 DEF LifeInv
<1>7. UsesInv(st)' BY <1>1, <1>2 DEF UsesInv, UsesAt, Open_
<1>   QED BY <1>3, <1>4, <1>5, <1>6, <1>7, AnyStages DEF RefInvOf

\* close()
LEMMA CloseKeepsInv ==
  ASSUME NEW st, RefInvOf(st), NEW t \in Threads, NEW o \in Objects, Close(t, o)
  PROVE  RefInv'
<1>   USE NativeObjectAssumption
<1>   DEFINE c1 == st[t]
<1>1. TypesInv /\ StagesInv(st) /\ CountsInv(st) /\ LifeInv(st) /\ UsesInv(st) BY DEF RefInvOf
<1>2. c1 \in Stage /\ c1.pc = "idle" /\ todo[t] = <<>>
  BY <1>1, Reached DEF Close, Idle
<1>3. \A u \in Threads : o \notin Making(st[u]) BY UsesAreSeen DEF Close
<1>4. CASE o \notin mPtr
  <2>1. o \in closing
    BY <1>1, <1>3, <1>4 DEF LifeInv, Close
  <2>2. UNCHANGED objectsVars
    BY <1>4, <2>1 DEF Close, objectsVars
  <2>   QED BY <2>2, StutterKeepsInv
<1>5. CASE o \in mPtr
  <2>   DEFINE c2 == IF mRefCount[o] = 1 THEN Begins(o, db) ELSE At_("idle", db, db)
               st2 == [st EXCEPT ![t] = c2]
  <2>1. o \notin closing /\ closing' = closing \cup {o} /\ ~InUse(o) /\ Unref(t, o, <<>>)
        /\ UNCHANGED <<mPtr, native, source, files, wrappers>>
    BY <1>5 DEF Close
  <2>2. o \in Holders(st, o) BY <1>5, <2>1 DEF Holders, Owns
  <2>3. mRefCount[o] # 0 BY <1>1, <2>2, Held DEF TypesInv
  <2>4. mRefCount' = [mRefCount EXCEPT ![o] = @ - 1]
        /\ todo' = [todo EXCEPT ![t] = IF mRefCount[o] = 1
                                       THEN CloseNativeObject(o) \o <<<<"clear", o>>>> \o <<>>
                                       ELSE <<>>]
    BY <2>1, <2>3 DEF Unref
  <2>5. Begins(o, db) \in Stage
        /\ CloseNativeObject(o) \o <<<<"clear", o>>>> \o <<>> = Steps(Begins(o, db))
    BY <1>1, Nest
  <2>6. At_("idle", db, db) \in Stage /\ Steps(At_("idle", db, db)) = <<>>
    BY DEF Stage, At_, Objects, Steps
  <2>7. c2 \in Stage BY <2>5, <2>6
  <2>8. todo' = [todo EXCEPT ![t] = Steps(c2)] BY <2>4, <2>5, <2>6
  <2>9. /\ mRefCount[o] # 1 => c2 = At_("idle", db, db)
        /\ mRefCount[o] = 1 => c2 = Begins(o, db)
    OBVIOUS
  <2>10. PICK d2 \in Stage : d2 = c2 BY <2>7
  <2>   HIDE DEF c1, c2
  <2>11. /\ Making(c1) = {} /\ Closing(c1) = {} /\ ToFree(c1) = {} /\ Mine(c1) = {}
    BY <1>2 DEF Making, Closing, ToFree, Mine
  <2>12. /\ Making(d2) = {} /\ GotDb(d2) = {} /\ GotSnapshot(d2) = {}
         /\ mRefCount[o] # 1 => Closing(d2) = {} /\ ToFree(d2) = {}
         /\ mRefCount[o] = 1 => Closing(d2) = {o} /\ ToFree(d2) = {o}
         /\ (mRefCount[o] = 1 /\ o \in Handles) => o \in KeepsDb(d2)
         /\ (mRefCount[o] = 1 /\ o \in Iterators) => o \in KeepsSnapshot(d2)
         /\ Mine(d2) = Closing(d2)
    <3>1. CASE mRefCount[o] # 1
      BY <2>9, <2>10, <3>1
      DEF At_, Making, Closing, ToFree, Mine, GotDb, GotSnapshot
    <3>2. CASE mRefCount[o] = 1
      <4>1. d2.o = o /\ d2.within = db
            /\ d2.pc = IF o = db THEN "delete" ELSE IF o \in Batches THEN "freeBatch"
                       ELSE IF o \in Snapshots THEN "release" ELSE "free"
        BY <2>9, <2>10, <3>2 DEF Begins, At_
      <4>   QED BY <3>2, <4>1 DEF Making, Closing, ToFree, Mine, KeepsDb, KeepsSnapshot, Handles,
               GotDb, GotSnapshot, Objects
    <3>   QED BY <3>1, <3>2
  <2>   DEFINE s2 == [st EXCEPT ![t] = d2]
  <2>13. ASSUME NEW g \in Objects
         PROVE  /\ g \in Handles => (HoldsDb(s2, g)' <=> HoldsDb(st, g))
                /\ g \in Iterators => (HoldsSnapshot(s2, g)' <=> HoldsSnapshot(st, g))
    <3>0. st \in [Threads -> Stage] /\ mPtr' = mPtr BY <1>1, <2>1 DEF StagesInv
    <3>1. CASE g \notin Mine(d2)
      <4>1. g \notin Mine(st[t]) \cup Mine(d2) BY <2>11, <3>1 DEF c1
      <4>   QED BY <3>0, <4>1, Local
    <3>2. CASE g \in Mine(d2)
      <4>1. g = o /\ mRefCount[o] = 1 BY <2>12, <3>2
      <4>2. \A u \in Threads : o \notin Mine(st[u])
        BY <1>1, <1>3, <2>3 DEF LifeInv, Mine
      <4>3. \A u \in Threads \ {t} : g \notin Mine(st[u]) BY <4>1, <4>2
      <4>4. /\ HoldsDb(st, g) <=> g \in mPtr \/ g \in GotDb(st[t])
            /\ HoldsSnapshot(st, g) <=> g \in mPtr \/ g \in GotSnapshot(st[t])
        BY <2>11, <3>0, <4>3, Local DEF c1
      <4>5. /\ HoldsDb(s2, g)' <=> g \in mPtr' /\ g \in KeepsDb(d2)
            /\ HoldsSnapshot(s2, g)' <=> g \in mPtr' /\ g \in KeepsSnapshot(d2)
        <5>1. g \in Closing(d2) /\ g \notin GotDb(d2) /\ g \notin GotSnapshot(d2)
          BY <2>12, <4>1
        <5>2. /\ HoldsDb(s2, g)' <=>
                    \/ g \in mPtr' /\ (g \in Closing(d2) => g \in KeepsDb(d2))
                    \/ g \in GotDb(d2)
              /\ HoldsSnapshot(s2, g)' <=>
                    \/ g \in mPtr' /\ (g \in Closing(d2) => g \in KeepsSnapshot(d2))
                    \/ g \in GotSnapshot(d2)
          BY <3>0, <4>3, Local
        <5>   QED BY <5>1, <5>2
      <4>   QED BY <1>5, <2>12, <3>0, <4>1, <4>4, <4>5
    <3>   QED BY <3>1, <3>2
  <2>   HIDE DEF s2
  <2>14. /\ Holders(s2, o)' = Holders(st, o) \ {o}
         /\ \A x \in Objects \ {o} : Holders(s2, x)' = Holders(st, x)
    <3>1. ~Owns(o)' /\ \A x : x # o => (Owns(x)' <=> Owns(x)) BY <2>1 DEF Owns
    <3>2. \A x \in Objects : \A g \in Handles :
             (x = db /\ HoldsDb(s2, g)') <=> (x = db /\ HoldsDb(st, g))
      BY <2>13 DEF Handles, Objects
    <3>3. \A x \in Objects : \A g \in Iterators :
             (x \in Snapshots /\ source[g] = x /\ HoldsSnapshot(s2, g)')
               <=> (x \in Snapshots /\ source[g] = x /\ HoldsSnapshot(st, g))
      BY <2>13 DEF Objects
    <3>4. \A x \in Objects \ {o} : Holders(s2, x)' = Holders(st, x)
      BY <2>1, <3>1, <3>2, <3>3 DEF Holders
    <3>5. /\ o = db => o \notin Handles
          /\ o \in Snapshots => o \notin Iterators
      BY DEF Handles
    <3>6. Holders(s2, o)' = Holders(st, o) \ {o}
      BY <2>1, <3>1, <3>2, <3>3, <3>5 DEF Holders
    <3>   QED BY <3>4, <3>6
  <2>15. \A u \in Threads \ {t} : UsesAt(st[u])'
    <3>1. ASSUME NEW u \in Threads \ {t} PROVE UsesAt(st[u])'
      <4>1. UsesAt(st[u]) BY <1>1 DEF UsesInv
      <4>2. /\ st[u].pc \in {"call", "with"} => st[u].o # o
            /\ st[u].pc \in {"with", "refForSnapshot", "refForIterator"} => o # db
            /\ (st[u].pc \in {"refForIterator", "refSnapshot"} /\ source[st[u].o] # None)
                 => source[st[u].o] # o
        BY <2>1, UsesAreSeen
      <4>3. \A x : x # o => (Open_(x)' <=> Open_(x)) BY <2>1 DEF Open_
      <4>   QED BY <2>1, <4>1, <4>2, <4>3 DEF UsesAt
    <3>   QED BY <3>1
  <2>16. UsesAt(d2)'
    <3>1. d2.pc \in {"idle", "delete", "freeBatch", "release", "free"}
      BY <2>9, <2>10 DEF Begins, At_
    <3>   QED BY <3>1 DEF UsesAt
  <2>17. todo' = [todo EXCEPT ![t] = Steps(d2)] BY <2>8, <2>10
  <2>   QED BY <1>3, <1>5, <2>1, <2>2, <2>4, <2>11, <2>12, <2>14, <2>15, <2>16, <2>17,
           DropKeepsInv DEF c1, s2
<1>   QED BY <1>4, <1>5

\* unref()
LEMMA UnrefKeepsInv ==
  ASSUME NEW st, RefInvOf(st), NEW t \in Threads, NEW o \in Objects, StepUnref(t, o)
  PROVE  RefInv'
<1>   USE NativeObjectAssumption
<1>   DEFINE c1 == st[t]
             h == c1.o
<1>1. TypesInv /\ StagesInv(st) /\ CountsInv(st) /\ LifeInv(st) /\ UsesInv(st) BY DEF RefInvOf
<1>2. ~Idle(t) BY DEF StepUnref, At
<1>3. c1 \in Stage /\ c1.pc # "idle" /\ Then(c1) \in Stage /\ Current(t) = First(c1)
      /\ Tail(todo[t]) = Steps(Then(c1))
  BY <1>1, <1>2, Reached
<1>4. \/ c1.pc \in {"unrefBySnapshot", "unrefByIterator"} /\ o = db
      \/ c1.pc = "unrefSnapshot" /\ o = source[h]
  BY <1>3, FirstIs DEF StepUnref, At
<1>5. UsesAt(c1) BY <1>1 DEF UsesInv
<1>6. /\ c1.pc = "unrefBySnapshot" => h \in Snapshots /\ c1.within \in {db} \cup Iterators
      /\ c1.pc \in {"unrefByIterator", "unrefSnapshot"} => h \in Iterators /\ c1.within = db
  BY <1>3 DEF Stage
<1>7. c1.pc = "unrefSnapshot" => o \in Snapshots
  BY <1>1, <1>4, <1>5, <1>6 DEF UsesAt, TypesInv
<1>8. h \in Handles /\ h \in Objects /\ h # db /\ h # o
  BY <1>4, <1>6, <1>7 DEF Handles, Objects
<1>9. UNCHANGED <<mPtr, native, source, files, wrappers, closing>> /\ Unref(t, o, Tail(todo[t]))
  BY DEF StepUnref
<1>10. st \in [Threads -> Stage] BY <1>1 DEF StagesInv
<1>   HIDE DEF c1, h
<1>11. /\ Making(c1) = {} /\ ToFree(c1) = {} /\ GotDb(c1) = {} /\ GotSnapshot(c1) = {}
       /\ Closing(c1) = {h, c1.within} \ {db} /\ Mine(c1) = Closing(c1)
       /\ KeepsDb(c1) = {h, c1.within} \ {db}
       /\ KeepsSnapshot(c1) = IF c1.pc = "unrefSnapshot" THEN {h} ELSE {}
  BY <1>4, <1>6, <1>8 DEF Making, ToFree, GotDb, GotSnapshot, Closing, Mine, KeepsDb,
     KeepsSnapshot, h
<1>12. \A g \in Mine(c1) : \A u \in Threads \ {t} : g \notin Mine(st[u])
  BY <1>1, <1>10, Alone DEF c1
<1>13. \A g \in Mine(c1) : g \in mPtr /\ g \in closing /\ mRefCount[g] = 0 /\ g \in Objects
  BY <1>1, <1>3, <1>11, Roles DEF LifeInv, c1
<1>14. \A g \in Mine(c1) : /\ HoldsDb(st, g)
                           /\ HoldsSnapshot(st, g) <=> (g = h /\ c1.pc = "unrefSnapshot")
  <2>1. ASSUME NEW g \in Mine(c1)
        PROVE  /\ HoldsDb(st, g)
               /\ HoldsSnapshot(st, g) <=> (g = h /\ c1.pc = "unrefSnapshot")
    <3>1. /\ HoldsDb(st, g) <=>
               \/ g \in mPtr /\ (g \in Closing(c1) => g \in KeepsDb(c1))
               \/ g \in GotDb(c1)
          /\ HoldsSnapshot(st, g) <=>
               \/ g \in mPtr /\ (g \in Closing(c1) => g \in KeepsSnapshot(c1))
               \/ g \in GotSnapshot(c1)
      BY <1>3, <1>10, <1>12, <1>13, Local DEF c1
    <3>   QED BY <1>11, <1>13, <3>1
  <2>   QED BY <2>1
<1>15. h \in Holders(st, o)
  <2>1. HoldsDb(st, h) /\ (HoldsSnapshot(st, h) <=> c1.pc = "unrefSnapshot")
    BY <1>8, <1>11, <1>14
  <2>   QED BY <1>4, <1>6, <1>7, <1>8, <2>1 DEF Holders
<1>16. mRefCount[o] # 0 BY <1>1, <1>15, Held DEF TypesInv
<1>17. o \in mPtr /\ \A u \in Threads : o \notin Making(st[u])
  <2>1. h \in wrappers BY <1>8, <1>1, <1>11, <1>13 DEF TypesInv
  <2>2. o \in wrappers BY <1>1, <1>4, <1>6, <1>7, <1>8, <2>1 DEF TypesInv
  <2>3. o \in mPtr BY <1>1, <1>16, <2>2 DEF LifeInv
  <2>   QED BY <1>1, <2>3 DEF LifeInv
<1>18. ASSUME mRefCount[o] = 1
       PROVE  o \in closing /\ c1.within = db
  <2>1. Holders(st, o) = {h} BY <1>1, <1>15, <1>18, LastHolder DEF TypesInv
  <2>2. o \in closing
    <3>1. ~Owns(o) BY <1>8, <2>1 DEF Holders
    <3>   QED BY <1>17, <3>1 DEF Owns
  <2>3. c1.within = db
    <3>1. SUFFICES ASSUME c1.within # db PROVE FALSE OBVIOUS
    <3>2. c1.pc = "unrefBySnapshot" /\ o = db /\ c1.within \in Iterators /\ c1.within # h
      BY <1>4, <1>6, <3>1
    <3>3. HoldsDb(st, c1.within) BY <1>11, <1>14, <3>1
    <3>4. c1.within \in Holders(st, o) BY <3>2, <3>3 DEF Holders, Handles
    <3>   QED BY <2>1, <3>2, <3>4
  <2>   QED BY <2>2, <2>3
<1>   DEFINE c2 == IF mRefCount[o] = 1 THEN Begins(o, h) ELSE Then(c1)
<1>19. c2 \in Stage /\ todo' = [todo EXCEPT ![t] = Steps(c2)]
  <2>1. CASE mRefCount[o] # 1
    <3>1. todo' = [todo EXCEPT ![t] = Steps(Then(c1))] BY <1>3, <1>9, <1>16, <2>1 DEF Unref
    <3>   QED BY <1>3, <2>1, <3>1
  <2>2. CASE mRefCount[o] = 1
    <3>1. todo' = [todo EXCEPT ![t] =
                     CloseNativeObject(o) \o <<<<"clear", o>>>> \o Steps(Then(c1))]
      BY <1>3, <1>9, <1>16, <2>2 DEF Unref
    <3>2. Steps(Then(c1)) = IF o = db THEN <<<<"clear", h>>>>
                            ELSE <<<<"unref", db>>, <<"clear", h>>>>
      <4>1. c1.within = db BY <1>18, <2>2
      <4>2. CASE c1.pc = "unrefBySnapshot"
        <5>1. Then(c1) = At_("clearSnapshot", h, db) BY <4>1, <4>2 DEF Then, h
        <5>2. Steps(At_("clearSnapshot", h, db)) = <<<<"clear", h>>>> BY DEF Steps, At_
        <5>   QED BY <1>4, <4>2, <5>1, <5>2
      <4>3. CASE c1.pc = "unrefByIterator"
        <5>1. Then(c1) = At_("clearIterator", h, db) BY <4>1, <4>3 DEF Then, h
        <5>2. Steps(At_("clearIterator", h, db)) = <<<<"clear", h>>>> BY DEF Steps, At_
        <5>   QED BY <1>4, <4>3, <5>1, <5>2
      <4>4. CASE c1.pc = "unrefSnapshot"
        <5>1. Then(c1) = At_("unrefByIterator", h, db) BY <4>1, <4>4 DEF Then, h
        <5>2. Steps(At_("unrefByIterator", h, db)) = <<<<"unref", db>>, <<"clear", h>>>>
          BY DEF Steps, At_
        <5>   QED BY <1>7, <4>4, <5>1, <5>2
      <4>   QED BY <1>4, <4>2, <4>3, <4>4
    <3>3. o = db \/ (o \in Snapshots /\ h \in Iterators) BY <1>4, <1>6, <1>7
    <3>4. Begins(o, h) \in Stage
          /\ CloseNativeObject(o) \o <<<<"clear", o>>>>
               \o (IF h = db THEN <<>> ELSE IF o = db THEN <<<<"clear", h>>>>
                   ELSE <<<<"unref", db>>, <<"clear", h>>>>) = Steps(Begins(o, h))
      BY <1>1, <1>8, <3>3, Nest
    <3>5. CloseNativeObject(o) \o <<<<"clear", o>>>> \o Steps(Then(c1)) = Steps(Begins(o, h))
      BY <1>8, <3>2, <3>4
    <3>   QED BY <2>2, <3>1, <3>4, <3>5
  <2>   QED BY <2>1, <2>2
<1>20. PICK d2 \in Stage : d2 = c2 BY <1>19
<1>21. mRefCount' = [mRefCount EXCEPT ![o] = @ - 1] BY <1>9, <1>16 DEF Unref
<1>22. /\ mRefCount[o] # 1 =>
            d2 = At_(IF c1.pc = "unrefBySnapshot" THEN "clearSnapshot"
                     ELSE IF c1.pc = "unrefByIterator" THEN "clearIterator"
                     ELSE "unrefByIterator", h,
                     IF c1.pc = "unrefBySnapshot" THEN c1.within ELSE db)
       /\ mRefCount[o] = 1 => d2 = At_(IF o = db THEN "delete" ELSE "release", o, h)
  <2>1. CASE mRefCount[o] # 1
    <3>1. d2 = Then(c1) BY <1>20, <2>1
    <3>   QED BY <1>4, <2>1, <3>1 DEF Then, h
  <2>2. CASE mRefCount[o] = 1
    <3>1. d2 = Begins(o, h) BY <1>20, <2>2
    <3>2. o # db => o \in Snapshots /\ o \notin Batches BY <1>4, <1>7
    <3>   QED BY <2>2, <3>1, <3>2 DEF Begins
  <2>   QED BY <2>1, <2>2
<1>   HIDE DEF c2
<1>23. /\ Making(d2) = {} /\ GotDb(d2) = {} /\ GotSnapshot(d2) = {} /\ Mine(d2) = Closing(d2)
       /\ mRefCount[o] # 1 => Closing(d2) = Closing(c1) /\ ToFree(d2) = {}
       /\ mRefCount[o] = 1 => Closing(d2) = Closing(c1) \cup {o} /\ ToFree(d2) = {o}
       /\ KeepsSnapshot(d2) = {}
       /\ KeepsDb(d2) = IF o = db THEN KeepsDb(c1) \ {h}
                        ELSE KeepsDb(c1) \cup (IF mRefCount[o] = 1 THEN {o} ELSE {})
       /\ UsesAt(d2)'
  <2>1. CASE mRefCount[o] # 1
    <3>1. d2.o = h /\ d2.within = (IF c1.pc = "unrefBySnapshot" THEN c1.within ELSE db)
          /\ d2.pc = (IF c1.pc = "unrefBySnapshot" THEN "clearSnapshot"
                      ELSE IF c1.pc = "unrefByIterator" THEN "clearIterator"
                      ELSE "unrefByIterator")
      BY <1>22, <2>1 DEF At_
    <3>2. CASE c1.pc = "unrefBySnapshot"
      BY <1>4, <1>6, <1>8, <1>11, <2>1, <3>1, <3>2 DEF Making, GotDb, GotSnapshot, Mine, Closing,
         ToFree, KeepsSnapshot, KeepsDb, UsesAt
    <3>3. CASE c1.pc = "unrefByIterator"
      BY <1>4, <1>6, <1>8, <1>11, <2>1, <3>1, <3>3 DEF Making, GotDb, GotSnapshot, Mine, Closing,
         ToFree, KeepsSnapshot, KeepsDb, UsesAt
    <3>4. CASE c1.pc = "unrefSnapshot"
      BY <1>4, <1>6, <1>7, <1>8, <1>11, <2>1, <3>1, <3>4 DEF Making, GotDb, GotSnapshot, Mine,
         Closing, ToFree, KeepsSnapshot, KeepsDb, UsesAt
    <3>   QED BY <1>4, <3>2, <3>3, <3>4
  <2>2. CASE mRefCount[o] = 1
    <3>1. d2.o = o /\ d2.within = h /\ d2.pc = IF o = db THEN "delete" ELSE "release"
      BY <1>22, <2>2 DEF At_
    <3>2. c1.within = db BY <1>18, <2>2
    <3>3. CASE o = db
      BY <1>6, <1>8, <1>11, <2>2, <3>1, <3>2, <3>3 DEF Making, GotDb, GotSnapshot, Mine, Closing,
         ToFree, KeepsSnapshot, KeepsDb, UsesAt
    <3>4. CASE o # db
      BY <1>6, <1>8, <1>11, <2>2, <3>1, <3>2, <3>4 DEF Making, GotDb, GotSnapshot, Mine, Closing,
         ToFree, KeepsSnapshot, KeepsDb, UsesAt
    <3>   QED BY <3>3, <3>4
  <2>   QED BY <2>1, <2>2
<1>   DEFINE s2 == [st EXCEPT ![t] = d2]
<1>24. o \notin Mine(c1) /\ \A u \in Threads : o \notin Mine(st[u])
  <2>1. \A u \in Threads : o \notin Closing(st[u]) BY <1>1, <1>16 DEF LifeInv
  <2>   QED BY <1>17, <2>1 DEF Mine, c1
<1>25. ASSUME NEW g \in Objects
       PROVE  /\ g \in Handles => (HoldsDb(s2, g)' <=> (HoldsDb(st, g) /\ ~(o = db /\ g = h)))
              /\ g \in Iterators =>
                   (HoldsSnapshot(s2, g)' <=> (HoldsSnapshot(st, g) /\ ~(o # db /\ g = h)))
  <2>1. CASE g \notin Mine(d2)
    <3>1. g \notin Mine(c1) /\ g # h BY <1>8, <1>11, <1>23, <2>1
    <3>2. /\ HoldsDb(s2, g)' <=> HoldsDb(st, g)
          /\ HoldsSnapshot(s2, g)' <=> HoldsSnapshot(st, g)
      BY <1>9, <1>10, <2>1, <3>1, Local DEF c1
    <3>3. g = o => mRefCount[o] # 1 BY <1>23, <2>1
    <3>   QED BY <3>1, <3>2, <3>3
  <2>2. CASE g \in Mine(d2)
    <3>1. g \in Mine(c1) \/ (g = o /\ mRefCount[o] = 1) BY <1>11, <1>23, <2>2
    <3>2. \A u \in Threads \ {t} : g \notin Mine(st[u]) BY <1>12, <1>24, <3>1
    <3>3. g \in mPtr BY <1>13, <1>17, <3>1
    <3>4. /\ HoldsDb(s2, g)' <=>
               \/ g \in mPtr' /\ (g \in Closing(d2) => g \in KeepsDb(d2))
               \/ g \in GotDb(d2)
          /\ HoldsSnapshot(s2, g)' <=>
               \/ g \in mPtr' /\ (g \in Closing(d2) => g \in KeepsSnapshot(d2))
               \/ g \in GotSnapshot(d2)
      BY <1>10, <3>2, Local
    <3>5. /\ HoldsDb(s2, g)' <=> g \in KeepsDb(d2)
          /\ ~HoldsSnapshot(s2, g)'
      BY <1>9, <1>23, <2>2, <3>3, <3>4
    <3>6. CASE g \in Mine(c1)
      <4>1. g # o BY <1>24, <3>6
      <4>2. g \in KeepsDb(c1) BY <1>11, <3>6
      <4>3. g \in KeepsDb(d2) <=> ~(o = db /\ g = h) BY <1>23, <4>1, <4>2
      <4>4. HoldsSnapshot(st, g) => o # db /\ g = h BY <1>4, <1>7, <1>14, <3>6
      <4>   QED BY <1>14, <3>5, <3>6, <4>3, <4>4
    <3>7. CASE g = o /\ mRefCount[o] = 1
      <4>1. HoldsDb(st, g) BY <1>24, <3>3, <3>7 DEF HoldsDb, Mine
      <4>2. g \notin Iterators BY <1>4, <1>7, <3>7
      <4>3. g \in Handles => o # db /\ g \in KeepsDb(d2) BY <1>23, <3>7 DEF Handles
      <4>   QED BY <3>5, <4>1, <4>2, <4>3
    <3>   QED BY <3>1, <3>6, <3>7
  <2>   QED BY <2>1, <2>2
<1>   HIDE DEF s2
<1>26. /\ Holders(s2, o)' = Holders(st, o) \ {h}
       /\ \A x \in Objects \ {o} : Holders(s2, x)' = Holders(st, x)
  <2>1. \A x : Owns(x)' <=> Owns(x) BY <1>9 DEF Owns
  <2>2. \A x \in Objects \ {o} : \A g \in Handles :
          (x = db /\ HoldsDb(s2, g)') <=> (x = db /\ HoldsDb(st, g))
    BY <1>25 DEF Handles, Objects
  <2>3. \A x \in Objects \ {o} : \A g \in Iterators :
          (x \in Snapshots /\ source[g] = x /\ HoldsSnapshot(s2, g)')
            <=> (x \in Snapshots /\ source[g] = x /\ HoldsSnapshot(st, g))
    BY <1>4, <1>25 DEF Objects
  <2>4. \A x \in Objects \ {o} : Holders(s2, x)' = Holders(st, x)
    BY <1>9, <2>1, <2>2, <2>3 DEF Holders
  <2>5. CASE o = db
    <3>1. \A g \in Handles : HoldsDb(s2, g)' <=> (HoldsDb(st, g) /\ g # h)
      BY <1>25, <2>5 DEF Handles, Objects
    <3>   QED BY <1>8, <2>1, <2>4, <2>5, <3>1 DEF Holders
  <2>6. CASE o # db
    <3>1. \A g \in Iterators : HoldsSnapshot(s2, g)' <=> (HoldsSnapshot(st, g) /\ g # h)
      BY <1>25, <2>6 DEF Objects
    <3>   QED BY <1>8, <1>9, <2>1, <2>4, <2>6, <3>1 DEF Holders
  <2>   QED BY <2>5, <2>6
<1>27. \A u \in Threads \ {t} : UsesAt(st[u])'
  BY <1>1, <1>9 DEF UsesInv, UsesAt, Open_
<1>28. todo' = [todo EXCEPT ![t] = Steps(d2)] BY <1>19, <1>20
<1>   QED BY <1>9, <1>11, <1>15, <1>17, <1>18, <1>21, <1>23, <1>26, <1>27, <1>28,
         DropKeepsInv DEF c1, s2

----------------------------------------------------------------------------
(* The invariant, and what follows from it.                                *)

LEMMA InitEstablishesInv == ObjectsInit => RefInv
<1>   USE NativeObjectAssumption
<1>   SUFFICES ASSUME ObjectsInit PROVE RefInv OBVIOUS
<1>   DEFINE idle == At_("idle", db, db)
<1>1. PICK st \in [Threads -> {idle}] : TRUE
  <2>1. [t \in Threads |-> idle] \in [Threads -> {idle}] OBVIOUS
  <2>   QED BY <2>1
<1>2. idle \in Stage BY DEF At_, Stage, Objects
<1>3. st \in [Threads -> Stage] /\ \A t \in Threads : st[t] = idle BY <1>1, <1>2
<1>4. /\ Mine(idle) = {} /\ Making(idle) = {} /\ Closing(idle) = {} /\ Steps(idle) = <<>>
      /\ UsesAt(idle) /\ GotDb(idle) = {} /\ GotSnapshot(idle) = {}
  BY DEF Mine, Making, Closing, Steps, UsesAt, GotDb, GotSnapshot, At_
<1>   HIDE DEF idle
<1>5. TypesInv BY DEF ObjectsInit, TypesInv
<1>6. StagesInv(st) BY <1>3, <1>4 DEF StagesInv, ObjectsInit
<1>7. CountsInv(st)
  <2>1. \A o \in Objects : Holders(st, o) = IF o = db THEN {db} ELSE {}
    BY <1>3, <1>4 DEF Holders, HoldsDb, HoldsSnapshot, Owns, ObjectsInit
  <2>2. \A o \in Objects : mRefCount[o] = IF o = db THEN 1 ELSE 0 BY DEF ObjectsInit
  <2>3. IsFiniteSet({}) /\ Cardinality({}) = 0 BY FS_EmptySet
  <2>4. IsFiniteSet({db}) /\ Cardinality({db}) = 1 BY FS_Singleton
  <2>   QED BY <2>1, <2>2, <2>3, <2>4 DEF CountsInv
<1>8. LifeInv(st) BY <1>3, <1>4 DEF LifeInv, ObjectsInit
<1>9. UsesInv(st) BY <1>3, <1>4 DEF UsesInv
<1>   QED BY <1>3, <1>5, <1>6, <1>7, <1>8, <1>9 DEF RefInv, RefInvOf

LEMMA NextKeepsInv == RefInv /\ [ObjectsNext]_objectsVars => RefInv'
<1>   SUFFICES ASSUME RefInv, [ObjectsNext]_objectsVars PROVE RefInv' OBVIOUS
<1>1. PICK st : RefInvOf(st) BY DEF RefInv
<1>2. CASE UNCHANGED objectsVars BY <1>1, <1>2, StutterKeepsInv
<1>3. ASSUME NEW t \in Threads, Begin(t) PROVE RefInv'
  <2>0. db \in Objects /\ Batches \subseteq Objects BY DEF Objects
  <2>1. CASE Open(t) BY <1>1, <2>1, OpenKeepsInv
  <2>2. CASE \E b \in Batches : NewBatch(t, b) BY <1>1, <2>2, OpenKeepsInv
  <2>3. CASE \E o \in Objects : Call(t, o) \/ CallWith(t, o) BY <1>1, <2>3, CallKeepsInv
  <2>4. CASE \E h \in Iterators, s \in Snapshots \cup {None} : GetIterator(t, h, s)
    BY <1>1, <2>4, MakeKeepsInv DEF Handles
  <2>5. CASE \E s \in Snapshots : GetSnapshot(t, s)
    BY <1>1, <2>5, MakeKeepsInv DEF Handles
  <2>6. CASE \E o \in Objects : Close(t, o) BY <1>1, <2>6, CloseKeepsInv
  <2>7. CASE Destroy(t) BY <1>1, <2>0, <2>7, CallKeepsInv
  <2>   QED BY <1>3, <2>1, <2>2, <2>3, <2>4, <2>5, <2>6, <2>7 DEF Begin
<1>4. ASSUME NEW t \in Threads, Step(t) PROVE RefInv'
  <2>0. db \in Objects /\ Iterators \subseteq Objects /\ Batches \subseteq Objects
    BY DEF Objects
  <2>1. CASE \E o \in Objects : StepRef(t, o) BY <1>1, <2>1, RefKeepsInv
  <2>2. CASE \E o \in Objects : StepUnref(t, o) BY <1>1, <2>2, UnrefKeepsInv
  <2>3. CASE \E o \in Objects : StepCreate(t, o) BY <1>1, <2>3, CreateKeepsInv
  <2>4. CASE \E o \in Objects : StepClear(t, o) BY <1>1, <2>4, ClearKeepsInv
  <2>5. CASE \/ \E o \in Objects : StepCall(t, o) \/ StepFree(t, o) \/ StepRelease(t, o)
             \/ \E h \in Iterators : StepIterator(t, h)
             \/ \E b \in Batches : StepBatch(t, b)
             \/ StepDelete(t) \/ StepDestroy(t)
    BY <1>1, <2>0, <2>5, ReturnKeepsInv
  <2>   QED BY <1>4, <2>1, <2>2, <2>3, <2>4, <2>5 DEF Step
<1>   QED BY <1>2, <1>3, <1>4 DEF ObjectsNext

\* Whatever the threads do, the count of every wrapper is the number of its holders, and
\* each thread is at one of the stages.
THEOREM ReferencesAreCounted == ObjectsSpec => []RefInv
<1>   QED BY InitEstablishesInv, NextKeepsInv, PTL DEF ObjectsSpec

\* A wrapper that holds a reference to another keeps that one open, and its native object
\* until its closing has begun.
LEMMA HeldIsNative ==
  ASSUME NEW st, RefInvOf(st), NEW o \in Objects, mRefCount[o] # 0, o \in wrappers
  PROVE  o \in native /\ o \in mPtr
<1>1. TypesInv /\ CountsInv(st) /\ LifeInv(st) BY DEF RefInvOf
<1>2. o \in mPtr BY <1>1 DEF LifeInv
<1>3. \A t \in Threads : o \notin Closing(st[t]) BY <1>1 DEF LifeInv
<1>   QED BY <1>1, <1>2, <1>3 DEF LifeInv

LEMMA HoldsDbIsNative ==
  ASSUME NEW st, RefInvOf(st), NEW h \in Handles, HoldsDb(st, h)
  PROVE  db \in native /\ mRefCount[db] # 0
<1>1. TypesInv /\ CountsInv(st) BY DEF RefInvOf
<1>2. db \in Objects /\ h \in Holders(st, db) BY DEF Objects, Holders
<1>3. mRefCount[db] # 0 BY <1>1, <1>2, Held DEF TypesInv
<1>4. h \in wrappers BY HoldsIsMade
<1>5. db \in wrappers BY <1>1, <1>4 DEF TypesInv
<1>   QED BY <1>2, <1>3, <1>5, HeldIsNative

LEMMA HoldsSnapshotIsNative ==
  ASSUME NEW st, RefInvOf(st), NEW h \in Iterators, HoldsSnapshot(st, h), source[h] # None
  PROVE  source[h] \in native /\ mRefCount[source[h]] # 0
<1>1. TypesInv /\ CountsInv(st) BY DEF RefInvOf
<1>2. source[h] \in Snapshots BY <1>1 DEF TypesInv
<1>3. source[h] \in Objects /\ h \in Holders(st, source[h]) BY <1>2 DEF Objects, Holders
<1>4. mRefCount[source[h]] # 0 BY <1>1, <1>3, Held DEF TypesInv
<1>5. h \in wrappers BY HoldsIsMade
<1>6. source[h] \in wrappers BY <1>1, <1>5 DEF TypesInv
<1>   QED BY <1>3, <1>4, <1>6, HeldIsNative

\* A native iterator or snapshot still holds what it was made from.
LEMMA NativeHolds ==
  ASSUME NEW st, RefInvOf(st), NEW h \in Handles, h \in native
  PROVE  HoldsDb(st, h) /\ (h \in Iterators => HoldsSnapshot(st, h))
<1>   USE NativeObjectAssumption
<1>1. TypesInv /\ StagesInv(st) /\ LifeInv(st) BY DEF RefInvOf
<1>2. h \in mPtr BY <1>1 DEF TypesInv
<1>3. ASSUME NEW t \in Threads, h \in Closing(st[t])
      PROVE  h \in KeepsDb(st[t]) /\ (h \in Iterators => h \in KeepsSnapshot(st[t]))
  <2>1. h \in ToFree(st[t]) BY <1>1, <1>2, <1>3 DEF LifeInv
  <2>2. st[t] \in Stage BY <1>1 DEF StagesInv
  <2>   QED BY <2>1, <2>2 DEF ToFree, KeepsDb, KeepsSnapshot, Handles, Stage
<1>   QED BY <1>2, <1>3 DEF HoldsDb, HoldsSnapshot

\* In whatever order and by whichever threads the wrappers are closed, the native DB
\* outlives every native iterator and snapshot.
THEOREM ChildrenDie == ObjectsSpec => []ChildrenDieFirst
<1>1. RefInv => ChildrenDieFirst
  BY NativeHolds, HoldsDbIsNative DEF RefInv, ChildrenDieFirst, Handles
<1>   QED BY <1>1, ReferencesAreCounted, PTL

\* What is open and not being closed is native.
LEMMA OpenIsNative ==
  ASSUME NEW st, RefInvOf(st), NEW o \in Objects, Open_(o)
  PROVE  o \in native /\ (o \in Handles => db \in native)
<1>1. TypesInv /\ StagesInv(st) /\ LifeInv(st) BY DEF RefInvOf
<1>2. o \in mPtr /\ \A t \in Threads : o \notin Closing(st[t]) BY <1>1 DEF LifeInv, Open_
<1>3. o \in native BY <1>1, <1>2 DEF LifeInv
<1>   QED BY <1>3, NativeHolds, HoldsDbIsNative

\* What a thread has still to release is native.
LEMMA ToFreeIsNative ==
  ASSUME NEW st, RefInvOf(st), NEW t \in Threads, NEW o \in ToFree(st[t])
  PROVE  o \in native /\ (o \in Handles => db \in native)
<1>1. TypesInv /\ StagesInv(st) /\ LifeInv(st) BY DEF RefInvOf
<1>2. st \in [Threads -> Stage] /\ st[t] \in Stage BY <1>1 DEF StagesInv
<1>3. o \in Closing(st[t]) /\ o \in Mine(st[t]) /\ o \in Objects
  BY <1>2, Roles DEF Mine
<1>4. o \in mPtr BY <1>1, <1>3 DEF LifeInv
<1>5. \A u \in Threads : o \in Closing(st[u]) => u = t
  BY <1>1, <1>3 DEF LifeInv, Mine
<1>6. o \in native BY <1>1, <1>4, <1>5 DEF LifeInv
<1>   QED BY <1>6, NativeHolds, HoldsDbIsNative

\* Every native method finds its object, the snapshot or batch that it is handed, and the
\* DB; an iterator is made from, and reads, a snapshot that has not been released.
THEOREM CallsFind == ObjectsSpec => []CallsFindTheirObject
<1>   USE NativeObjectAssumption
<1>1. RefInv => CallsFindTheirObject
  <2>   SUFFICES ASSUME NEW st, RefInvOf(st) PROVE CallsFindTheirObject
    BY DEF RefInv
  <2>1. TypesInv /\ StagesInv(st) /\ UsesInv(st) BY DEF RefInvOf
  <2>2. ASSUME NEW t \in Threads, NEW o \in Objects, NEW step, At(t, step, o)
        PROVE  st[t] \in Stage /\ st[t].pc # "idle" /\ First(st[t]) = <<step, o>> /\ UsesAt(st[t])
    BY <2>1, <2>2, Reached DEF At, UsesInv
  <2>3. ASSUME NEW t \in Threads, NEW o \in Objects, At(t, "call", o)
        PROVE  o \in native /\ (o \in Batches \/ db \in native)
    <3>1. Open_(o) BY <2>2, <2>3, FirstIs DEF UsesAt
    <3>   QED BY <3>1, OpenIsNative DEF Objects, Handles
  <2>4. ASSUME NEW t \in Threads, NEW o \in Objects,
               At(t, "free", o) \/ At(t, "delete", o) \/ At(t, "release", o)
        PROVE  o \in native /\ (o \in Batches \/ db \in native)
    <3>1. st[t].pc \in {"free", "freeBatch", "delete", "release"} /\ st[t].o = o
      BY <2>2, <2>4, FirstIs
    <3>2. o \in ToFree(st[t]) BY <3>1 DEF ToFree
    <3>   QED BY <3>2, ToFreeIsNative DEF Objects, Handles
  <2>5. ASSUME NEW t \in Threads, NEW o \in Objects, At(t, "with", o)
        PROVE  {o, db} \subseteq native
    <3>1. Open_(o) /\ Open_(db) BY <2>2, <2>5, FirstIs DEF UsesAt
    <3>   QED BY <3>1, OpenIsNative, db \in Objects DEF Objects
  <2>6. ASSUME NEW t \in Threads, NEW o \in Objects, At(t, "snapshot", o)
        PROVE  db \in native
    <3>1. st[t].pc = "snapshot" /\ st[t].o = o /\ st[t] \in Stage BY <2>2, <2>6, FirstIs
    <3>2. o \in GotDb(st[t]) /\ o \in Handles BY <3>1 DEF GotDb, Stage, Handles
    <3>   QED BY <3>2, HoldsDbIsNative DEF HoldsDb
  <2>7. ASSUME NEW h \in Iterators, h \in native \/ \E t \in Threads : At(t, "iterator", h)
        PROVE  {db} \cup ({source[h]} \ {None}) \subseteq native
    <3>1. h \in Handles /\ h \in Objects BY DEF Handles, Objects
    <3>2. HoldsDb(st, h) /\ HoldsSnapshot(st, h)
      <4>1. CASE h \in native BY <3>1, <4>1, NativeHolds
      <4>2. ASSUME NEW t \in Threads, At(t, "iterator", h)
            PROVE  HoldsDb(st, h) /\ HoldsSnapshot(st, h)
        <5>1. st[t].pc = "iterator" /\ st[t].o = h BY <2>2, <3>1, <4>2, FirstIs
        <5>   QED BY <5>1 DEF HoldsDb, HoldsSnapshot, GotDb, GotSnapshot
      <4>   QED BY <2>7, <4>1, <4>2
    <3>3. db \in native BY <3>1, <3>2, HoldsDbIsNative
    <3>4. source[h] # None => source[h] \in native BY <3>2, HoldsSnapshotIsNative
    <3>   QED BY <3>3, <3>4
  <2>   QED BY <2>3, <2>4, <2>5, <2>6, <2>7 DEF CallsFindTheirObject
<1>   QED BY <1>1, ReferencesAreCounted, PTL

\* unref() never throws, and when all wrappers have been closed and nobody is in a call
\* nothing native is left.
THEOREM NothingLeaks == ObjectsSpec => []AllReleased
<1>   USE NativeObjectAssumption
<1>1. RefInv => AllReleased
  <2>   SUFFICES ASSUME NEW st, RefInvOf(st) PROVE AllReleased
    BY DEF RefInv
  <2>1. TypesInv /\ StagesInv(st) /\ CountsInv(st) /\ LifeInv(st) /\ UsesInv(st) BY DEF RefInvOf
  <2>2. ASSUME NEW t \in Threads, NEW o \in Objects, At(t, "unref", o)
        PROVE  mRefCount[o] > 0
    <3>   DEFINE c == st[t]
                 h == c.o
    <3>1. c \in Stage /\ c.pc # "idle" /\ First(c) = <<"unref", o>> /\ UsesAt(c)
      BY <2>1, <2>2, Reached DEF At, UsesInv
    <3>2. \/ c.pc \in {"unrefBySnapshot", "unrefByIterator"} /\ o = db
          \/ c.pc = "unrefSnapshot" /\ o = source[h]
      BY <3>1, FirstIs
    <3>3. h \in Closing(c) /\ h \in Handles /\ h \in Objects
          /\ (c.pc = "unrefSnapshot" => h \in Iterators)
          /\ (c.pc # "unrefSnapshot" => h \in KeepsDb(c))
          /\ (c.pc = "unrefSnapshot" => h \in KeepsSnapshot(c))
      BY <3>1, <3>2 DEF Stage, Closing, KeepsDb, KeepsSnapshot, Handles, Objects
    <3>4. h \in mPtr BY <2>1, <3>3 DEF LifeInv
    <3>5. \A u \in Threads : h \in Closing(st[u]) => u = t
      BY <2>1, <3>3 DEF LifeInv, Mine
    <3>6. c.pc # "unrefSnapshot" => HoldsDb(st, h) BY <3>3, <3>4, <3>5 DEF HoldsDb
    <3>7. c.pc = "unrefSnapshot" => HoldsSnapshot(st, h) /\ source[h] # None
      BY <3>1, <3>3, <3>4, <3>5 DEF HoldsSnapshot, UsesAt
    <3>8. mRefCount[o] # 0 BY <3>2, <3>3, <3>6, <3>7, HoldsDbIsNative, HoldsSnapshotIsNative
    <3>   QED BY <2>1, <3>8 DEF TypesInv
  <2>3. ASSUME \A t \in Threads : Idle(t), closing = wrappers
        PROVE  native = {}
    <3>1. \A t \in Threads : st[t].pc = "idle" BY <2>1, <2>3, Reached
    <3>2. \A t \in Threads : Closing(st[t]) = {} /\ GotDb(st[t]) = {} /\ GotSnapshot(st[t]) = {}
      BY <3>1 DEF Closing, GotDb, GotSnapshot
    <3>3. ASSUME NEW o \in mPtr PROVE Holders(st, o) # {} /\ ~Owns(o) /\ o \in Objects
      <4>1. o \in Objects /\ o \in closing BY <2>1, <2>3 DEF TypesInv
      <4>2. mRefCount[o] # 0 BY <2>1, <3>2 DEF LifeInv
      <4>   QED BY <2>1, <4>1, <4>2, Held DEF TypesInv, Owns
    <3>4. \A h : (HoldsDb(st, h) \/ HoldsSnapshot(st, h)) => h \in mPtr
      BY <3>2 DEF HoldsDb, HoldsSnapshot
    <3>5. mPtr \cap Iterators = {} BY <3>3 DEF Holders
    <3>6. mPtr \cap Snapshots = {} BY <3>3, <3>4, <3>5 DEF Holders
    <3>7. mPtr = {} BY <3>3, <3>4, <3>5, <3>6 DEF Holders, Handles
    <3>   QED BY <2>1, <3>7 DEF TypesInv
  <2>   QED BY <2>2, <2>3 DEF AllReleased
<1>   QED BY <1>1, ReferencesAreCounted, PTL

\* destroy() never deletes the files of a DB that is open.
THEOREM FilesStay == ObjectsSpec => []FilesOutliveDb
<1>1. RefInv => FilesOutliveDb BY DEF RefInv, RefInvOf, TypesInv, FilesOutliveDb
<1>   QED BY <1>1, ReferencesAreCounted, PTL
=============================================================================
