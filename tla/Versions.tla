------------------------------ MODULE Versions ------------------------------
(* The pure part of db/version_set.cc: how the files of a version are      *)
(* searched for a key, which level a new table goes to, which level is to  *)
(* be compacted next, with which files, and which entries the compaction   *)
(* may drop or must not put into one file.                                 *)
(*                                                                         *)
(* Everything is stated over T, the entries of each table by file number.  *)
(* A level is a set of numbers; FileMetaData's smallest, largest and size  *)
(* are those of the entries (one entry is one unit of size).               *)
EXTENDS Naturals, Sequences, FiniteSets, FiniteSetsExt, SequencesExt

CONSTANTS
    MaxKey,            \* the user keys are 1..MaxKey
    NumLevels, MaxMemCompactLevel, L0Trigger,      \* of namespace config
    MaxFileSize,       \* TargetFileSize(), in entries
    GrandParentLimit,  \* MaxGrandParentOverlapBytes()
    ExpandedLimit,     \* ExpandedCompactionByteSizeLimit()
    BaseBytes,         \* MaxBytesForLevel() of levels 0 and 1
    Growth             \* and the factor from a level to the next

ASSUME VersionsAssumption ==
    /\ {MaxKey, L0Trigger, MaxFileSize, BaseBytes, Growth} \subseteq Nat \ {0}
    /\ {NumLevels, MaxMemCompactLevel, GrandParentLimit, ExpandedLimit} \subseteq Nat
    /\ NumLevels >= 2 /\ MaxMemCompactLevel < NumLevels

Keys   == 1..MaxKey
Levels == 0..NumLevels - 1
Entry  == [k : Keys, s : Nat \ {0}, del : BOOLEAN]

\* InternalKeyComparator: user keys ascending, sequence numbers descending
Before(a, b) == a.k < b.k \/ (a.k = b.k /\ a.s > b.s)

FirstKey(E)    == CHOOSE e \in E : \A x \in E \ {e} : Before(e, x)
LastKey(E)     == CHOOSE e \in E : \A x \in E \ {e} : Before(x, e)
Smallest(T, f) == FirstKey(T[f])
Largest(T, f)  == LastKey(T[f])
Entries(T, F)  == UNION {T[f] : f \in F}
TotalFileSize(T, F) == MapThenSumSet(LAMBDA f : Cardinality(T[f]), F)

\* The first of a set in some order, as a set
FirstOf(S, Earlier(_, _)) == {x \in S : \A y \in S \ {x} : Earlier(x, y)}

\* The order of the files of a level: BySmallestKey of the Builder
StartsBefore(T, f, g) ==
    Before(Smallest(T, f), Smallest(T, g)) \/ (Smallest(T, f) = Smallest(T, g) /\ f < g)
Rank(T, F, f) == Cardinality({g \in F : StartsBefore(T, g, f)})

\* the files in that order, each at the place that its rank gives
BySmallestKey(T, F) ==
    [i \in 1..Cardinality(F) |-> CHOOSE f \in F : Rank(T, F, f) + 1 = i]

\* Binary search for the first file whose largest key is not before key
FindFile(T, F, key) ==
    FirstOf({f \in F : ~Before(Largest(T, f), key)}, LAMBDA f, g : StartsBefore(T, f, g))

\* AfterFile and BeforeFile: does f overlap the user keys lo..hi?  The NULL of
\* an open end is 0 or MaxKey + 1.
Overlaps(T, f, lo, hi) == Smallest(T, f).k <= hi /\ lo <= Largest(T, f).k

OverlapInLevel(T, F, lo, hi) == \E f \in F : Overlaps(T, f, lo, hi)

\* In level 0 the range grows with each file that sticks out of it: the inputs
\* are the least set that has what overlaps the range or one of its files.
GetOverlappingInputs(T, v, level, lo, hi) ==
    LET F      == v[level]
        direct == {f \in F : Overlaps(T, f, lo, hi)}
        grows(S) == \A f \in F, g \in S :
                       Overlaps(T, f, Smallest(T, g).k, Largest(T, g).k) => f \in S
    IN  IF level = 0 THEN {f \in F : \A S \in SUBSET F : direct \subseteq S /\ grows(S) => f \in S}
        ELSE direct

\* A memtable that overlaps nothing may go below level 0.
PickLevelForMemTableOutput(T, v, lo, hi) ==
    Max({l \in 0..MaxMemCompactLevel :
            \A j \in 0..l - 1 :
               /\ ~OverlapInLevel(T, v[0], lo, hi) /\ ~OverlapInLevel(T, v[j + 1], lo, hi)
               /\ j + 2 < NumLevels =>
                    TotalFileSize(T, GetOverlappingInputs(T, v, j + 2, lo, hi))
                        <= GrandParentLimit})

----------------------------------------------------------------------------
(* Version::Get() and Version::RecordReadSample()                          *)

\* The file below level 0 that may hold key
FileAt(T, F, key, s) == {f \in FindFile(T, F, [k |-> key, s |-> s]) : Smallest(T, f).k <= key}

\* The files that a search for key as of sequence number s looks at: those of
\* level 0 that overlap it, and at most one of each other level
ForEachOverlapping(T, v, key, s) ==
    {[level |-> 0, file |-> f] : f \in {x \in v[0] : Overlaps(T, x, key, key)}}
    \cup UNION {{[level |-> l, file |-> f] : f \in FileAt(T, v[l], key, s)} : l \in 1..NumLevels - 1}

\* and in which order: level by level, in level 0 from the newest file on
LookedAtBefore(a, b) == a.level < b.level \/ (a.level = b.level /\ a.file > b.file)

\* What a table, or a memtable, holds of key as of s: its newest entry, if any
Newest(E, key, s) ==
    LET seen == {e \in E : e.k = key /\ e.s <= s}
    IN  {e \in seen : \A x \in seen : x.s <= e.s}

\* SaveValue() and the switch of Get(): a deletion is an answer, "not found".
Answer(E) == {e \in E : ~e.del}

\* The first file that holds something of key answers; the first file of all
\* is charged with the seek if it was not enough.
VersionGet(T, v, key, s) ==
    LET files == ForEachOverlapping(T, v, key, s)
        first == FirstOf(files, LookedAtBefore)
        hit   == FirstOf({x \in files : Newest(T[x.file], key, s) # {}}, LookedAtBefore)
    IN  [value |-> UNION {Answer(Newest(T[x.file], key, s)) : x \in hit},
         seek  |-> IF hit # first /\ Cardinality(files) > 1 THEN first ELSE {}]

\* an iterator that passes over an entry charges the first of two files
ReadSample(T, v, e) ==
    LET files == ForEachOverlapping(T, v, e.k, e.s)
    IN  IF Cardinality(files) > 1 THEN FirstOf(files, LookedAtBefore) ELSE {}

----------------------------------------------------------------------------
(* Finalize(), PickCompaction(), SetupOtherInputs(), CompactRange()        *)

MaxBytesForLevel[level \in Levels] ==
    IF level <= 1 THEN BaseBytes ELSE Growth * MaxBytesForLevel[level - 1]

\* compaction_score_ of a level, as a fraction
Score(T, v, level) ==
    IF level = 0 THEN <<Cardinality(v[0]), L0Trigger>>
    ELSE <<TotalFileSize(T, v[level]), MaxBytesForLevel[level]>>
Exceeds(p, q) == p[1] * q[2] > q[1] * p[2]

\* compaction_level_, if its compaction_score_ is 1 or more
Finalize(T, v) ==
    LET scores == [l \in 0..NumLevels - 2 |-> Score(T, v, l)]
        best   == {l \in DOMAIN scores : \A m \in DOMAIN scores \ {l} :
                      IF m < l THEN Exceeds(scores[l], scores[m]) ELSE ~Exceeds(scores[m], scores[l])}
    IN  {l \in best : scores[l][1] >= scores[l][2]}

\* GetOverlappingInputs() of the range of some files
Over(T, v, level, F) ==
    LET E == Entries(T, F) IN GetOverlappingInputs(T, v, level, FirstKey(E).k, LastKey(E).k)

\* The Compaction of these inputs, and the key compact_pointer_ moves to
Inputs(T, v, level, in0, in1) ==
    [level |-> level, in0 |-> in0, in1 |-> in1,
     grandparents |-> IF level + 2 < NumLevels THEN Over(T, v, level + 2, in0 \cup in1) ELSE {},
     pointer |-> LastKey(Entries(T, in0))]

\* It may take in more files of the level if that adds none of the next.
Grows(T, v, level, in0, in1, more0) ==
    /\ in1 # {} /\ Cardinality(more0) > Cardinality(in0)
    /\ TotalFileSize(T, in1) + TotalFileSize(T, more0) < ExpandedLimit
    /\ Cardinality(Over(T, v, level + 1, more0)) = Cardinality(in1)

ExpandInputs(T, v, level, in0, in1, more0) ==
    IF Grows(T, v, level, in0, in1, more0)
    THEN Inputs(T, v, level, more0, Over(T, v, level + 1, more0))
    ELSE Inputs(T, v, level, in0, in1)

SetupOtherInputs(T, v, level, in0) ==
    LET in1 == Over(T, v, level + 1, in0)
    IN  ExpandInputs(T, v, level, in0, in1, Over(T, v, level, in0 \cup in1))

\* The file that comes after compact_pointer_[level], or the first one
AfterPointer(T, F, pointer) ==
    LET after == {f \in F : \A p \in pointer : Before(p, Largest(T, f))}
    IN  FirstOf(IF after = {} THEN F ELSE after, LAMBDA f, g : StartsBefore(T, f, g))

\* A file of the level whose score is too high, or the one that has been
\* sought in vain too often (sought: file_to_compact_)
PickFile(T, v, pointer, sought) ==
    IF Finalize(T, v) # {}
    THEN UNION {{[level |-> l, file |-> f] : f \in AfterPointer(T, v[l], pointer[l])}
                  : l \in Finalize(T, v)}
    ELSE sought

PickCompaction(T, v, pick) ==
    SetupOtherInputs(T, v, pick.level,
        IF pick.level > 0 THEN {pick.file} ELSE Over(T, v, 0, {pick.file}))

\* The part of a manual compaction that is done at once: below level 0 the
\* files up to the one that reaches MaxFileSizeForLevel().
Prefix(T, F) ==
    {f \in F : TotalFileSize(T, {g \in F \ {f} : StartsBefore(T, g, f)}) < MaxFileSize}

ManualInputs(T, v, level, lo, hi) ==
    LET inputs == GetOverlappingInputs(T, v, level, lo, hi)
    IN  IF level = 0 THEN inputs ELSE Prefix(T, inputs)

IsTrivialMove(T, c) ==
    /\ Cardinality(c.in0) = 1 /\ c.in1 = {}
    /\ TotalFileSize(T, c.grandparents) <= GrandParentLimit

----------------------------------------------------------------------------
(* The cursors of a compaction, which only move forward with its keys      *)

\* The first place from p on, or the end, where a file does not end before key
Ahead(T, sorted, p, key) ==
    Min({i \in p..Len(sorted) : key <= Largest(T, sorted[i]).k} \cup {Len(sorted) + 1})

\* level_ptrs_ after they have been moved up to key, and what they say: no
\* file below level + 1 can hold the key.  The search ends at the first level
\* that can, so that later pointers stay where they were.
MovedPtrs(T, v, level, ptrs, key) ==
    [l \in Levels |-> IF l < level + 2 THEN ptrs[l]
                      ELSE Ahead(T, BySmallestKey(T, v[l]), ptrs[l], key)]

Holding(T, v, level, moved, key) ==
    {l \in level + 2..NumLevels - 1 :
        /\ moved[l] <= Cardinality(v[l])
        /\ Smallest(T, BySmallestKey(T, v[l])[moved[l]]).k <= key}

IsBaseLevelForKey(T, v, level, ptrs, key) ==
    LET moved   == MovedPtrs(T, v, level, ptrs, key)
        holding == Holding(T, v, level, moved, key)
    IN  [base |-> holding = {},
         ptrs |-> [l \in Levels |-> IF \A h \in holding : l <= h THEN moved[l] ELSE ptrs[l]]]

\* grandparent_index_ at entry e
GrandparentIndex(T, sorted, from, e) ==
    Min({i \in from..Len(sorted) : ~Before(Largest(T, sorted[i]), e)} \cup {Len(sorted) + 1})

\* overlapped_bytes_, which does not count what lies before the first key
ShouldStopBefore(T, sorted, c, e) ==
    LET index  == GrandparentIndex(T, sorted, c.gindex, e)
        passed == {sorted[i] : i \in c.gindex..index - 1}
        bytes  == c.overlapped + IF c.last # {} THEN TotalFileSize(T, passed) ELSE 0
    IN  [stop |-> bytes > GrandParentLimit, gindex |-> index,
         overlapped |-> IF bytes > GrandParentLimit THEN 0 ELSE bytes]
=============================================================================
