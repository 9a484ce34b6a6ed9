-------------------------- MODULE CompactionProofs --------------------------
(* Theorems about versions, files and the scheduling of compactions        *)
(* (Compaction), for any keys, limits, numbers of readers and writes.      *)
EXTENDS Compaction, TLAPS, FiniteSetTheorems, WellFoundedInduction

----------------------------------------------------------------------------
(* The invariants.                                                         *)

FileMaps == [Levels -> SUBSET Nat]

\* What is written is numbered, and is in memory and tables, none of which is empty.
Written == {hist[i] : i \in 1..Len(hist)}

Holds(E) == E # {} /\ E \subseteq Written

EntriesInv ==
    /\ hist \in Seq(Entry) /\ \A i \in 1..Len(hist) : hist[i].s = i
    /\ mem \subseteq Written /\ imm \subseteq Written
    /\ disk \subseteq DOMAIN tables /\ \A f \in DOMAIN tables : Holds(tables[f])

\* Where the background thread is.
BgStates ==
    [pc : {"idle", "queued", "merge"}]
    \cup [pc : {"build"}, number : Nat, base : Nat]
    \cup [pc : {"flushlog", "mergelog"}, files : FileMaps]
    \cup [pc : {"movelog"}, base : Nat, files : FileMaps]

JobFields == {"level", "in0", "in1", "manual", "version", "rest", "outputs", "builder"}

BgInv ==
    /\ bg \in BgStates /\ next \in Nat \ {0}
    /\ bg.pc \in {"idle", "queued", "movelog"} => job = NoJob
    /\ bg.pc \in {"merge", "mergelog"} => job # NoJob
    /\ bg.pc \in {"build", "flushlog"} => imm # {}
    /\ bg.pc = "build" => bg.number < next
    /\ job # NoJob =>
          /\ JobFields \subseteq DOMAIN job
          /\ job.outputs \subseteq pending \cap disk
          /\ \A n \in job.outputs : n \in Nat /\ n < next
          /\ bg.pc = "build" => bg.number \notin job.outputs
          /\ job.builder \in job.outputs \cup {0}
          /\ job.rest \subseteq Written

CallInv ==
    /\ manual => call.pc = "range"
    /\ call # NoCall =>
          /\ {"pc", "level", "lo", "from", "hi", "done", "max"} \subseteq DOMAIN call
          /\ call.level \in 0..NumLevels - 2 /\ call.max \in 0..NumLevels - 1

\* Who holds a version
Active        == {r \in Readers : readers[r] # NoReader}
ReadersOf(id) == {r \in Active : readers[r].version = id}
BgHolds(id)   == "base" \in DOMAIN bg /\ bg.base = id
JobHolds(id)  == job # NoJob /\ job.version = id
One(b)        == IF b THEN 1 ELSE 0
HoldersOf(id) == Cardinality(ReadersOf(id)) + One(current = id) + One(BgHolds(id))
                 + One(JobHolds(id))

Counts        == [id \in Nat |-> HoldersOf(id)]

HolderRange ==
    /\ current \in Nat \ {0} /\ DOMAIN readers = Readers /\ IsFiniteSet(Active)
    /\ \A r \in Active : readers[r].version \in 1..current
    /\ "base" \in DOMAIN bg => bg.base \in 1..current
    /\ job # NoJob => job.version \in 1..current

\* The versions in the list are those that are held, as often as refs_ says.
VersionFields == {"files", "refs", "seek"}
Counted(vs, c) ==
    /\ DOMAIN vs = {id \in Nat : c[id] > 0}
    /\ \A id \in DOMAIN vs : DOMAIN vs[id] = VersionFields /\ vs[id].refs = c[id]

RefsInv == HolderRange /\ Counted(versions, Counts)

\* The files of a version, and the file to be compacted next, with its level
PicksOf(v) == {x \in [level : 0..NumLevels - 2, file : Nat] : x.file \in v[x.level]}

FilesInv ==
    /\ \A id \in DOMAIN versions :
          /\ versions[id].files \in FileMaps
          /\ AllFiles(Files(id)) \subseteq disk
          /\ versions[id].seek \subseteq PicksOf(Files(id))
    /\ "files" \in DOMAIN bg => AllFiles(bg.files) \subseteq disk
    /\ job # NoJob => job.in0 \cup job.in1 \subseteq AllFiles(Files(job.version))

CompactionInv == EntriesInv /\ BgInv /\ CallInv /\ RefsInv /\ FilesInv

----------------------------------------------------------------------------
(* Keys and tables.                                                        *)

\* Every set of naturals that is not empty has a least and, if bounded, a
\* greatest member.
LEMMA LeastMember ==
    ASSUME NEW T \in SUBSET Nat, T # {}
    PROVE  \E x \in T : \A y \in T : x <= y
<1>1. PICK x \in T : \A y \in T : ~(<<y, x>> \in OpToRel(<, Nat))
  BY NatLessThanWellFounded, WFMin
<1>2. OpToRel(<, Nat) = {ss \in Nat \X Nat : ss[1] < ss[2]}
  BY Zenon DEF OpToRel
<1>3. ASSUME NEW y \in T
      PROVE  x <= y
  <2>1. ~(<<y, x>> \in {ss \in Nat \X Nat : ss[1] < ss[2]})
    BY <1>1, <1>2, Zenon
  <2> QED BY <2>1
<1> QED BY <1>3

LEMMA GreatestMember ==
    ASSUME NEW T \in SUBSET Nat, T # {}, NEW b \in Nat, \A y \in T : y <= b
    PROVE  \E x \in T : \A y \in T : x >= y
<1> DEFINE U == {b - y : y \in T}
<1>1. \A y \in T : b - y \in Nat
  OBVIOUS
<1>2. U \in SUBSET Nat /\ U # {}
  BY <1>1
<1>3. PICK u \in U : \A w \in U : u <= w
  BY <1>2, LeastMember
<1>4. PICK x \in T : u = b - x
  BY <1>3
<1>5. ASSUME NEW y \in T PROVE x >= y
  BY <1>3, <1>4, b - y \in U
<1> QED BY <1>4, <1>5

\* Entries that are written are ordered by Before, as their numbers differ.
LEMMA WrittenOrdered ==
    ASSUME EntriesInv
    PROVE  /\ \A e \in Written : e.k \in Nat /\ e.s \in Nat /\ e.s <= Len(hist)
           /\ \A a, b \in Written : a.s = b.s => a = b
<1>1. Len(hist) \in Nat /\ \A i \in 1..Len(hist) : hist[i] \in Entry
  BY DEF EntriesInv
<1>2. \A e \in Written : \E i \in 1..Len(hist) : e = hist[i] /\ e.s = i
  BY DEF EntriesInv, Written
<1>3. \A e \in Entry : e.k \in Nat /\ e.s \in Nat
  BY VersionsAssumption DEF Entry, Keys
<1> QED BY <1>1, <1>2, <1>3

\* A table has a first key.
LEMMA FirstKeyIn ==
    ASSUME EntriesInv, NEW E, Holds(E)
    PROVE  FirstKey(E) \in E
<1> USE WrittenOrdered
<1>1. E \subseteq Written /\ E # {}
  BY DEF Holds
<1> DEFINE K == {e.k : e \in E}
<1>2. K \in SUBSET Nat /\ K # {}
  BY <1>1
<1>3. PICK k \in K : \A j \in K : k <= j
  BY <1>2, LeastMember
<1> DEFINE S == {e.s : e \in {x \in E : x.k = k}}
<1>4. S \in SUBSET Nat /\ S # {} /\ \A y \in S : y <= Len(hist)
  BY <1>1, <1>3
<1>5. Len(hist) \in Nat
  BY DEF EntriesInv
<1>6. PICK s \in S : \A j \in S : s >= j
  BY <1>4, <1>5, GreatestMember
<1>7. PICK e \in E : e.k = k /\ e.s = s
  BY <1>6
<1>8. ASSUME NEW x \in E \ {e} PROVE Before(e, x)
  <2>1. x.k \in K /\ k <= x.k /\ x.k \in Nat /\ k \in Nat
    BY <1>1, <1>3, <1>2
  <2>2. CASE x.k = k
    <3>1. x.s \in S /\ x.s <= s
      BY <2>2, <1>6
    <3>2. x.s # s
      BY <1>1, <1>7
    <3> QED BY <3>1, <3>2, <2>2, <1>7, <1>1, <1>4 DEF Before
  <2>3. CASE x.k # k
    BY <2>1, <2>3, <1>7 DEF Before
  <2> QED BY <2>2, <2>3
<1> QED BY <1>8 DEF FirstKey

\* The order of files in a level is strict.
LEMMA StartsBeforeStrict ==
    ASSUME EntriesInv, NEW f \in DOMAIN tables, NEW g \in DOMAIN tables,
           f \in Nat, g \in Nat,
           StartsBefore(tables, f, g)
    PROVE  ~StartsBefore(tables, g, f)
<1>1. Smallest(tables, f) \in Written /\ Smallest(tables, g) \in Written
  BY FirstKeyIn DEF EntriesInv, Holds, Smallest
<1>2. /\ Smallest(tables, f).k \in Nat /\ Smallest(tables, f).s \in Nat
      /\ Smallest(tables, g).k \in Nat /\ Smallest(tables, g).s \in Nat
  BY <1>1, WrittenOrdered
<1> QED BY <1>2 DEF StartsBefore, Before

----------------------------------------------------------------------------
(* What version_set.cc picks are files of the version.                     *)

LEMMA OverlappingAreFiles ==
    ASSUME NEW T, NEW v, NEW level, NEW lo, NEW hi
    PROVE  GetOverlappingInputs(T, v, level, lo, hi) \subseteq v[level]
BY Zenon DEF GetOverlappingInputs

LEMMA OverAreFiles ==
    ASSUME NEW T, NEW v, NEW level, NEW F
    PROVE  Over(T, v, level, F) \subseteq v[level]
BY OverlappingAreFiles DEF Over

\* The inputs of a compaction are files of its level and of the next.
LEMMA InputsAreFiles ==
    ASSUME NEW T, NEW v \in FileMaps, NEW level \in 0..NumLevels - 2,
           NEW in0 \in SUBSET v[level]
    PROVE  LET c == SetupOtherInputs(T, v, level, in0)
           IN  /\ DOMAIN c = {"level", "in0", "in1", "grandparents", "pointer"}
               /\ c.level = level
               /\ c.in0 \cup c.in1 \subseteq AllFiles(v)
<1>1. level \in Levels /\ level + 1 \in Levels
  BY VersionsAssumption DEF Levels
<1>2. \A l \in Levels : v[l] \subseteq AllFiles(v)
  BY DEF AllFiles
<1>3. ASSUME NEW F \in SUBSET v[level], NEW G \in SUBSET v[level + 1]
      PROVE  LET c == Inputs(T, v, level, F, G)
             IN  /\ DOMAIN c = {"level", "in0", "in1", "grandparents", "pointer"}
                 /\ c.level = level
                 /\ c.in0 \cup c.in1 \subseteq AllFiles(v)
  BY <1>1, <1>2, <1>3 DEF Inputs
<1> DEFINE in1 == Over(T, v, level + 1, in0)
           more0 == Over(T, v, level, in0 \cup in1)
           more1 == Over(T, v, level + 1, more0)
<1>4. in1 \subseteq v[level + 1] /\ more0 \subseteq v[level] /\ more1 \subseteq v[level + 1]
  BY OverAreFiles
<1>5. \/ SetupOtherInputs(T, v, level, in0) = Inputs(T, v, level, in0, in1)
      \/ SetupOtherInputs(T, v, level, in0) = Inputs(T, v, level, more0, more1)
  BY DEF SetupOtherInputs, ExpandInputs
<1> HIDE DEF in1, more0, more1
<1> QED BY <1>3, <1>4, <1>5

LEMMA PicksAreFiles ==
    ASSUME NEW T, NEW v \in FileMaps, NEW ptr, NEW sought \in SUBSET PicksOf(v)
    PROVE  PickFile(T, v, ptr, sought) \subseteq PicksOf(v)
<1>1. Finalize(T, v) \subseteq 0..NumLevels - 2
  BY DEF Finalize
<1>2. \A l : AfterPointer(T, v[l], ptr[l]) \subseteq v[l]
  BY DEF AfterPointer, FirstOf
<1>3. \A l \in 0..NumLevels - 2 : v[l] \subseteq Nat
  BY VersionsAssumption DEF FileMaps, Levels
<1>4. ASSUME NEW l \in Finalize(T, v), NEW f \in AfterPointer(T, v[l], ptr[l])
      PROVE  [level |-> l, file |-> f] \in PicksOf(v)
  BY <1>1, <1>2, <1>3, <1>4 DEF PicksOf
<1> QED BY <1>4 DEF PickFile

LEMMA ManualInputsAreFiles ==
    ASSUME NEW T, NEW v, NEW level, NEW lo, NEW hi
    PROVE  ManualInputs(T, v, level, lo, hi) \subseteq v[level]
<1>1. \A F : Prefix(T, F) \subseteq F
  BY DEF Prefix
<1> QED BY <1>1, OverlappingAreFiles DEF ManualInputs

\* A search that charges a file has looked at a second one, deeper down: below
\* level 0 it looks at one file of each level.
LEMMA ChargedIsPick ==
    ASSUME EntriesInv, NEW v \in FileMaps, AllFiles(v) \subseteq disk, NEW key, NEW s,
           Cardinality(ForEachOverlapping(tables, v, key, s)) > 1,
           NEW x \in ForEachOverlapping(tables, v, key, s),
           \A y \in ForEachOverlapping(tables, v, key, s) \ {x} : LookedAtBefore(x, y)
    PROVE  x \in PicksOf(v)
<1> DEFINE files == ForEachOverlapping(tables, v, key, s)
<1>1. x \in files /\ \A y \in files \ {x} : LookedAtBefore(x, y)
  OBVIOUS
<1>2. files # {x}
  <2>1. Cardinality({x}) = 1
    BY FS_Singleton
  <2> QED BY <2>1
<1>3. PICK y \in files : y # x
  BY <1>1, <1>2
<1>4. ASSUME NEW l \in 1..NumLevels - 1
      PROVE  FileAt(tables, v[l], key, s) \subseteq v[l]
  BY DEF FileAt, FindFile, FirstOf
<1>5. \A z \in files : /\ z = [level |-> z.level, file |-> z.file]
                       /\ z.level \in Levels /\ z.file \in v[z.level]
                       /\ z.level # 0 => z.file \in FileAt(tables, v[z.level], key, s)
  <2>1. 0 \in Levels /\ \A l \in 1..NumLevels - 1 : l \in Levels /\ l # 0
    BY VersionsAssumption DEF Levels
  <2>2. ASSUME NEW z \in {[level |-> 0, file |-> f] : f \in {g \in v[0] : Overlaps(tables, g, key, key)}}
        PROVE  z.level = 0 /\ z.file \in v[0] /\ z = [level |-> z.level, file |-> z.file]
    OBVIOUS
  <2>3. ASSUME NEW l \in 1..NumLevels - 1, NEW f \in FileAt(tables, v[l], key, s)
        PROVE  LET z == [level |-> l, file |-> f]
               IN  /\ z = [level |-> z.level, file |-> z.file]
                   /\ z.level \in Levels /\ z.file \in v[z.level]
                   /\ z.file \in FileAt(tables, v[z.level], key, s)
    BY <1>4, <2>1
  <2> QED BY <2>1, <2>2, <2>3 DEF ForEachOverlapping
<1>6. \A z \in files : z.file \in Nat /\ z.file \in DOMAIN tables
  <2>1. \A l \in Levels : v[l] \subseteq Nat /\ v[l] \subseteq AllFiles(v)
    BY DEF FileMaps, AllFiles
  <2> QED BY <1>5, <2>1 DEF EntriesInv
<1>7. x.level # NumLevels - 1
  <2> SUFFICES ASSUME x.level = NumLevels - 1 PROVE FALSE
    OBVIOUS
  <2> DEFINE k == NumLevels - 1
  <2>0. k \in Nat \ {0} /\ Levels = 0..k
    BY VersionsAssumption DEF Levels
  <2>1. y.level = x.level /\ x.file > y.file /\ x.level # 0
    <3>1. y.level \in 0..k /\ LookedAtBefore(x, y) /\ x.level = k
      BY <1>1, <1>3, <1>5, <2>0
    <3> HIDE DEF k
    <3> QED BY <3>1, <2>0 DEF LookedAtBefore
  <2>2. x.file \in FileAt(tables, v[x.level], key, s) /\ y.file \in FileAt(tables, v[x.level], key, s)
    BY <1>1, <1>5, <2>1
  <2>3. x.file # y.file
    BY <2>1, <1>6
  <2>4. StartsBefore(tables, x.file, y.file) /\ StartsBefore(tables, y.file, x.file)
    BY <2>2, <2>3 DEF FileAt, FindFile, FirstOf
  <2> QED BY <2>4, <1>1, <1>6, StartsBeforeStrict
<1>8. x.level \in 0..NumLevels - 2
  BY <1>1, <1>5, <1>7, VersionsAssumption DEF Levels
<1> QED BY <1>1, <1>5, <1>6, <1>8 DEF PicksOf

LEMMA GetChargesPick ==
    ASSUME EntriesInv, NEW v \in FileMaps, AllFiles(v) \subseteq disk, NEW key, NEW s
    PROVE  VersionGet(tables, v, key, s).seek \subseteq PicksOf(v)
BY ChargedIsPick, Zenon DEF VersionGet, FirstOf

LEMMA SampleChargesPick ==
    ASSUME EntriesInv, NEW v \in FileMaps, AllFiles(v) \subseteq disk, NEW e
    PROVE  ReadSample(tables, v, e) \subseteq PicksOf(v)
BY ChargedIsPick, Zenon DEF ReadSample, FirstOf

----------------------------------------------------------------------------
(* References to versions.                                                 *)

\* vs has the versions of ws that it has as they are, but for their references.
Keeps(vs, ws) == \A id \in DOMAIN vs : /\ id \in DOMAIN ws /\ vs[id].files = ws[id].files
                                       /\ vs[id].seek = ws[id].seek

LEMMA RefCounted ==
    ASSUME NEW vs, NEW c \in [Nat -> Nat], Counted(vs, c), NEW id \in DOMAIN vs
    PROVE  /\ Counted(Ref(vs, id), [c EXCEPT ![id] = @ + 1])
           /\ [c EXCEPT ![id] = @ + 1] \in [Nat -> Nat]
           /\ Keeps(Ref(vs, id), vs)
<1> DEFINE ws == Ref(vs, id)
           d  == [c EXCEPT ![id] = @ + 1]
<1>1. id \in Nat /\ c[id] \in Nat /\ DOMAIN vs = {x \in Nat : c[x] > 0}
  BY DEF Counted
<1>2. d \in [Nat -> Nat] /\ d[id] = c[id] + 1 /\ \A x \in Nat \ {id} : d[x] = c[x]
  BY <1>1
<1>3. {x \in Nat : d[x] > 0} = {x \in Nat : c[x] > 0}
  BY <1>1, <1>2
<1>4. DOMAIN ws = DOMAIN vs
  BY DEF Ref
<1>5. ASSUME NEW x \in DOMAIN vs
      PROVE  /\ DOMAIN ws[x] = VersionFields /\ ws[x].refs = d[x]
             /\ ws[x].files = vs[x].files /\ ws[x].seek = vs[x].seek
  <2>1. DOMAIN vs[x] = VersionFields /\ vs[x].refs = c[x] /\ x \in Nat
    BY DEF Counted
  <2>2. ws[x] = IF x = id THEN [vs[x] EXCEPT !.refs = vs[x].refs + 1] ELSE vs[x]
    BY DEF Ref
  <2> QED BY <2>1, <2>2, <1>2 DEF VersionFields
<1> QED BY <1>1, <1>2, <1>3, <1>4, <1>5 DEF Counted, Keeps

LEMMA UnrefCounted ==
    ASSUME NEW vs, NEW c \in [Nat -> Nat], Counted(vs, c), NEW id \in DOMAIN vs
    PROVE  /\ Counted(Unref(vs, id), [c EXCEPT ![id] = @ - 1])
           /\ [c EXCEPT ![id] = @ - 1] \in [Nat -> Nat]
           /\ Keeps(Unref(vs, id), vs)
<1> DEFINE ws == Unref(vs, id)
           d  == [c EXCEPT ![id] = @ - 1]
<1>1. id \in Nat /\ c[id] \in Nat /\ c[id] > 0 /\ DOMAIN vs = {x \in Nat : c[x] > 0}
      /\ vs[id].refs = c[id]
  BY DEF Counted
<1>2. d \in [Nat -> Nat] /\ d[id] = c[id] - 1 /\ \A x \in Nat \ {id} : d[x] = c[x]
  BY <1>1
<1>3. CASE c[id] > 1
  <2>1. ws = [vs EXCEPT ![id].refs = vs[id].refs - 1]
    BY <1>1, <1>3 DEF Unref
  <2>2. {x \in Nat : d[x] > 0} = {x \in Nat : c[x] > 0} /\ DOMAIN ws = DOMAIN vs
    BY <1>1, <1>2, <1>3, <2>1
  <2>3. ASSUME NEW x \in DOMAIN vs
        PROVE  /\ DOMAIN ws[x] = VersionFields /\ ws[x].refs = d[x]
               /\ ws[x].files = vs[x].files /\ ws[x].seek = vs[x].seek
    <3>1. DOMAIN vs[x] = VersionFields /\ vs[x].refs = c[x] /\ x \in Nat
      BY DEF Counted
    <3>2. ws[x] = IF x = id THEN [vs[x] EXCEPT !.refs = vs[x].refs - 1] ELSE vs[x]
      BY <2>1
    <3> QED BY <3>1, <3>2, <1>2 DEF VersionFields
  <2> QED BY <1>1, <1>2, <2>2, <2>3 DEF Counted, Keeps
<1>4. CASE ~(c[id] > 1)
  <2>1. ws = [x \in DOMAIN vs \ {id} |-> vs[x]]
    BY <1>1, <1>4 DEF Unref
  <2>2. d[id] = 0
    BY <1>1, <1>2, <1>4
  <2>3. {x \in Nat : d[x] > 0} = {x \in Nat : c[x] > 0} \ {id}
    BY <1>2, <2>2
  <2> QED BY <1>1, <1>2, <2>1, <2>3 DEF Counted, Keeps
<1> QED BY <1>3, <1>4

\* The count of current goes to the new version.
LEMMA AppendCounted ==
    ASSUME NEW vs, NEW c \in [Nat -> Nat], Counted(vs, c), current \in DOMAIN vs,
           current \in Nat, c[current + 1] = 0, NEW files
    PROVE  LET ws == AppendVersion(vs, files)
               d  == [[c EXCEPT ![current] = @ - 1] EXCEPT ![current + 1] = 1]
           IN  /\ Counted(ws, d) /\ d \in [Nat -> Nat]
               /\ current + 1 \in DOMAIN ws /\ ws[current + 1].files = files
               /\ ws[current + 1].seek = {}
               /\ \A id \in DOMAIN ws \ {current + 1} :
                     id \in DOMAIN vs /\ ws[id].files = vs[id].files /\ ws[id].seek = vs[id].seek
<1> DEFINE kept == Unref(vs, current)
           b    == [c EXCEPT ![current] = @ - 1]
           ws   == AppendVersion(vs, files)
           d    == [b EXCEPT ![current + 1] = 1]
<1>1. Counted(kept, b) /\ b \in [Nat -> Nat] /\ Keeps(kept, vs)
  BY UnrefCounted
<1>2. b[current + 1] = 0 /\ current + 1 \in Nat
  OBVIOUS
<1> HIDE DEF kept, b
<1>3. d \in [Nat -> Nat] /\ d[current + 1] = 1 /\ \A x \in Nat \ {current + 1} : d[x] = b[x]
  BY <1>1, <1>2
<1>4. ws = [x \in DOMAIN kept \cup {current + 1} |->
               IF x = current + 1 THEN [files |-> files, refs |-> 1, seek |-> {}] ELSE kept[x]]
  BY DEF AppendVersion, kept
<1> HIDE DEF ws, d
<1>5. {x \in Nat : d[x] > 0} = {x \in Nat : b[x] > 0} \cup {current + 1}
  BY <1>2, <1>3
<1>6. DOMAIN ws = {x \in Nat : d[x] > 0}
  BY <1>1, <1>4, <1>5 DEF Counted
<1>7. /\ current + 1 \in DOMAIN ws /\ ws[current + 1].files = files
      /\ ws[current + 1].seek = {} /\ ws[current + 1].refs = 1
      /\ DOMAIN ws[current + 1] = VersionFields
  BY <1>4 DEF VersionFields
<1>8. ASSUME NEW id \in DOMAIN ws \ {current + 1}
      PROVE  /\ id \in DOMAIN vs /\ ws[id].files = vs[id].files /\ ws[id].seek = vs[id].seek
             /\ DOMAIN ws[id] = VersionFields /\ ws[id].refs = d[id]
  <2>1. id \in DOMAIN kept /\ ws[id] = kept[id] /\ id \in Nat
    BY <1>4, <1>6
  <2> QED BY <2>1, <1>1, <1>3 DEF Counted, Keeps
<1>9. Counted(ws, d)
  BY <1>3, <1>6, <1>7, <1>8 DEF Counted
<1> QED BY <1>3, <1>7, <1>8, <1>9 DEF ws, d, b

\* UpdateStats() changes no reference and no file.
LEMMA WithSeekCounted ==
    ASSUME NEW vs, NEW c, Counted(vs, c), NEW id \in DOMAIN vs, NEW found
    PROVE  LET ws == WithSeek(vs, id, found)
           IN  /\ Counted(ws, c) /\ DOMAIN ws = DOMAIN vs
               /\ \A x \in DOMAIN vs :
                     /\ ws[x].files = vs[x].files
                     /\ ws[x].seek = vs[x].seek \/ (x = id /\ ws[x].seek \subseteq found)
<1> DEFINE due == {x \in found : seeks[x.file] <= 1}
           ws  == WithSeek(vs, id, found)
<1>1. CASE ws = vs
  BY <1>1
<1>2. CASE ws # vs
  <2>1. ws = [vs EXCEPT ![id].seek = due]
    BY <1>2 DEF WithSeek
  <2>2. due \subseteq found
    OBVIOUS
  <2> HIDE DEF ws, due
  <2>3. DOMAIN ws = DOMAIN vs
    BY <2>1
  <2>4. ASSUME NEW x \in DOMAIN vs
        PROVE  /\ DOMAIN ws[x] = VersionFields /\ ws[x].refs = c[x]
               /\ ws[x].files = vs[x].files
               /\ ws[x].seek = IF x = id THEN due ELSE vs[x].seek
    <3>1. DOMAIN vs[x] = VersionFields /\ vs[x].refs = c[x]
      BY DEF Counted
    <3>2. ws[x] = IF x = id THEN [vs[x] EXCEPT !.seek = due] ELSE vs[x]
      BY <2>1
    <3> QED BY <3>1, <3>2 DEF VersionFields
  <2>5. Counted(ws, c)
    BY <2>3, <2>4 DEF Counted
  <2> QED BY <2>2, <2>3, <2>4, <2>5 DEF ws
<1> QED BY <1>1, <1>2

----------------------------------------------------------------------------
(* Who holds a version.                                                    *)

LEMMA CountsNat ==
    ASSUME HolderRange
    PROVE  /\ Counts \in [Nat -> Nat] /\ \A id \in Nat : Counts[id] = HoldersOf(id)
           /\ \A id \in Nat : Cardinality(ReadersOf(id)) \in Nat /\ IsFiniteSet(ReadersOf(id))
<1>1. ASSUME NEW id \in Nat
      PROVE  Cardinality(ReadersOf(id)) \in Nat /\ IsFiniteSet(ReadersOf(id))
  <2>1. ReadersOf(id) \subseteq Active
    BY DEF ReadersOf
  <2> QED BY <2>1, FS_Subset, FS_CardinalityType DEF HolderRange
<1>2. ASSUME NEW id \in Nat
      PROVE  HoldersOf(id) \in Nat
  BY <1>1 DEF HoldersOf, One
<1> QED BY <1>1, <1>2 DEF Counts

\* A version is in the list exactly if somebody holds it.
LEMMA HeldIsThere ==
    ASSUME RefsInv, NEW id \in Nat
    PROVE  id \in DOMAIN versions <=>
              \/ current = id \/ BgHolds(id) \/ JobHolds(id)
              \/ \E r \in Active : readers[r].version = id
<1>1. id \in DOMAIN versions <=> HoldersOf(id) > 0
  BY CountsNat DEF RefsInv, Counted
<1>2. Cardinality(ReadersOf(id)) \in Nat /\ IsFiniteSet(ReadersOf(id))
  BY CountsNat DEF RefsInv
<1>3. Cardinality(ReadersOf(id)) = 0 <=> ReadersOf(id) = {}
  BY <1>2, FS_EmptySet
<1>4. HoldersOf(id) > 0 <=> \/ current = id \/ BgHolds(id) \/ JobHolds(id)
                            \/ ReadersOf(id) # {}
  BY <1>2, <1>3 DEF HoldersOf, One
<1> QED BY <1>1, <1>4 DEF ReadersOf

LEMMA HoldersThere ==
    ASSUME RefsInv
    PROVE  /\ current \in DOMAIN versions /\ \A r \in Active : readers[r].version \in DOMAIN versions
           /\ "base" \in DOMAIN bg => bg.base \in DOMAIN versions
           /\ job # NoJob => job.version \in DOMAIN versions
           /\ DOMAIN versions \subseteq Nat
BY HeldIsThere DEF RefsInv, HolderRange, Counted, BgHolds, JobHolds

\* The number of the next version has not been used.
LEMMA NextIsFresh ==
    ASSUME RefsInv
    PROVE  Counts[current + 1] = 0
<1>1. current + 1 \in Nat /\ current + 1 \notin 1..current
  BY DEF RefsInv, HolderRange
<1>2. ReadersOf(current + 1) = {}
  BY <1>1 DEF RefsInv, HolderRange, ReadersOf
<1>3. ~BgHolds(current + 1) /\ ~JobHolds(current + 1) /\ current # current + 1
  BY <1>1 DEF RefsInv, HolderRange, BgHolds, JobHolds
<1>4. HoldersOf(current + 1) = 0
  BY <1>2, <1>3, FS_EmptySet DEF HoldersOf, One
<1> QED BY <1>1, <1>4 DEF Counts

\* A reader comes, or goes.
LEMMA ReaderComes ==
    ASSUME HolderRange, NEW r \in Readers, readers[r] = NoReader, readers'[r] # NoReader,
           readers' = [readers EXCEPT ![r] = readers'[r]]
    PROVE  /\ Active' = Active \cup {r} /\ IsFiniteSet(Active') /\ DOMAIN readers' = Readers
           /\ \A x \in Active : readers'[x] = readers[x]
           /\ \A id \in Nat : Cardinality(ReadersOf(id)') =
                                 Cardinality(ReadersOf(id)) + One(readers'[r].version = id)
<1> DEFINE t == readers'[r]
<1>1. DOMAIN readers = Readers /\ DOMAIN readers' = Readers
      /\ \A x \in Readers \ {r} : readers'[x] = readers[x]
  BY DEF HolderRange
<1>2. Active' = Active \cup {r} /\ r \notin Active
  BY <1>1 DEF Active
<1>3. IsFiniteSet(Active')
  BY <1>2, FS_AddElement DEF HolderRange
<1>4. ASSUME NEW id \in Nat
      PROVE  Cardinality(ReadersOf(id)') = Cardinality(ReadersOf(id)) + One(t.version = id)
  <2>1. ReadersOf(id)' = ReadersOf(id) \cup IF t.version = id THEN {r} ELSE {}
    BY <1>1, <1>2 DEF ReadersOf, Active
  <2>2. r \notin ReadersOf(id) /\ IsFiniteSet(ReadersOf(id)) /\ Cardinality(ReadersOf(id)) \in Nat
    BY <1>2, CountsNat DEF ReadersOf
  <2>3. CASE t.version = id
    BY <2>1, <2>2, <2>3, FS_AddElement DEF One
  <2>4. CASE t.version # id
    BY <2>1, <2>2, <2>4 DEF One
  <2> QED BY <2>3, <2>4
<1> QED BY <1>1, <1>2, <1>3, <1>4 DEF Active

LEMMA ReaderGoes ==
    ASSUME HolderRange, NEW r \in Readers, readers[r] # NoReader,
           readers' = [readers EXCEPT ![r] = NoReader]
    PROVE  /\ Active' = Active \ {r} /\ IsFiniteSet(Active') /\ DOMAIN readers' = Readers
           /\ \A x \in Active' : readers'[x] = readers[x]
           /\ \A id \in Nat : Cardinality(ReadersOf(id)') =
                                 Cardinality(ReadersOf(id)) - One(readers[r].version = id)
<1>1. DOMAIN readers = Readers /\ DOMAIN readers' = Readers /\ readers'[r] = NoReader
      /\ \A x \in Readers \ {r} : readers'[x] = readers[x]
  BY DEF HolderRange
<1>2. Active' = Active \ {r} /\ r \in Active
  BY <1>1 DEF Active
<1>3. IsFiniteSet(Active')
  BY <1>2, FS_RemoveElement DEF HolderRange
<1>4. ASSUME NEW id \in Nat
      PROVE  Cardinality(ReadersOf(id)') = Cardinality(ReadersOf(id)) - One(readers[r].version = id)
  <2>1. ReadersOf(id)' = ReadersOf(id) \ {r}
    BY <1>1, <1>2 DEF ReadersOf, Active
  <2>2. IsFiniteSet(ReadersOf(id)) /\ Cardinality(ReadersOf(id)) \in Nat
    BY CountsNat
  <2>3. CASE readers[r].version = id
    <3>1. r \in ReadersOf(id)
      BY <2>3, <1>2 DEF ReadersOf
    <3> QED BY <2>1, <2>2, <2>3, <3>1, FS_RemoveElement DEF One
  <2>4. CASE readers[r].version # id
    <3>1. ReadersOf(id) \ {r} = ReadersOf(id)
      BY <2>4 DEF ReadersOf
    <3> QED BY <2>1, <2>2, <2>4, <3>1 DEF One
  <2> QED BY <2>3, <2>4
<1> QED BY <1>1, <1>2, <1>3, <1>4 DEF Active

----------------------------------------------------------------------------
(* The background call.                                                    *)

\* The fields of bg.
LEMMA BgFields ==
    ASSUME BgInv
    PROVE  /\ "base" \in DOMAIN bg <=> bg.pc \in {"build", "movelog"}
           /\ "files" \in DOMAIN bg <=> bg.pc \in {"flushlog", "mergelog", "movelog"}
           /\ bg.pc = "build" => bg = [pc |-> "build", number |-> bg.number, base |-> bg.base]
           /\ "base" \in DOMAIN bg => bg.base \in Nat
           /\ bg.pc = "build" => bg.number \in Nat
           /\ "files" \in DOMAIN bg => bg.files \in FileMaps
           /\ bg.pc \in {"idle", "queued", "merge", "build", "flushlog", "mergelog", "movelog"}
           /\ bg.pc \in {"idle", "queued", "merge"} => bg = [pc |-> bg.pc]
BY DEF BgInv, BgStates

Queued == [pc |-> "queued"]

\* Scheduling changes an idle thread only.
LEMMA Scheduling ==
    ASSUME NEW b, NEW im, NEW man, NEW vs, NEW cur, NEW error
    PROVE  LET c == MaybeScheduleCompaction(b, im, man, vs, cur, error)
           IN  c = b \/ (b = Idle /\ c = Queued)
BY DEF MaybeScheduleCompaction, Queued

\* The fields of these records.
LEMMA ThreadRecords ==
    /\ DOMAIN Idle = {"pc"} /\ DOMAIN Queued = {"pc"} /\ DOMAIN [pc |-> "merge"] = {"pc"}
    /\ Idle.pc = "idle" /\ Queued.pc = "queued"
    /\ \A F, i, n : /\ DOMAIN [pc |-> "flushlog", files |-> F] = {"pc", "files"}
                    /\ DOMAIN [pc |-> "mergelog", files |-> F] = {"pc", "files"}
                    /\ DOMAIN [pc |-> "movelog", base |-> i, files |-> F] = {"pc", "base", "files"}
                    /\ DOMAIN [pc |-> "build", number |-> n, base |-> i] = {"pc", "number", "base"}
BY DEF Idle, Queued

\* A job has more fields than NoJob.
LEMMA JobIsOne ==
    ASSUME NEW j, JobFields \subseteq DOMAIN j
    PROVE  j # NoJob
<1>1. DOMAIN NoJob = {"level"} /\ "rest" \in DOMAIN j
  BY DEF NoJob, JobFields
<1> QED BY <1>1

\* The end of a background call.
LEMMA CallEnds ==
    ASSUME NEW im, NEW man, NEW vs, NEW cur, NEW error,
           EndBackgroundCall(im, man, vs, cur, error)
    PROVE  bg' \in {Idle, Queued}
BY Scheduling DEF EndBackgroundCall

LEMMA FlushEnds ==
    ASSUME NEW im, NEW vs, NEW cur, NEW error, AfterFlush(im, vs, cur, error)
    PROVE  IF job = NoJob THEN bg' \in {Idle, Queued} ELSE bg' = [pc |-> "merge"]
BY CallEnds DEF AfterFlush

----------------------------------------------------------------------------
(* The references after a step.                                            *)

\* How the versions change, and who holds them, goes together.
LEMMA RefsBy ==
    ASSUME NEW d \in [Nat -> Nat], Counted(versions', d), HolderRange',
           \A id \in Nat : HoldersOf(id)' = d[id]
    PROVE  RefsInv'
<1>1. Counts' = d
  BY DEF Counts
<1> QED BY <1>1 DEF RefsInv

LEMMA RefTaken ==
    ASSUME RefsInv, HolderRange', versions' = Ref(versions, current),
           \A id \in Nat : HoldersOf(id)' = HoldersOf(id) + One(id = current)
    PROVE  RefsInv'
<1> DEFINE d == [Counts EXCEPT ![current] = @ + 1]
<1>1. current \in DOMAIN versions /\ current \in Nat /\ Counts \in [Nat -> Nat]
      /\ \A id \in Nat : Counts[id] = HoldersOf(id)
  BY HoldersThere, CountsNat DEF RefsInv
<1>2. Counted(versions', d) /\ d \in [Nat -> Nat]
  BY <1>1, RefCounted DEF RefsInv
<1>3. \A id \in Nat : d[id] = Counts[id] + One(id = current)
  BY <1>1 DEF One
<1> HIDE DEF d
<1> QED BY <1>1, <1>2, <1>3, RefsBy

LEMMA RefDropped ==
    ASSUME RefsInv, HolderRange', NEW vs, Counted(vs, Counts), NEW x \in DOMAIN vs,
           versions' = Unref(vs, x),
           \A id \in Nat : HoldersOf(id)' = HoldersOf(id) - One(id = x)
    PROVE  RefsInv'
<1> DEFINE d == [Counts EXCEPT ![x] = @ - 1]
<1>1. Counts \in [Nat -> Nat] /\ \A id \in Nat : Counts[id] = HoldersOf(id)
  BY CountsNat DEF RefsInv
<1>2. Counted(versions', d) /\ d \in [Nat -> Nat]
  BY <1>1, UnrefCounted
<1>4. x \in Nat
  BY DEF Counted
<1>3. \A id \in Nat : d[id] = Counts[id] - One(id = x)
  BY <1>1, <1>4 DEF One
<1> HIDE DEF d
<1> QED BY <1>1, <1>2, <1>3, RefsBy

LEMMA RefAppended ==
    ASSUME RefsInv, HolderRange', NEW files, versions' = AppendVersion(versions, files),
           \A id \in Nat : HoldersOf(id)' = HoldersOf(id) - One(id = current) + One(id = current + 1)
    PROVE  RefsInv'
<1> DEFINE d == [[Counts EXCEPT ![current] = @ - 1] EXCEPT ![current + 1] = 1]
<1>1. current \in DOMAIN versions /\ current \in Nat /\ Counts \in [Nat -> Nat]
      /\ Counts[current + 1] = 0
      /\ \A id \in Nat : Counts[id] = HoldersOf(id)
  BY HoldersThere, NextIsFresh, CountsNat DEF RefsInv, HolderRange
<1>2. Counted(versions', d) /\ d \in [Nat -> Nat]
  BY <1>1, AppendCounted DEF RefsInv
<1>3. \A id \in Nat : d[id] = Counts[id] - One(id = current) + One(id = current + 1)
  BY <1>1 DEF One
<1> HIDE DEF d
<1> QED BY <1>1, <1>2, <1>3, RefsBy

\* A new version is installed, and the reference to an older one dropped.
LEMMA RefAppendedDropped ==
    ASSUME RefsInv, HolderRange', NEW files, NEW x \in 1..current,
           versions' = Unref(AppendVersion(versions, files), x),
           HoldersOf(x) - One(x = current) > 0,
           \A id \in Nat : HoldersOf(id)' = HoldersOf(id) - One(id = current)
                                              + One(id = current + 1) - One(id = x)
    PROVE  RefsInv'
<1> DEFINE c == [[Counts EXCEPT ![current] = @ - 1] EXCEPT ![current + 1] = 1]
           d == [c EXCEPT ![x] = @ - 1]
           ws == AppendVersion(versions, files)
<1>1. current \in DOMAIN versions /\ current \in Nat /\ Counts \in [Nat -> Nat]
      /\ Counts[current + 1] = 0
      /\ \A id \in Nat : Counts[id] = HoldersOf(id)
  BY HoldersThere, NextIsFresh, CountsNat DEF RefsInv, HolderRange
<1>2. Counted(ws, c) /\ c \in [Nat -> Nat]
  BY <1>1, AppendCounted DEF RefsInv
<1>3. \A id \in Nat : c[id] = Counts[id] - One(id = current) + One(id = current + 1)
  BY <1>1 DEF One
<1>4. x \in Nat /\ x # current + 1 /\ c[x] > 0
  BY <1>1, <1>3 DEF One
<1> HIDE DEF c, ws
<1>5. x \in DOMAIN ws
  BY <1>2, <1>4 DEF Counted
<1>6. Counted(versions', d) /\ d \in [Nat -> Nat]
  BY <1>2, <1>5, UnrefCounted DEF ws
<1>7. \A id \in Nat : d[id] = c[id] - One(id = x)
  BY <1>2, <1>4 DEF One
<1> HIDE DEF d
<1>8. ASSUME NEW id \in Nat PROVE HoldersOf(id)' = d[id]
  <2>1. d[id] = HoldersOf(id) - One(id = current) + One(id = current + 1) - One(id = x)
    BY <1>1, <1>3, <1>7 DEF One
  <2> QED BY <2>1
<1> QED BY <1>6, <1>8, RefsBy

\* Steps after which everybody holds what they held.
SameHolders ==
    /\ UNCHANGED <<readers, current>>
    /\ bg' = bg \/ ("base" \notin DOMAIN bg /\ "base" \notin DOMAIN bg')
    /\ (job' # NoJob) = (job # NoJob) /\ (job # NoJob => job'.version = job.version)

LEMMA RefsKept ==
    ASSUME RefsInv, SameHolders, Counted(versions', Counts)
    PROVE  RefsInv'
<1>1. HolderRange'
  BY DEF RefsInv, HolderRange, SameHolders, Active
<1>2. ASSUME NEW id \in Nat PROVE HoldersOf(id)' = HoldersOf(id)
  <2>1. ReadersOf(id)' = ReadersOf(id) /\ current' = current
    BY DEF SameHolders, ReadersOf, Active
  <2>2. BgHolds(id)' = BgHolds(id) /\ JobHolds(id)' = JobHolds(id)
    BY DEF SameHolders, BgHolds, JobHolds
  <2> QED BY <2>1, <2>2 DEF HoldersOf
<1>3. Counts \in [Nat -> Nat] /\ \A id \in Nat : Counts[id] = HoldersOf(id)
  BY CountsNat DEF RefsInv
<1> QED BY <1>1, <1>2, <1>3, RefsBy

\* Steps that only schedule the thread, or do not touch it.
MaySchedule == bg' = bg \/ (bg.pc \in {"idle", "queued"} /\ bg' \in {Idle, Queued})

LEMMA QuietKeepsHolders ==
    ASSUME BgInv, MaySchedule, UNCHANGED <<readers, current, job>>
    PROVE  SameHolders
BY BgFields, ThreadRecords DEF SameHolders, MaySchedule

LEMMA Rescheduled ==
    ASSUME BgInv, NEW im, NEW man, NEW vs, NEW cur, NEW error,
           bg' = MaybeScheduleCompaction(bg, im, man, vs, cur, error)
    PROVE  MaySchedule
<1>1. bg' = bg \/ (bg = Idle /\ bg' = Queued)
  BY Scheduling
<1> QED BY <1>1, ThreadRecords DEF MaySchedule

\* The steps that touch neither versions nor who holds them.
QuietStep ==
    \/ \E k \in Keys, del \in BOOLEAN : Write(k, del)
    \/ GetSnapshot \/ \E s \in snapshots : ReleaseSnapshot(s)
    \/ \E lo, hi \in Keys : lo <= hi /\ CompactRange(lo, hi)
    \/ CallSwitches \/ CallFlushed \/ CallSchedules \/ CallAdvances
    \/ NothingToCompact \/ SkipBackgroundWork \/ SyncFails

LEMMA QuietSchedules ==
    ASSUME BgInv, QuietStep
    PROVE  /\ MaySchedule
           /\ UNCHANGED <<readers, versions, current, job, disk, tables, seeks, pending, next>>
<1>1. ASSUME NEW k \in Keys, NEW del \in BOOLEAN, Write(k, del)
      PROVE  /\ MaySchedule
             /\ UNCHANGED <<readers, versions, current, job, disk, tables, seeks, pending, next>>
  <2>1. bg' = bg \/ bg' = MaybeScheduleCompaction(bg, mem, manual, versions, current, bg_error_)
    BY <1>1 DEF Write
  <2>2. MaySchedule
    BY <2>1, Rescheduled DEF MaySchedule
  <2> QED BY <1>1, <2>2 DEF Write, fileVars, verVars
<1>2. CASE GetSnapshot \/ \E s \in snapshots : ReleaseSnapshot(s)
  BY <1>2 DEF MaySchedule, GetSnapshot, ReleaseSnapshot, fileVars, verVars, bgVars
<1>3. CASE \E lo, hi \in Keys : lo <= hi /\ CompactRange(lo, hi)
  BY <1>3 DEF MaySchedule, CompactRange, fileVars, verVars, bgVars
<1>4. CASE CallSwitches
  <2>1. bg' = bg \/ bg' = MaybeScheduleCompaction(bg, mem, manual, versions, current, bg_error_)
    BY <1>4 DEF CallSwitches
  <2>2. MaySchedule
    BY <2>1, Rescheduled DEF MaySchedule
  <2> QED BY <1>4, <2>2 DEF CallSwitches, fileVars, verVars
<1>5. CASE CallFlushed \/ CallAdvances
  BY <1>5 DEF MaySchedule, CallFlushed, CallAdvances, fileVars, verVars, bgVars
<1>6. CASE CallSchedules
  <2>1. bg' = MaybeScheduleCompaction(bg, imm, TRUE, versions, current, bg_error_)
    BY <1>6 DEF CallSchedules
  <2>2. MaySchedule
    BY <2>1, Rescheduled DEF MaySchedule
  <2> QED BY <1>6, <2>2 DEF CallSchedules, fileVars, verVars
<1>7. CASE NothingToCompact
  <2>1. bg' \in {Idle, Queued} /\ bg.pc = "queued"
    BY <1>7, CallEnds DEF NothingToCompact, MayStart
  <2> QED BY <1>7, <2>1, ThreadRecords DEF NothingToCompact, fileVars, verVars, MaySchedule
<1>8. CASE SkipBackgroundWork
  BY <1>8, ThreadRecords DEF SkipBackgroundWork, fileVars, verVars, MaySchedule
<1>9. CASE SyncFails
  BY <1>9 DEF MaySchedule, SyncFails, fileVars, verVars
<1> QED BY <1>1, <1>2, <1>3, <1>4, <1>5, <1>6, <1>7, <1>8, <1>9 DEF QuietStep

\* Readers take and drop references.
LEMMA ReaderRefs ==
    ASSUME BgInv, RefsInv, NEW r \in Readers,
           \/ \E key \in Keys \cup {Iterator}, s \in snapshots \cup {LastSequence} :
                 StartReading(r, key, s)
           \/ EndGet(r) \/ CleanupIterator(r)
           \/ \E i \in 1..LastSequence : RecordReadSample(r, hist[i])
    PROVE  RefsInv' /\ MaySchedule
<1>0. HolderRange /\ current \in Nat \ {0} /\ current \in 1..current
      /\ Counted(versions, Counts)
  BY DEF RefsInv, HolderRange
<1>1. ASSUME NEW key \in Keys \cup {Iterator}, NEW s, StartReading(r, key, s)
      PROVE  RefsInv' /\ MaySchedule
  <2>1. /\ readers[r] = NoReader
        /\ readers' = [readers EXCEPT ![r] = [key |-> key, s |-> s, mem |-> mem, imm |-> imm,
                                              version |-> current]]
        /\ versions' = Ref(versions, current) /\ UNCHANGED <<current, bg, job>>
    BY <1>1 DEF StartReading, TakeReferences, bgVars
  <2>2. DOMAIN readers = Readers
    BY <1>0 DEF HolderRange
  <2>6. readers'[r].version = current /\ readers'[r].key = key
    BY <2>1, <2>2
  <2>7. readers'[r] # NoReader
    <3>1. key # 0
      BY VersionsAssumption DEF Keys, Iterator
    <3> QED BY <2>6, <3>1 DEF NoReader
  <2>8. readers' = [readers EXCEPT ![r] = readers'[r]]
    BY <2>1, <2>2
  <2>3. /\ Active' = Active \cup {r} /\ IsFiniteSet(Active') /\ DOMAIN readers' = Readers
        /\ \A x \in Active : readers'[x] = readers[x]
        /\ \A id \in Nat : Cardinality(ReadersOf(id)') =
                              Cardinality(ReadersOf(id)) + One(readers'[r].version = id)
    BY <1>0, <2>1, <2>7, <2>8, ReaderComes
  <2>4. HolderRange'
    BY <1>0, <2>1, <2>6, <2>3 DEF HolderRange
  <2>5. ASSUME NEW id \in Nat PROVE HoldersOf(id)' = HoldersOf(id) + One(id = current)
    <3>1. BgHolds(id)' = BgHolds(id) /\ JobHolds(id)' = JobHolds(id) /\ (current' = id) = (current = id)
      BY <2>1 DEF BgHolds, JobHolds
    <3>2. Cardinality(ReadersOf(id)) \in Nat
      BY <1>0, CountsNat
    <3> QED BY <2>6, <2>3, <3>1, <3>2 DEF HoldersOf, One
  <2> QED BY <2>1, <2>4, <2>5, RefTaken DEF MaySchedule
<1>2. ASSUME EndGet(r) \/ CleanupIterator(r)
      PROVE  RefsInv' /\ MaySchedule
  <2> DEFINE t == readers[r]
  <2>1. PICK vs : /\ Counted(vs, Counts) /\ DOMAIN vs = DOMAIN versions
                  /\ versions' = Unref(vs, t.version) /\ readers' = [readers EXCEPT ![r] = NoReader]
                  /\ UNCHANGED <<current, job>> /\ MaySchedule /\ readers[r] # NoReader
    <3>1. CASE EndGet(r)
      <4>1. t.key \in Keys /\ readers[r] # NoReader
        <5>1. t.key # 0 /\ NoReader.key = 0
          BY <3>1, VersionsAssumption DEF EndGet, Keys, NoReader
        <5> QED BY <3>1, <5>1 DEF EndGet
      <4>2. r \in Active /\ t.version \in DOMAIN versions
        BY <4>1, HoldersThere DEF Active
      <4>3. PICK file : LET vs == WithSeek(versions, t.version, file)
                        IN  /\ versions' = Unref(vs, t.version)
                            /\ bg' = IF vs = versions THEN bg
                                     ELSE MaybeScheduleCompaction(bg, imm, manual, vs, current, bg_error_)
        BY <3>1 DEF EndGet
      <4> DEFINE vs == WithSeek(versions, t.version, file)
      <4>4. Counted(vs, Counts) /\ DOMAIN vs = DOMAIN versions
        BY <1>0, <4>2, WithSeekCounted
      <4> HIDE DEF vs
      <4>5. MaySchedule
        BY <4>3, Rescheduled DEF vs, MaySchedule
      <4>6. readers' = [readers EXCEPT ![r] = NoReader] /\ UNCHANGED <<current, job>>
        BY <3>1 DEF EndGet
      <4> QED BY <4>1, <4>3, <4>4, <4>5, <4>6 DEF vs
    <3>2. CASE CleanupIterator(r)
      <4>1. readers[r] # NoReader
        BY <3>2, VersionsAssumption DEF CleanupIterator, Iterator, NoReader
      <4> QED BY <1>0, <3>2, <4>1 DEF CleanupIterator, bgVars, MaySchedule
    <3> QED BY <1>2, <3>1, <3>2
  <2>2. /\ Active' = Active \ {r} /\ IsFiniteSet(Active') /\ DOMAIN readers' = Readers
        /\ \A x \in Active' : readers'[x] = readers[x]
        /\ \A id \in Nat : Cardinality(ReadersOf(id)') =
                              Cardinality(ReadersOf(id)) - One(t.version = id)
    BY <1>0, <2>1, ReaderGoes
  <2>3. bg' = bg \/ ("base" \notin DOMAIN bg /\ "base" \notin DOMAIN bg')
    BY <2>1, BgFields, ThreadRecords DEF MaySchedule
  <2>4. HolderRange'
    BY <1>0, <2>1, <2>2, <2>3 DEF HolderRange
  <2>5. ASSUME NEW id \in Nat PROVE HoldersOf(id)' = HoldersOf(id) - One(id = t.version)
    <3>1. BgHolds(id)' = BgHolds(id) /\ JobHolds(id)' = JobHolds(id) /\ (current' = id) = (current = id)
      BY <2>1, <2>3 DEF BgHolds, JobHolds
    <3>2. Cardinality(ReadersOf(id)) \in Nat
      BY <1>0, CountsNat
    <3> QED BY <2>2, <3>1, <3>2 DEF HoldersOf, One
  <2>6. t.version \in DOMAIN versions
    BY <2>1, HoldersThere DEF Active
  <2> QED BY <2>1, <2>4, <2>5, <2>6, RefDropped
<1>3. ASSUME NEW i \in 1..LastSequence, RecordReadSample(r, hist[i])
      PROVE  RefsInv' /\ MaySchedule
  <2> DEFINE file == ReadSample(tables, CurrentFiles, hist[i])
             vs   == WithSeek(versions, current, file)
  <2>1. Counted(vs, Counts)
    BY <1>0, HoldersThere, WithSeekCounted
  <2>2. /\ versions' = vs /\ UNCHANGED <<readers, current, job>>
        /\ bg' = IF vs = versions THEN bg
                 ELSE MaybeScheduleCompaction(bg, imm, manual, vs, current, bg_error_)
    BY <1>3 DEF RecordReadSample
  <2> HIDE DEF vs
  <2>3. MaySchedule
    BY <2>2, Rescheduled DEF MaySchedule
  <2> QED BY <2>1, <2>2, <2>3, QuietKeepsHolders, RefsKept
<1> QED BY <1>1, <1>2, <1>3

----------------------------------------------------------------------------
(* The compaction that is chosen.                                          *)

CandidateFields == {"level", "in0", "in1", "grandparents", "pointer"}

LEMMA CandidatesAreFiles ==
    ASSUME CallInv, RefsInv, FilesInv, NEW c \in Candidates
    PROVE  /\ DOMAIN c = CandidateFields /\ c.level \in 0..NumLevels - 2
           /\ c.in0 \cup c.in1 \subseteq AllFiles(CurrentFiles)
<1>1. current \in DOMAIN versions
  BY HoldersThere
<1>2. CurrentFiles \in FileMaps /\ versions[current].seek \subseteq PicksOf(CurrentFiles)
  BY <1>1 DEF FilesInv, Files, CurrentFiles
<1>3. CASE manual
  <2>1. call.level \in 0..NumLevels - 2
    <3>1. call.pc = "range" /\ NoCall.pc = "none"
      BY <1>3 DEF CallInv, NoCall
    <3> QED BY <3>1 DEF CallInv
  <2>2. PICK in0 : /\ in0 = ManualInputs(tables, CurrentFiles, call.level, call.from, call.hi)
                   /\ c = SetupOtherInputs(tables, CurrentFiles, call.level, in0)
    BY <1>3 DEF Candidates
  <2>3. in0 \in SUBSET CurrentFiles[call.level]
    BY <2>2, ManualInputsAreFiles
  <2> QED BY <1>2, <2>1, <2>2, <2>3, InputsAreFiles DEF CandidateFields
<1>4. CASE ~manual
  <2>1. PICK pick \in PickFile(tables, CurrentFiles, pointer, versions[current].seek) :
            c = PickCompaction(tables, CurrentFiles, pick)
    BY <1>4 DEF Candidates
  <2>2. pick \in PicksOf(CurrentFiles)
    BY <1>2, <2>1, PicksAreFiles
  <2>3. pick.level \in 0..NumLevels - 2 /\ pick.file \in CurrentFiles[pick.level]
    BY <2>2 DEF PicksOf
  <2> DEFINE in0 == IF pick.level > 0 THEN {pick.file} ELSE Over(tables, CurrentFiles, 0, {pick.file})
  <2>4. in0 \in SUBSET CurrentFiles[pick.level]
    <3>1. CASE pick.level > 0
      BY <2>3, <3>1
    <3>2. CASE pick.level = 0
      BY <3>2, OverAreFiles
    <3> QED BY <2>3, <3>1, <3>2
  <2>5. c = SetupOtherInputs(tables, CurrentFiles, pick.level, in0)
    BY <2>1 DEF PickCompaction
  <2>6. PICK picked \in SUBSET CurrentFiles[pick.level] :
           c = SetupOtherInputs(tables, CurrentFiles, pick.level, picked)
    BY <2>4, <2>5
  <2>7. CurrentFiles \in FileMaps /\ pick.level \in 0..NumLevels - 2
    BY <1>2, <2>3
  <2>8. /\ DOMAIN c = CandidateFields /\ c.level = pick.level
        /\ c.in0 \cup c.in1 \subseteq AllFiles(CurrentFiles)
    BY <2>6, <2>7, InputsAreFiles DEF CandidateFields
  <2> QED BY <2>7, <2>8
<1> QED BY <1>3, <1>4

LEMMA NewJobFields ==
    ASSUME NEW c
    PROVE  LET j == NewJob(c, manual)
           IN  /\ JobFields \subseteq DOMAIN j /\ j # NoJob
               /\ j.level = c.level /\ j.in0 = c.in0 /\ j.in1 = c.in1 /\ j.version = current
               /\ j.outputs = {} /\ j.builder = 0 /\ j.rest = Entries(tables, c.in0 \cup c.in1)
<1> DEFINE j == NewJob(c, manual)
<1>1. /\ JobFields \subseteq DOMAIN j
      /\ j.level = c.level /\ j.in0 = c.in0 /\ j.in1 = c.in1 /\ j.version = current
      /\ j.outputs = {} /\ j.builder = 0 /\ j.rest = Entries(tables, c.in0 \cup c.in1)
  BY DEF NewJob, JobFields
<1> QED BY <1>1, JobIsOne

----------------------------------------------------------------------------
(* The background thread takes and drops references.                       *)

\* Readers stay as they are, and nobody holds anything through bg or job but
\* what these steps say.
BgHolder(b, j, id) == One("base" \in DOMAIN b /\ b.base = id) + One(j # NoJob /\ j.version = id)

LEMMA HoldersAfter ==
    ASSUME HolderRange, UNCHANGED readers, NEW id \in Nat
    PROVE  /\ BgHolder(bg, job, id) \in Nat /\ BgHolder(bg', job', id) \in Nat
           /\ HoldersOf(id)' = HoldersOf(id) - One(id = current) - BgHolder(bg, job, id)
                                 + One(id = current') + BgHolder(bg', job', id)
<1>1. Cardinality(ReadersOf(id)) \in Nat /\ ReadersOf(id)' = ReadersOf(id)
  BY CountsNat DEF ReadersOf, Active
<1> QED BY <1>1 DEF HoldersOf, BgHolder, BgHolds, JobHolds, One

LEMMA RangeAfter ==
    ASSUME HolderRange, UNCHANGED readers, current' \in {current, current + 1},
           "base" \in DOMAIN bg' => bg'.base \in 1..current',
           job' # NoJob => job'.version \in 1..current'
    PROVE  HolderRange'
BY DEF HolderRange, Active

LEMMA TakesRef ==
    ASSUME BgInv, RefsInv, UNCHANGED <<readers, current>>, versions' = Ref(versions, current),
           "base" \notin DOMAIN bg,
           \/ /\ "base" \in DOMAIN bg' /\ bg'.base = current /\ job' = job
           \/ /\ "base" \notin DOMAIN bg' /\ job = NoJob /\ job' # NoJob /\ job'.version = current
    PROVE  RefsInv'
<1>1. HolderRange /\ current \in 1..current
  BY DEF RefsInv, HolderRange
<1>2. HolderRange'
  BY <1>1, RangeAfter DEF HolderRange
<1>3. ASSUME NEW id \in Nat PROVE HoldersOf(id)' = HoldersOf(id) + One(id = current)
  <2>1. BgHolder(bg', job', id) = BgHolder(bg, job, id) + One(id = current)
    BY DEF BgHolder, One
  <2>2. HoldersOf(id) \in Nat
    BY <1>1, CountsNat DEF Counts
  <2>3. HoldersOf(id)' = HoldersOf(id) - One(id = current) - BgHolder(bg, job, id)
                           + One(id = current') + BgHolder(bg', job', id)
        /\ BgHolder(bg, job, id) \in Nat
    BY <1>1, HoldersAfter
  <2> QED BY <2>1, <2>2, <2>3 DEF One
<1> QED BY <1>2, <1>3, RefTaken

\* The reference through bg or job is dropped, after a new version or not.
DropsRef(x) ==
    \/ /\ "base" \in DOMAIN bg /\ bg.base = x
       /\ "base" \notin DOMAIN bg' /\ job' = job
    \/ /\ job # NoJob /\ job.version = x
       /\ job' = NoJob /\ "base" \notin DOMAIN bg /\ "base" \notin DOMAIN bg'

LEMMA DroppedHolder ==
    ASSUME BgInv, RefsInv, UNCHANGED readers, current' \in {current, current + 1}, NEW x, DropsRef(x)
    PROVE  /\ HolderRange' /\ x \in 1..current /\ x \in DOMAIN versions
           /\ HoldersOf(x) - One(x = current) > 0
           /\ \A id \in Nat : HoldersOf(id)' = HoldersOf(id) - One(id = current) + One(id = current')
                                                 - One(id = x)
<1>1. HolderRange /\ current \in Nat \ {0}
  BY DEF RefsInv, HolderRange
<1>2. x \in 1..current /\ x \in DOMAIN versions
  BY <1>1, HoldersThere DEF DropsRef, HolderRange
<1>3. HolderRange'
  BY <1>1, RangeAfter DEF HolderRange, DropsRef
<1>4. ASSUME NEW id \in Nat
      PROVE  HoldersOf(id)' = HoldersOf(id) - One(id = current) + One(id = current') - One(id = x)
  <2>1. BgHolder(bg, job, id) = BgHolder(bg', job', id) + One(id = x)
    BY DEF BgHolder, One, DropsRef
  <2>2. HoldersOf(id) \in Nat
    BY <1>1, CountsNat DEF Counts
  <2>3. HoldersOf(id)' = HoldersOf(id) - One(id = current) - BgHolder(bg, job, id)
                           + One(id = current') + BgHolder(bg', job', id)
        /\ BgHolder(bg', job', id) \in Nat
    BY <1>1, HoldersAfter
  <2> QED BY <2>1, <2>2, <2>3 DEF One
<1>5. HoldersOf(x) - One(x = current) > 0
  <2>1. Cardinality(ReadersOf(x)) \in Nat /\ x \in Nat
    BY <1>1, <1>2, CountsNat
  <2>2. BgHolds(x) \/ JobHolds(x)
    BY DEF DropsRef, BgHolds, JobHolds
  <2> QED BY <2>1, <2>2 DEF HoldersOf, One
<1> QED BY <1>2, <1>3, <1>4, <1>5

LEMMA DropsWithout ==
    ASSUME BgInv, RefsInv, UNCHANGED <<readers, current>>, NEW x, DropsRef(x),
           versions' = Unref(versions, x)
    PROVE  RefsInv'
<1>1. /\ HolderRange' /\ x \in DOMAIN versions
      /\ \A id \in Nat : HoldersOf(id)' = HoldersOf(id) - One(id = current) + One(id = current')
                                            - One(id = x)
  BY DroppedHolder
<1>2. ASSUME NEW id \in Nat PROVE HoldersOf(id)' = HoldersOf(id) - One(id = x)
  <2>1. HoldersOf(id) \in Nat
    BY CountsNat DEF Counts, RefsInv
  <2> QED BY <1>1, <2>1 DEF One
<1> QED BY <1>1, <1>2, RefDropped DEF RefsInv

LEMMA DropsAfterInstall ==
    ASSUME BgInv, RefsInv, UNCHANGED readers, current' = current + 1, NEW x, DropsRef(x), NEW files,
           versions' = Unref(AppendVersion(versions, files), x)
    PROVE  RefsInv'
<1>1. /\ HolderRange' /\ x \in 1..current
      /\ HoldersOf(x) - One(x = current) > 0
      /\ \A id \in Nat : HoldersOf(id)' = HoldersOf(id) - One(id = current) + One(id = current')
                                            - One(id = x)
  BY DroppedHolder
<1>2. ASSUME NEW id \in Nat
      PROVE  HoldersOf(id)' = HoldersOf(id) - One(id = current) + One(id = current + 1) - One(id = x)
  BY <1>1
<1> QED BY <1>1, <1>2, RefAppendedDropped

LEMMA FlushRefs ==
    ASSUME BgInv, RefsInv, StartFlush \/ BuildTable \/ InstallFlush \/ FlushFails
    PROVE  RefsInv'
<1>1. CASE StartFlush
  <2>1. /\ bg.pc \in {"queued", "merge"} /\ bg' = [pc |-> "build", number |-> next, base |-> current]
        /\ versions' = Ref(versions, current) /\ UNCHANGED <<readers, current, job>>
    BY <1>1 DEF StartFlush
  <2>2. "base" \notin DOMAIN bg /\ "base" \in DOMAIN bg' /\ bg'.base = current
    BY <2>1, BgFields, ThreadRecords
  <2> QED BY <2>1, <2>2, TakesRef
<1>2. CASE BuildTable
  <2>1. /\ bg.pc = "build" /\ versions' = Unref(versions, bg.base) /\ UNCHANGED <<readers, current, job>>
        /\ bg' = [pc |-> "flushlog", files |-> PlaceTable(Put(tables, bg.number, imm), bg.number)]
    BY <1>2 DEF BuildTable
  <2>2. DropsRef(bg.base)
    BY <2>1, BgFields, ThreadRecords DEF DropsRef
  <2> QED BY <2>1, <2>2, DropsWithout
<1>3. CASE InstallFlush
  <2>1. /\ bg.pc = "flushlog" /\ versions' = AppendVersion(versions, bg.files)
        /\ current' = current + 1 /\ UNCHANGED <<readers, job>>
        /\ AfterFlush({}, versions', current + 1, bg_error_)
    BY <1>3 DEF InstallFlush
  <2>2. bg' \in {Idle, Queued, [pc |-> "merge"]}
    BY <2>1, FlushEnds
  <2>3. "base" \notin DOMAIN bg /\ "base" \notin DOMAIN bg'
    BY <2>1, <2>2, BgFields, ThreadRecords
  <2>4. HolderRange /\ current \in Nat \ {0}
    BY DEF RefsInv, HolderRange
  <2>5. HolderRange'
    BY <2>1, <2>3, <2>4, RangeAfter DEF HolderRange
  <2>6. ASSUME NEW id \in Nat
        PROVE  HoldersOf(id)' = HoldersOf(id) - One(id = current) + One(id = current + 1)
    <3>1. BgHolder(bg', job', id) = BgHolder(bg, job, id)
      BY <2>1, <2>3 DEF BgHolder
    <3>2. HoldersOf(id) \in Nat
      BY <2>4, CountsNat DEF Counts
    <3>3. HoldersOf(id)' = HoldersOf(id) - One(id = current) - BgHolder(bg, job, id)
                             + One(id = current') + BgHolder(bg', job', id)
          /\ BgHolder(bg, job, id) \in Nat
      BY <2>1, <2>4, HoldersAfter
    <3> QED BY <2>1, <3>1, <3>2, <3>3 DEF One
  <2> QED BY <2>1, <2>5, <2>6, RefAppended
<1>4. CASE FlushFails
  <2>1. /\ UNCHANGED <<readers, current, job>> /\ bg.pc \in {"build", "flushlog"}
        /\ AfterFlush(imm, versions', current, TRUE)
        /\ IF bg.pc = "build" THEN versions' = Unref(versions, bg.base) ELSE versions' = versions
    BY <1>4 DEF FlushFails
  <2>2. bg' \in {Idle, Queued, [pc |-> "merge"]}
    BY <2>1, FlushEnds
  <2>3. "base" \notin DOMAIN bg'
    BY <2>2, ThreadRecords
  <2>4. CASE bg.pc = "build"
    <3>1. DropsRef(bg.base)
      BY <2>1, <2>3, <2>4, BgFields DEF DropsRef
    <3> QED BY <2>1, <2>4, <3>1, DropsWithout
  <2>5. CASE bg.pc = "flushlog"
    <3>1. "base" \notin DOMAIN bg
      BY <2>5, BgFields
    <3> QED BY <2>1, <2>3, <2>5, <3>1, RefsKept DEF SameHolders, RefsInv
  <2> QED BY <2>1, <2>4, <2>5
<1> QED BY <1>1, <1>2, <1>3, <1>4

\* One turn of the loop of a merge drops an entry, or puts it into an output.
LEMMA JobAfterTurn ==
    ASSUME NEW j, JobFields \subseteq DOMAIN j, NEW rest, NEW last, NEW gindex, NEW overlapped,
           NEW ptrs, NEW outputs, NEW builder
    PROVE  LET k == [j EXCEPT !.rest = rest, !.last = last, !.gindex = gindex,
                              !.overlapped = overlapped, !.ptrs = ptrs, !.outputs = outputs,
                              !.builder = builder]
           IN  /\ DOMAIN k = DOMAIN j /\ k.rest = rest /\ k.outputs = outputs /\ k.builder = builder
               /\ k.version = j.version /\ k.in0 = j.in0 /\ k.in1 = j.in1 /\ k.level = j.level
BY DEF JobFields

LEMMA TurnOfMerge ==
    ASSUME BgInv, MergeNext
    PROVE  /\ bg.pc = "merge" /\ job # NoJob /\ job' # NoJob /\ DOMAIN job' = DOMAIN job
           /\ job'.version = job.version /\ job'.level = job.level
           /\ job'.in0 = job.in0 /\ job'.in1 = job.in1 /\ job'.rest \subseteq job.rest
           /\ \/ /\ UNCHANGED <<tables, disk, pending, next>>
                 /\ job'.outputs = job.outputs /\ job'.builder \in {0, job.builder}
                 /\ \E e \in InputAt : job'.rest = job.rest \ {e}
              \/ \E e \in job.rest, out \in {next} \cup job.outputs :
                    /\ e \in InputAt /\ out \in {next} \cup ({job.builder} \ {0})
                    /\ job'.rest = job.rest \ {e}
                    /\ tables' = Put(tables, out, IF out = next THEN {e} ELSE tables[out] \cup {e})
                    /\ disk' = disk \cup {out} /\ pending' = pending \cup {out}
                    /\ next' = IF out = next THEN next + 1 ELSE next
                    /\ job'.outputs = job.outputs \cup {out} /\ job'.builder \in {0, out}
           /\ UNCHANGED <<memVars, readers, versions, current, bg>>
<1>1. bg.pc = "merge" /\ job # NoJob /\ JobFields \subseteq DOMAIN job
  BY DEF MergeNext, BgInv
<1>a. InputAt \subseteq job.rest
  BY Zenon DEF InputAt, FirstOf
<1> DEFINE Turn(e, stop, look, open, out, drop) ==
              /\ IF drop THEN UNCHANGED <<tables, disk, pending, next, seeks>> ELSE AddEntry(e, out)
              /\ job' = [job EXCEPT !.rest = @ \ {e}, !.last = {e},
                           !.gindex = stop.gindex, !.overlapped = stop.overlapped,
                           !.ptrs = IF Asks(e) THEN look.ptrs ELSE @,
                           !.outputs = IF drop THEN @ ELSE @ \cup {out},
                           !.builder = IF drop THEN open ELSE CloseOutput(out)]
<1>b. PICK e \in InputAt : \E stop, look :
         \E open \in {IF stop.stop THEN 0 ELSE job.builder} :
         \E out \in {OpenOutput(open)}, drop \in {Drops(e, look.base)} :
            Turn(e, stop, look, open, out, drop)
  BY Zenon DEF MergeNext
<1> HIDE DEF Turn
<1>c. PICK stop, look :
         \E open \in {IF stop.stop THEN 0 ELSE job.builder} :
         \E out \in {OpenOutput(open)}, drop \in {Drops(e, look.base)} :
            Turn(e, stop, look, open, out, drop)
  BY <1>b, Zenon
<1>2. PICK open, out, drop : /\ open = (IF stop.stop THEN 0 ELSE job.builder) /\ out = OpenOutput(open)
                             /\ Turn(e, stop, look, open, out, drop)
  BY <1>c, Zenon
<1> USE DEF Turn
<1>3. /\ DOMAIN job' = DOMAIN job /\ job'.rest = job.rest \ {e}
      /\ job'.outputs = IF drop THEN job.outputs ELSE job.outputs \cup {out}
      /\ job'.builder = IF drop THEN open ELSE CloseOutput(out)
      /\ job'.version = job.version /\ job'.level = job.level
      /\ job'.in0 = job.in0 /\ job'.in1 = job.in1
  BY <1>1, <1>2, JobAfterTurn
<1>4. job' # NoJob /\ job'.rest \subseteq job.rest
  BY <1>1, <1>3, JobIsOne
<1>5. UNCHANGED <<memVars, readers, versions, current, bg>>
  BY DEF MergeNext
<1>6. CASE drop
  BY <1>b, <1>1, <1>2, <1>3, <1>4, <1>5, <1>6
<1>7. CASE ~drop
  <2>1. out \in {next} \cup job.outputs /\ out \in {next} \cup ({job.builder} \ {0})
    BY <1>1, <1>2 DEF OpenOutput, BgInv
  <2>2. /\ tables' = Put(tables, out, IF out = next THEN {e} ELSE tables[out] \cup {e})
        /\ disk' = disk \cup {out} /\ pending' = pending \cup {out}
        /\ next' = IF out = next THEN next + 1 ELSE next
    BY <1>2, <1>7, Zenon DEF AddEntry
  <2>3. job'.outputs = job.outputs \cup {out} /\ job'.builder \in {0, out}
    BY <1>3, <1>7 DEF CloseOutput
  <2> QED BY <1>a, <1>b, <1>1, <1>3, <1>4, <1>5, <1>7, <2>1, <2>2, <2>3
<1> QED BY <1>6, <1>7

LEMMA MergeRefs ==
    ASSUME BgInv, CallInv, RefsInv, FilesInv, NEW ok \in BOOLEAN,
           StartCompaction \/ MergeNext \/ FinishMerge \/ InstallMove(ok) \/ EndMerge(ok)
    PROVE  RefsInv'
<1>0. Counted(versions, Counts)
  BY DEF RefsInv
<1>1. CASE StartCompaction
  <2>1. /\ bg.pc = "queued" /\ versions' = Ref(versions, current) /\ UNCHANGED <<readers, current>>
    BY <1>1 DEF StartCompaction, MayStart
  <2>2. PICK c \in Candidates : StartMove(c) \/ StartMerge(c)
    BY <1>1 DEF StartCompaction
  <2>3. "base" \notin DOMAIN bg /\ job = NoJob
    BY <2>1, BgFields DEF BgInv
  <2>4. CASE StartMove(c)
    BY <2>1, <2>3, <2>4, ThreadRecords, TakesRef DEF StartMove
  <2>5. CASE StartMerge(c)
    <3>1. "base" \notin DOMAIN bg' /\ job' # NoJob /\ job'.version = current
      BY <2>5, NewJobFields, ThreadRecords DEF StartMerge
    <3> QED BY <2>1, <2>3, <3>1, TakesRef
  <2> QED BY <2>2, <2>4, <2>5
<1>2. CASE MergeNext
  <2>1. UNCHANGED <<readers, versions, current, bg>> /\ SameHolders
    BY <1>2, TurnOfMerge DEF SameHolders
  <2> QED BY <1>0, <2>1, RefsKept
<1>3. CASE FinishMerge
  <2>1. /\ bg.pc = "merge" /\ UNCHANGED <<readers, versions, current, job>>
        /\ bg' = [pc |-> "mergelog", files |-> InstallCompactionResults]
    BY <1>3 DEF FinishMerge, verVars
  <2>2. SameHolders
    BY <2>1, BgFields, ThreadRecords DEF SameHolders
  <2> QED BY <1>0, <2>1, <2>2, RefsKept
<1>4. CASE InstallMove(ok)
  <2>1. /\ bg.pc = "movelog" /\ UNCHANGED <<readers, job>>
        /\ bg' \in {Idle, Queued}
        /\ IF ok THEN current' = current + 1 /\ versions' = Unref(AppendVersion(versions, bg.files), bg.base)
                 ELSE current' = current /\ versions' = Unref(versions, bg.base)
    BY <1>4, CallEnds DEF InstallMove
  <2>2. DropsRef(bg.base)
    BY <2>1, BgFields, ThreadRecords DEF DropsRef
  <2> QED BY <2>1, <2>2, DropsWithout, DropsAfterInstall
<1>5. CASE EndMerge(ok)
  <2>1. /\ bg.pc \in {"merge", "mergelog"} /\ UNCHANGED <<readers>> /\ job' = NoJob
        /\ bg' \in {Idle, Queued}
        /\ IF ok THEN current' = current + 1 /\ versions' = Unref(AppendVersion(versions, bg.files), job.version)
                 ELSE current' = current /\ versions' = Unref(versions, job.version)
    BY <1>5, CallEnds DEF EndMerge
  <2>2. DropsRef(job.version)
    BY <2>1, BgFields, ThreadRecords DEF DropsRef, BgInv
  <2> QED BY <2>1, <2>2, DropsWithout, DropsAfterInstall
<1> QED BY <1>1, <1>2, <1>3, <1>4, <1>5

LEMMA RefsStep ==
    ASSUME CompactionInv, Next
    PROVE  RefsInv'
<1>0. BgInv /\ CallInv /\ RefsInv /\ FilesInv /\ Counted(versions, Counts)
  BY DEF CompactionInv, RefsInv
<1>1. CASE QuietStep
  <2>1. MaySchedule /\ UNCHANGED <<readers, versions, current, job>>
    BY <1>0, <1>1, QuietSchedules
  <2> QED BY <1>0, <2>1, QuietKeepsHolders, RefsKept
<1>2. CASE \E r \in Readers :
              \/ \E key \in Keys \cup {Iterator}, s \in snapshots \cup {LastSequence} :
                    StartReading(r, key, s)
              \/ EndGet(r) \/ CleanupIterator(r)
              \/ \E i \in 1..LastSequence : RecordReadSample(r, hist[i])
  BY <1>0, <1>2, ReaderRefs
<1>3. CASE StartFlush \/ BuildTable \/ InstallFlush \/ FlushFails
  BY <1>0, <1>3, FlushRefs
<1>4. ASSUME NEW ok \in BOOLEAN, StartCompaction \/ MergeNext \/ FinishMerge \/ InstallMove(ok) \/ EndMerge(ok)
      PROVE  RefsInv'
  BY <1>0, <1>4, MergeRefs
<1> QED BY <1>1, <1>2, <1>3, <1>4 DEF Next, Caller, Background, QuietStep

----------------------------------------------------------------------------
(* What is written stays in memory and in tables.                          *)

LEMMA EntriesBy ==
    ASSUME EntriesInv, UNCHANGED hist, mem' \subseteq Written, imm' \subseteq Written,
           disk' \subseteq DOMAIN tables', \A f \in DOMAIN tables' : Holds(tables'[f])
    PROVE  EntriesInv'
<1>1. Written' = Written
  BY DEF Written
<1>2. \A E : Holds(E) => Holds(E)'
  BY <1>1 DEF Holds
<1> QED BY <1>1, <1>2 DEF EntriesInv, Holds

\* A table of entries that are written is added.
LEMMA EntriesPut ==
    ASSUME EntriesInv, NEW n, NEW E, Holds(E), UNCHANGED <<hist, mem, imm>>,
           tables' = Put(tables, n, E), disk' = disk \cup {n}
    PROVE  EntriesInv'
<1>1. /\ DOMAIN tables' = DOMAIN tables \cup {n}
      /\ \A f \in DOMAIN tables' : tables'[f] = IF f = n THEN E ELSE tables[f]
  BY DEF Put
<1> QED BY <1>1, EntriesBy DEF EntriesInv

LEMMA EntriesOfWrite ==
    ASSUME EntriesInv, NEW k \in Keys, NEW del \in BOOLEAN, Write(k, del)
    PROVE  EntriesInv'
<1> DEFINE e == [k |-> k, s |-> LastSequence + 1, del |-> del]
<1>1. /\ hist' = Append(hist, e) /\ mem' \subseteq mem \cup {e} /\ imm' \in {imm, mem}
      /\ UNCHANGED <<tables, disk>>
  BY DEF Write, fileVars
<1>2. hist \in Seq(Entry) /\ e \in Entry /\ e.s = Len(hist) + 1 /\ Len(hist) \in Nat
  BY DEF EntriesInv, Entry, LastSequence
<1> HIDE DEF e
<1>3. /\ hist' \in Seq(Entry) /\ Len(hist') = Len(hist) + 1 /\ hist'[Len(hist) + 1] = e
      /\ \A i \in 1..Len(hist) : hist'[i] = hist[i]
  BY <1>1, <1>2
<1>4. \A i \in 1..Len(hist') : hist'[i].s = i
  BY <1>2, <1>3 DEF EntriesInv
<1>5. Written \subseteq Written' /\ e \in Written'
  BY <1>2, <1>3 DEF Written
<1>6. \A E : Holds(E) => Holds(E)'
  BY <1>5 DEF Holds
<1>7. mem' \subseteq Written' /\ imm' \subseteq Written'
  BY <1>1, <1>5 DEF EntriesInv
<1>8. ASSUME NEW f \in DOMAIN tables' PROVE Holds(tables[f])'
  BY <1>1, <1>5 DEF EntriesInv, Holds
<1> QED BY <1>1, <1>3, <1>4, <1>7, <1>8 DEF EntriesInv

\* The steps of readers, of the caller and of the thread that change no data.
ReadingStep ==
    \E r \in Readers :
        \/ \E key \in Keys \cup {Iterator}, s \in snapshots \cup {LastSequence} :
              StartReading(r, key, s)
        \/ EndGet(r) \/ CleanupIterator(r)
        \/ \E i \in 1..LastSequence : RecordReadSample(r, hist[i])

QuietCall ==
    \/ \E lo, hi \in Keys : lo <= hi /\ CompactRange(lo, hi)
    \/ CallFlushed \/ CallSchedules \/ CallAdvances

QuietWork ==
    \/ NothingToCompact \/ SkipBackgroundWork \/ SyncFails \/ StartFlush \/ FlushFails
    \/ StartCompaction \/ FinishMerge \/ \E ok \in BOOLEAN : InstallMove(ok)

LEMMA DataStays ==
    ASSUME ReadingStep \/ QuietCall \/ QuietWork
    PROVE  UNCHANGED <<memVars, tables, disk>>
<1>1. CASE ReadingStep
  BY <1>1 DEF ReadingStep, StartReading, EndGet, CleanupIterator, RecordReadSample, fileVars
<1>2. CASE QuietCall
  BY <1>2 DEF QuietCall, CompactRange, CallFlushed, CallSchedules, CallAdvances, fileVars
<1>3. CASE NothingToCompact \/ SkipBackgroundWork \/ SyncFails \/ StartFlush \/ FlushFails
  BY <1>3 DEF NothingToCompact, SkipBackgroundWork, SyncFails, StartFlush, FlushFails, fileVars
<1>4. CASE StartCompaction \/ FinishMerge \/ \E ok \in BOOLEAN : InstallMove(ok)
  BY <1>4 DEF StartCompaction, FinishMerge, InstallMove, fileVars
<1> QED BY <1>1, <1>2, <1>3, <1>4 DEF QuietWork

LEMMA EntriesStep ==
    ASSUME CompactionInv, Next
    PROVE  EntriesInv'
<1>0. EntriesInv /\ BgInv
  BY DEF CompactionInv
<1>1. CASE \E k \in Keys, del \in BOOLEAN : Write(k, del)
  BY <1>0, <1>1, EntriesOfWrite
<1>2. CASE UNCHANGED <<memVars, tables, disk>>
  <2>1. UNCHANGED <<hist, mem, imm, tables, disk>>
    BY <1>2 DEF memVars
  <2> QED BY <1>0, <2>1, EntriesBy DEF EntriesInv
<1>3. CASE GetSnapshot \/ \E s \in snapshots : ReleaseSnapshot(s)
  <2>1. UNCHANGED <<hist, mem, imm, tables, disk>>
    BY <1>3 DEF GetSnapshot, ReleaseSnapshot, fileVars
  <2> QED BY <1>0, <2>1, EntriesBy DEF EntriesInv
<1>4. CASE CallSwitches
  <2>1. UNCHANGED <<hist, tables, disk>> /\ mem' \in {mem, {}} /\ imm' \in {imm, mem}
    BY <1>4 DEF CallSwitches, fileVars
  <2> QED BY <1>0, <2>1, EntriesBy DEF EntriesInv
<1>5. CASE BuildTable
  <2>1. Holds(imm)
    BY <1>0, <1>5 DEF BuildTable, BgInv, EntriesInv, Holds
  <2>2. /\ tables' = Put(tables, bg.number, imm) /\ disk' = disk \cup {bg.number}
        /\ UNCHANGED <<hist, mem, imm>>
    BY <1>5 DEF BuildTable, memVars
  <2> QED BY <1>0, <2>1, <2>2, EntriesPut
<1>6. CASE InstallFlush
  <2>1. UNCHANGED <<hist, mem, tables>> /\ imm' = {} /\ disk' \subseteq disk
    BY <1>6 DEF InstallFlush, DeleteObsoleteFiles
  <2> QED BY <1>0, <2>1, EntriesBy DEF EntriesInv
<1>7. CASE MergeNext
  <2>1. UNCHANGED <<hist, mem, imm>> /\ bg.pc = "merge"
    BY <1>0, <1>7, TurnOfMerge DEF memVars
  <2>2. CASE UNCHANGED <<tables, disk>>
    BY <1>0, <2>1, <2>2, EntriesBy DEF EntriesInv
  <2>3. ASSUME NEW e \in job.rest, NEW out \in {next} \cup job.outputs,
               tables' = Put(tables, out, IF out = next THEN {e} ELSE tables[out] \cup {e}),
               disk' = disk \cup {out}
        PROVE  EntriesInv'
    <3> DEFINE E == IF out = next THEN {e} ELSE tables[out] \cup {e}
    <3>1. job # NoJob /\ job.rest \subseteq Written /\ job.outputs \subseteq disk
      BY <1>0, <2>1 DEF BgInv
    <3>2. Holds(E)
      BY <1>0, <3>1 DEF EntriesInv, Holds
    <3> HIDE DEF E
    <3>3. tables' = Put(tables, out, E)
      BY <2>3 DEF E
    <3> QED BY <1>0, <2>1, <2>3, <3>2, <3>3, EntriesPut
  <2> QED BY <1>0, <1>7, <2>2, <2>3, TurnOfMerge
<1>8. ASSUME NEW ok \in BOOLEAN, EndMerge(ok)
      PROVE  EntriesInv'
  <2>1. UNCHANGED <<hist, mem, imm, tables>> /\ disk' \subseteq disk
    BY <1>8 DEF EndMerge, memVars
  <2> QED BY <1>0, <2>1, EntriesBy DEF EntriesInv
<1>9. CASE ReadingStep \/ QuietCall \/ QuietWork
  BY <1>2, <1>9, DataStays
<1> QED BY <1>1, <1>3, <1>4, <1>5, <1>6, <1>7, <1>8, <1>9
        DEF Next, Caller, Background, ReadingStep, QuietCall, QuietWork

----------------------------------------------------------------------------
(* The call of CompactRange().                                             *)

CallFields == {"pc", "level", "lo", "from", "hi", "done", "max"}

\* The caller is in CompactRange() while manual_compaction_ is set.
LEMMA ManualCall ==
    ASSUME CallInv, manual \/ call.pc \in {"switch", "flush", "range"}
    PROVE  /\ call # NoCall /\ CallFields \subseteq DOMAIN call
           /\ call.level \in 0..NumLevels - 2 /\ call.max \in 0..NumLevels - 1
<1>1. NoCall.pc = "none" /\ call.pc \in {"switch", "flush", "range"}
  BY DEF CallInv, NoCall
<1> QED BY <1>1 DEF CallInv, CallFields

LEMMA CallStep ==
    ASSUME CompactionInv, Next
    PROVE  CallInv'
<1>0. CallInv
  BY DEF CompactionInv
<1>1. CASE UNCHANGED <<manual, call>>
  BY <1>0, <1>1 DEF CallInv
<1>2. ASSUME NEW lo \in Keys, NEW hi \in Keys, CompactRange(lo, hi)
      PROVE  CallInv'
  <2> DEFINE T == {1} \cup {l \in Levels \ {0} : OverlapInLevel(tables, CurrentFiles[l], lo, hi)}
             b == NumLevels - 1
  <2>1. /\ call = NoCall /\ manual' = manual
        /\ call' = [pc |-> "switch", level |-> 0, lo |-> lo, from |-> lo, hi |-> hi, done |-> FALSE,
                    max |-> Max(T)]
    BY <1>2 DEF CompactRange, bgVars
  <2>2. T \in SUBSET Nat /\ T # {} /\ b \in Nat /\ \A y \in T : y <= b
    BY VersionsAssumption DEF Levels
  <2> HIDE DEF T
  <2>3. \E x \in T : \A y \in T : x >= y
    BY <2>2, GreatestMember
  <2>4. Max(T) \in T
    BY <2>3 DEF Max
  <2>8. PICK m \in T : m = Max(T)
    BY <2>4
  <2>9. m \in Nat /\ m <= NumLevels - 1
    BY <2>2
  <2>5. Max(T) \in 0..NumLevels - 1
    BY <2>8, <2>9, VersionsAssumption
  <2>6. call'.level \in 0..NumLevels - 2
    BY <2>1, VersionsAssumption
  <2>7. ~manual
    BY <1>0, <2>1 DEF CallInv, NoCall
  <2> QED BY <2>1, <2>5, <2>6, <2>7 DEF CallInv
<1>3. CASE CallSwitches \/ CallFlushed
  <2>1. call.pc \in {"switch", "flush"} /\ manual' = manual
    BY <1>3 DEF CallSwitches, CallFlushed, bgVars
  <2>2. ~manual
    BY <1>0, <2>1 DEF CallInv
  <2>3. PICK pc : call' = [call EXCEPT !.pc = pc]
    BY <1>3 DEF CallSwitches, CallFlushed
  <2>4. /\ call # NoCall /\ CallFields \subseteq DOMAIN call
        /\ call.level \in 0..NumLevels - 2 /\ call.max \in 0..NumLevels - 1
    BY <1>0, <2>1, ManualCall
  <2>5. CallFields \subseteq DOMAIN call' /\ call'.level = call.level /\ call'.max = call.max
    BY <2>3, <2>4 DEF CallFields
  <2> QED BY <2>1, <2>2, <2>4, <2>5 DEF CallInv, CallFields
<1>4. CASE CallSchedules
  BY <1>0, <1>4 DEF CallSchedules, CallInv
<1>5. CASE CallAdvances
  <2>1. /\ ~manual' /\ call.pc = "range"
        /\ call' = IF call.level + 1 < call.max
                   THEN [call EXCEPT !.level = @ + 1, !.from = call.lo, !.done = FALSE] ELSE NoCall
    BY <1>5 DEF CallAdvances
  <2>2. /\ call # NoCall /\ CallFields \subseteq DOMAIN call
        /\ call.level \in 0..NumLevels - 2 /\ call.max \in 0..NumLevels - 1
    BY <1>0, <2>1, ManualCall
  <2>3. CASE call.level + 1 < call.max
    <3>1. call.level + 1 \in 0..NumLevels - 2
      BY <2>2, <2>3, VersionsAssumption
    <3>2. CallFields \subseteq DOMAIN call' /\ call'.level = call.level + 1 /\ call'.max = call.max
      BY <2>1, <2>2, <2>3 DEF CallFields
    <3> QED BY <2>1, <2>2, <3>1, <3>2 DEF CallInv, CallFields
  <2>4. CASE ~(call.level + 1 < call.max)
    BY <2>1, <2>4 DEF CallInv
  <2> QED BY <2>3, <2>4
<1>6. ASSUME NEW field, NEW x, field \in {"done", "from"}, manual, ~manual',
             call' = [call EXCEPT ![field] = x]
      PROVE  CallInv'
  <2>1. /\ call # NoCall /\ CallFields \subseteq DOMAIN call
        /\ call.level \in 0..NumLevels - 2 /\ call.max \in 0..NumLevels - 1
    BY <1>0, <1>6, ManualCall
  <2>2. CallFields \subseteq DOMAIN call' /\ call'.level = call.level /\ call'.max = call.max
    BY <1>6, <2>1 DEF CallFields
  <2> QED BY <1>6, <2>1, <2>2 DEF CallInv, CallFields
<1>7. CASE NothingToCompact
  <2>1. CASE manual
    BY <1>6, <1>7, <2>1 DEF NothingToCompact
  <2>2. CASE ~manual
    BY <1>0, <1>7, <2>2 DEF NothingToCompact, CallInv
  <2> QED BY <2>1, <2>2
<1>8. ASSUME NEW ok \in BOOLEAN, EndMerge(ok)
      PROVE  CallInv'
  <2>1. ManualRest(ok) /\ (job.manual => manual)
    BY <1>8 DEF EndMerge
  <2>2. CASE job.manual
    BY <1>6, <2>1, <2>2 DEF ManualRest
  <2>3. CASE ~job.manual
    BY <1>1, <2>1, <2>3 DEF ManualRest
  <2> QED BY <2>2, <2>3
<1>9. CASE \/ \E k \in Keys, del \in BOOLEAN : Write(k, del)
           \/ GetSnapshot \/ \E s \in snapshots : ReleaseSnapshot(s)
           \/ ReadingStep
  <2>1. UNCHANGED <<manual, call>>
    BY <1>9 DEF Write, GetSnapshot, ReleaseSnapshot, ReadingStep, StartReading, EndGet,
                CleanupIterator, RecordReadSample, bgVars
  <2> QED BY <1>1, <2>1
<1>10. CASE \/ SkipBackgroundWork \/ SyncFails \/ StartFlush \/ FlushFails \/ BuildTable
            \/ InstallFlush
  <2>1. UNCHANGED <<manual, call>>
    BY <1>10 DEF SkipBackgroundWork, SyncFails, StartFlush, FlushFails, BuildTable, InstallFlush
  <2> QED BY <1>1, <2>1
<1>11. CASE \/ StartCompaction \/ MergeNext \/ FinishMerge \/ \E ok \in BOOLEAN : InstallMove(ok)
  <2>1. UNCHANGED <<manual, call>>
    BY <1>11 DEF StartCompaction, MergeNext, FinishMerge, InstallMove
  <2> QED BY <1>1, <2>1
<1> QED BY <1>2, <1>3, <1>4, <1>5, <1>7, <1>8, <1>9, <1>10, <1>11
        DEF Next, Caller, Background, ReadingStep

----------------------------------------------------------------------------
(* The state of the background thread.                                     *)

LEMMA CurrentIsThere ==
    ASSUME RefsInv, FilesInv
    PROVE  /\ current \in DOMAIN versions /\ CurrentFiles \in FileMaps
           /\ AllFiles(CurrentFiles) \subseteq disk /\ AllFiles(CurrentFiles) \subseteq Nat
<1>1. current \in DOMAIN versions
  BY HoldersThere
<1>2. CurrentFiles \in FileMaps /\ AllFiles(CurrentFiles) \subseteq disk
  BY <1>1 DEF FilesInv, Files, CurrentFiles
<1> QED BY <1>1, <1>2 DEF FileMaps, AllFiles

\* The files that the Builder puts into a version.
LEMMA SavedFiles ==
    ASSUME CurrentFiles \in FileMaps, NEW deleted, NEW level, NEW added \in SUBSET Nat
    PROVE  /\ SaveTo(deleted, level, added) \in FileMaps
           /\ AllFiles(SaveTo(deleted, level, added)) \subseteq AllFiles(CurrentFiles) \cup added
<1>1. \A l \in Levels : CurrentFiles[l] \subseteq Nat /\ CurrentFiles[l] \subseteq AllFiles(CurrentFiles)
  BY DEF FileMaps, AllFiles
<1> DEFINE v == SaveTo(deleted, level, added)
<1>2. /\ DOMAIN v = Levels
      /\ \A l \in Levels : v[l] = (CurrentFiles[l] \ deleted) \cup IF l = level THEN added ELSE {}
      /\ v = [l \in Levels |-> v[l]]
  BY DEF SaveTo
<1> HIDE DEF v
<1>3. \A l \in Levels : v[l] \subseteq Nat /\ v[l] \subseteq AllFiles(CurrentFiles) \cup added
  BY <1>1, <1>2
<1>4. v \in FileMaps
  BY <1>2, <1>3 DEF FileMaps
<1>5. AllFiles(v) \subseteq AllFiles(CurrentFiles) \cup added
  BY <1>3 DEF AllFiles
<1> QED BY <1>4, <1>5 DEF v

LEMMA QuietBg ==
    ASSUME BgInv, MaySchedule, UNCHANGED <<job, pending, disk, next>>, Written \subseteq Written',
           imm' = imm \/ bg.pc \notin {"build", "flushlog"}
    PROVE  BgInv'
<1>1. CASE bg' = bg
  BY <1>1 DEF BgInv
<1>2. CASE bg.pc \in {"idle", "queued"} /\ bg' \in {Idle, Queued}
  <2>1. bg' \in BgStates /\ bg'.pc \in {"idle", "queued"} /\ job' = NoJob /\ next' \in Nat \ {0}
    BY <1>2 DEF BgInv, BgStates, Idle, Queued
  <2> QED BY <2>1 DEF BgInv
<1> QED BY <1>1, <1>2 DEF MaySchedule

\* What a job keeps when only its thread moves on.
JobStays ==
    /\ job' = job /\ next <= next' /\ next' \in Nat \ {0}
    /\ job # NoJob => job.outputs \subseteq pending' \cap disk'

LEMMA BgMoves ==
    ASSUME BgInv, JobStays, Written \subseteq Written', bg' \in BgStates,
           bg'.pc \in {"idle", "queued", "movelog"} => job = NoJob,
           bg'.pc \in {"merge", "mergelog"} => job # NoJob,
           bg'.pc \in {"build", "flushlog"} => imm' # {},
           bg'.pc = "build" => /\ bg'.number < next'
                               /\ job # NoJob => bg'.number \notin job.outputs
    PROVE  BgInv'
<1>1. next \in Nat
  BY DEF BgInv
<1>2. job # NoJob => \A n \in job.outputs : n \in Nat /\ n < next'
  BY <1>1 DEF BgInv, JobStays
<1> QED BY <1>2 DEF BgInv, JobStays

LEMMA BgOfFlush ==
    ASSUME BgInv, RefsInv, FilesInv, StartFlush \/ BuildTable \/ InstallFlush \/ FlushFails
    PROVE  BgInv'
<1>0. /\ next \in Nat \ {0} /\ current \in Nat /\ CurrentFiles \in FileMaps
      /\ job # NoJob => job.outputs \subseteq pending \cap disk
      /\ job # NoJob => \A n \in job.outputs : n \in Nat /\ n < next
  BY CurrentIsThere DEF BgInv, RefsInv, HolderRange
<1>1. CASE StartFlush
  <2>1. /\ bg.pc \in {"queued", "merge"} /\ bg' = [pc |-> "build", number |-> next, base |-> current]
        /\ next' = next + 1 /\ pending' = pending \cup {next} /\ imm # {}
        /\ UNCHANGED <<disk, job, hist, imm>>
    BY <1>1 DEF StartFlush, memVars
  <2>2. bg' \in BgStates /\ bg'.pc = "build" /\ bg'.number = next
    BY <1>0, <2>1 DEF BgStates
  <2>3. JobStays /\ Written' = Written /\ imm' # {} /\ bg'.number < next'
        /\ (job # NoJob => bg'.number \notin job.outputs)
    BY <1>0, <2>1, <2>2 DEF JobStays, Written
  <2> QED BY <2>2, <2>3, BgMoves
<1>2. CASE BuildTable
  <2> DEFINE n == bg.number
  <2>1. /\ bg.pc = "build" /\ bg' = [pc |-> "flushlog", files |-> PlaceTable(Put(tables, n, imm), n)]
        /\ disk' = disk \cup {n} /\ pending' = pending \ {n} /\ UNCHANGED <<next, job, hist, imm>>
    BY <1>2 DEF BuildTable, memVars
  <2>2. n \in Nat /\ imm # {} /\ (job # NoJob => n \notin job.outputs)
    BY <2>1, BgFields DEF BgInv
  <2> HIDE DEF n
  <2>3. PlaceTable(Put(tables, n, imm), n) \in FileMaps
    BY <1>0, <2>2, SavedFiles DEF PlaceTable
  <2>4. bg' \in BgStates /\ bg'.pc = "flushlog"
    BY <2>1, <2>3 DEF BgStates
  <2>5. JobStays /\ Written' = Written /\ imm' # {}
    BY <1>0, <2>1, <2>2 DEF JobStays, Written
  <2> QED BY <2>4, <2>5, BgMoves
<1>3. CASE InstallFlush
  <2>1. /\ bg.pc = "flushlog" /\ UNCHANGED <<next, pending, job, hist>>
        /\ DeleteObsoleteFiles(versions', current + 1, pending)
        /\ AfterFlush({}, versions', current + 1, bg_error_)
    BY <1>3 DEF InstallFlush
  <2>2. IF job = NoJob THEN bg' \in {Idle, Queued} ELSE bg' = [pc |-> "merge"]
    BY <2>1, FlushEnds
  <2>3. bg' \in BgStates /\ IF job = NoJob THEN bg'.pc \in {"idle", "queued"} ELSE bg'.pc = "merge"
    BY <2>2 DEF BgStates, Idle, Queued
  <2>4. disk \cap pending \subseteq disk'
    BY <2>1 DEF DeleteObsoleteFiles, LiveFiles
  <2>5. JobStays /\ Written' = Written
    BY <1>0, <2>1, <2>4 DEF JobStays, Written
  <2> QED BY <2>3, <2>5, BgMoves
<1>4. CASE FlushFails
  <2>1. /\ bg.pc \in {"build", "flushlog"} /\ UNCHANGED <<next, disk, job, hist>>
        /\ pending' = IF bg.pc = "build" THEN pending \ {bg.number} ELSE pending
        /\ AfterFlush(imm, versions', current, TRUE)
    BY <1>4 DEF FlushFails, memVars
  <2>2. IF job = NoJob THEN bg' \in {Idle, Queued} ELSE bg' = [pc |-> "merge"]
    BY <2>1, FlushEnds
  <2>3. bg' \in BgStates /\ IF job = NoJob THEN bg'.pc \in {"idle", "queued"} ELSE bg'.pc = "merge"
    BY <2>2 DEF BgStates, Idle, Queued
  <2>4. JobStays /\ Written' = Written
    BY <1>0, <2>1 DEF JobStays, Written, BgInv
  <2> QED BY <2>3, <2>4, BgMoves
<1> QED BY <1>1, <1>2, <1>3, <1>4

LEMMA BgOfMerge ==
    ASSUME EntriesInv, BgInv, CallInv, RefsInv, FilesInv, NEW ok \in BOOLEAN,
           StartCompaction \/ MergeNext \/ FinishMerge \/ InstallMove(ok) \/ EndMerge(ok)
    PROVE  BgInv'
<1>0. /\ next \in Nat \ {0} /\ current \in Nat /\ CurrentFiles \in FileMaps
      /\ AllFiles(CurrentFiles) \subseteq disk /\ AllFiles(CurrentFiles) \subseteq Nat
      /\ job # NoJob => job.outputs \subseteq pending \cap disk
      /\ job # NoJob => \A n \in job.outputs : n \in Nat /\ n < next
  BY CurrentIsThere DEF BgInv, RefsInv, HolderRange
<1>1. CASE StartCompaction
  <2>1. /\ bg.pc = "queued" /\ job = NoJob /\ UNCHANGED <<disk, pending, next, hist>>
    <3>1. bg.pc = "queued"
      BY <1>1 DEF StartCompaction, MayStart
    <3>2. UNCHANGED <<memVars, fileVars>>
      BY <1>1 DEF StartCompaction
    <3> QED BY <3>1, <3>2 DEF BgInv, memVars, fileVars
  <2>2. PICK c \in Candidates : StartMove(c) \/ StartMerge(c)
    BY <1>1 DEF StartCompaction
  <2>3. c.in0 \cup c.in1 \subseteq AllFiles(CurrentFiles)
    BY <2>2, CandidatesAreFiles
  <2>4. CASE StartMove(c)
    <3>1. c.in0 \in SUBSET Nat
      BY <1>0, <2>3
    <3>2. SaveTo(c.in0, c.level + 1, c.in0) \in FileMaps
      BY <1>0, <3>1, SavedFiles
    <3>3. bg' \in BgStates /\ bg'.pc = "movelog" /\ job' = job
      BY <1>0, <2>4, <3>2 DEF StartMove, BgStates
    <3>4. JobStays /\ Written' = Written
      BY <1>0, <2>1, <3>3 DEF JobStays, Written
    <3> QED BY <2>1, <3>3, <3>4, BgMoves
  <2>5. CASE StartMerge(c)
    <3>1. bg' = [pc |-> "merge"] /\ job' = NewJob(c, manual)
      BY <2>5 DEF StartMerge
    <3>2. /\ JobFields \subseteq DOMAIN job' /\ job' # NoJob
          /\ job'.outputs = {} /\ job'.builder = 0
          /\ job'.rest = Entries(tables, c.in0 \cup c.in1)
      BY <3>1, NewJobFields
    <3>3. job'.rest \subseteq Written /\ Written' = Written
      <4>1. \A f \in c.in0 \cup c.in1 : tables[f] \subseteq Written
        BY <1>0, <2>3 DEF EntriesInv, Holds
      <4> QED BY <2>1, <3>2, <4>1 DEF Entries, Written
    <3>4. bg' \in BgStates /\ bg'.pc = "merge"
      BY <3>1 DEF BgStates
    <3> QED BY <1>0, <2>1, <3>2, <3>3, <3>4 DEF BgInv
  <2> QED BY <2>2, <2>4, <2>5
<1>2. CASE MergeNext
  <2>1. /\ bg.pc = "merge" /\ bg' = bg /\ job # NoJob /\ job' # NoJob /\ DOMAIN job' = DOMAIN job
        /\ job'.rest \subseteq job.rest /\ Written' = Written
    BY <1>2, TurnOfMerge DEF memVars, Written
  <2>2. bg' \in BgStates /\ JobFields \subseteq DOMAIN job' /\ job'.rest \subseteq Written'
    BY <2>1 DEF BgInv
  <2>3. CASE /\ UNCHANGED <<disk, pending, next>>
             /\ job'.outputs = job.outputs /\ job'.builder \in {0, job.builder}
    BY <2>1, <2>2, <2>3 DEF BgInv
  <2>4. ASSUME NEW out \in {next} \cup job.outputs,
               disk' = disk \cup {out}, pending' = pending \cup {out},
               next' = IF out = next THEN next + 1 ELSE next,
               job'.outputs = job.outputs \cup {out}, job'.builder \in {0, out}
        PROVE  BgInv'
    <3>1. next' \in Nat \ {0} /\ \A n \in job'.outputs : n \in Nat /\ n < next'
      BY <1>0, <2>1, <2>4
    <3>2. job'.outputs \subseteq pending' \cap disk' /\ job'.builder \in job'.outputs \cup {0}
      BY <1>0, <2>1, <2>4
    <3> QED BY <2>1, <2>2, <3>1, <3>2 DEF BgInv
  <2> QED BY <1>2, <2>3, <2>4, TurnOfMerge
<1>3. CASE FinishMerge
  <2>1. /\ bg.pc = "merge" /\ bg' = [pc |-> "mergelog", files |-> InstallCompactionResults]
        /\ UNCHANGED <<disk, pending, next, job, hist>>
    BY <1>3 DEF FinishMerge, fileVars, memVars
  <2>2. job # NoJob /\ job.outputs \in SUBSET Nat
    BY <1>0, <2>1 DEF BgInv
  <2>3. InstallCompactionResults \in FileMaps
    BY <1>0, <2>2, SavedFiles DEF InstallCompactionResults
  <2>4. bg' \in BgStates /\ bg'.pc = "mergelog"
    BY <2>1, <2>3 DEF BgStates
  <2>5. JobStays /\ Written' = Written
    BY <1>0, <2>1 DEF JobStays, Written
  <2> QED BY <2>2, <2>4, <2>5, BgMoves
<1>4. CASE InstallMove(ok)
  <2>1. /\ bg.pc = "movelog" /\ job = NoJob /\ UNCHANGED <<disk, pending, next, job, hist>>
        /\ bg' \in {Idle, Queued}
    BY <1>4, CallEnds DEF InstallMove, fileVars, memVars, BgInv
  <2>2. bg' \in BgStates /\ bg'.pc \in {"idle", "queued"}
    BY <2>1 DEF BgStates, Idle, Queued
  <2>3. JobStays /\ Written' = Written
    BY <1>0, <2>1 DEF JobStays, Written
  <2> QED BY <2>1, <2>2, <2>3, BgMoves
<1>5. CASE EndMerge(ok)
  <2>1. job' = NoJob /\ next' = next /\ bg' \in {Idle, Queued}
    BY <1>5, CallEnds DEF EndMerge
  <2>2. bg' \in BgStates /\ bg'.pc \in {"idle", "queued"}
    BY <2>1 DEF BgStates, Idle, Queued
  <2> QED BY <1>0, <2>1, <2>2 DEF BgInv
<1> QED BY <1>1, <1>2, <1>3, <1>4, <1>5

LEMMA BgStep ==
    ASSUME CompactionInv, Next
    PROVE  BgInv'
<1>0. EntriesInv /\ BgInv /\ CallInv /\ RefsInv /\ FilesInv
  BY DEF CompactionInv
<1>1. CASE QuietStep
  <2>1. MaySchedule /\ UNCHANGED <<job, pending, disk, next>>
    BY <1>0, <1>1, QuietSchedules
  <2>2. ASSUME NEW k \in Keys, NEW del \in BOOLEAN, Write(k, del)
        PROVE  Written \subseteq Written' /\ (imm' = imm \/ imm = {})
    <3>1. hist \in Seq(Entry) /\ \E e : hist' = Append(hist, e)
      BY <1>0, <2>2 DEF Write, EntriesInv
    <3>2. Len(hist') = Len(hist) + 1 /\ \A i \in 1..Len(hist) : hist'[i] = hist[i]
      BY <3>1
    <3>3. Written \subseteq Written'
      BY <3>1, <3>2 DEF Written
    <3> QED BY <2>2, <3>3 DEF Write
  <2>3. ASSUME ~\E k \in Keys, del \in BOOLEAN : Write(k, del)
        PROVE  Written \subseteq Written' /\ (imm' = imm \/ imm = {})
    <3>1. hist' = hist /\ (imm' = imm \/ imm = {})
      BY <1>1, <2>3 DEF QuietStep, GetSnapshot, ReleaseSnapshot, CompactRange, CallSwitches,
                        CallFlushed, CallSchedules, CallAdvances, NothingToCompact,
                        SkipBackgroundWork, SyncFails, memVars
    <3> QED BY <3>1 DEF Written
  <2>4. Written \subseteq Written' /\ (imm' = imm \/ imm = {})
    BY <2>2, <2>3
  <2>5. imm' = imm \/ bg.pc \notin {"build", "flushlog"}
    BY <1>0, <2>4 DEF BgInv
  <2> QED BY <1>0, <2>1, <2>4, <2>5, QuietBg
<1>2. CASE ReadingStep
  <2>1. MaySchedule
    BY <1>0, <1>2, ReaderRefs DEF ReadingStep
  <2>2. UNCHANGED <<job, fileVars, memVars>>
    BY <1>2 DEF ReadingStep, StartReading, EndGet, CleanupIterator, RecordReadSample, bgVars
  <2>3. UNCHANGED <<job, pending, disk, next>> /\ Written' = Written /\ imm' = imm
    BY <2>2 DEF fileVars, memVars, Written
  <2> QED BY <1>0, <2>1, <2>3, QuietBg
<1>3. CASE StartFlush \/ BuildTable \/ InstallFlush \/ FlushFails
  BY <1>0, <1>3, BgOfFlush
<1>4. ASSUME NEW ok \in BOOLEAN, StartCompaction \/ MergeNext \/ FinishMerge \/ InstallMove(ok) \/ EndMerge(ok)
      PROVE  BgInv'
  BY <1>0, <1>4, BgOfMerge
<1> QED BY <1>1, <1>2, <1>3, <1>4 DEF Next, Caller, Background, QuietStep, ReadingStep

----------------------------------------------------------------------------
(* The files of versions are there.                                        *)

\* What a step leaves of the versions there were, and the one that it adds.
OldKept ==
    \A id \in DOMAIN versions' \ {current + 1} :
        /\ id \in DOMAIN versions /\ versions'[id].files = versions[id].files
        /\ versions'[id].seek \subseteq PicksOf(versions[id].files)

NewFine ==
    current + 1 \in DOMAIN versions' =>
        /\ versions'[current + 1].files \in FileMaps
        /\ AllFiles(versions'[current + 1].files) \subseteq disk
        /\ versions'[current + 1].seek = {}

LEMMA JobThereNext ==
    ASSUME RefsInv', job' # NoJob
    PROVE  job'.version \in DOMAIN versions'
<1>1. HolderRange' /\ Counted(versions', Counts')
  BY DEF RefsInv
<1>0. PICK id : id = job'.version
  OBVIOUS
<1>2. id \in Nat
  BY <1>0, <1>1 DEF HolderRange
<1>3. IsFiniteSet(Active') /\ ReadersOf(id)' \subseteq Active'
  BY <1>1 DEF HolderRange, ReadersOf
<1>4. Cardinality(ReadersOf(id)') \in Nat
  BY <1>3, FS_Subset, FS_CardinalityType
<1>5. HoldersOf(id)' > 0
  BY <1>0, <1>4 DEF HoldersOf, One, JobHolds
<1>6. Counts'[id] = HoldersOf(id)'
  BY <1>2 DEF Counts
<1> QED BY <1>0, <1>1, <1>2, <1>5, <1>6 DEF Counted

LEMMA FilesBy ==
    ASSUME FilesInv, RefsInv, RefsInv', OldKept, NewFine,
           \A id \in DOMAIN versions' : disk \cap AllFiles(versions'[id].files) \subseteq disk',
           "files" \in DOMAIN bg' => AllFiles(bg'.files) \subseteq disk',
           job' # NoJob => /\ job'.version \in 1..current
                           /\ job'.in0 \cup job'.in1 \subseteq AllFiles(Files(job'.version))
    PROVE  FilesInv'
<1>1. current \in Nat
  BY DEF RefsInv, HolderRange
<1>2. ASSUME NEW id \in DOMAIN versions'
      PROVE  /\ versions'[id].files \in FileMaps
             /\ AllFiles(versions'[id].files) \subseteq disk'
             /\ versions'[id].seek \subseteq PicksOf(versions'[id].files)
  <2>1. CASE id = current + 1
    BY <2>1 DEF NewFine
  <2>2. CASE id # current + 1
    <3>1. /\ id \in DOMAIN versions /\ versions'[id].files = versions[id].files
          /\ versions'[id].seek \subseteq PicksOf(versions[id].files)
      BY <2>2 DEF OldKept
    <3>2. versions[id].files \in FileMaps /\ AllFiles(versions[id].files) \subseteq disk
      BY <3>1 DEF FilesInv, Files
    <3> QED BY <3>1, <3>2
  <2> QED BY <2>1, <2>2
<1>3. ASSUME job' # NoJob
      PROVE  job'.in0 \cup job'.in1 \subseteq AllFiles(versions'[job'.version].files)
  <2>1. job'.version \in DOMAIN versions' \ {current + 1}
    BY <1>1, <1>3, JobThereNext
  <2> QED BY <1>3, <2>1 DEF OldKept, Files
<1> QED BY <1>2, <1>3 DEF FilesInv, Files

\* A job that stays keeps its inputs.
LEMMA JobInputs ==
    ASSUME FilesInv, RefsInv, job' = NoJob \/ (job # NoJob /\ job'.version = job.version
                                                /\ job'.in0 = job.in0 /\ job'.in1 = job.in1)
    PROVE  job' # NoJob => /\ job'.version \in 1..current
                           /\ job'.in0 \cup job'.in1 \subseteq AllFiles(Files(job'.version))
BY DEF FilesInv, RefsInv, HolderRange

LEMMA UnrefKeeps ==
    ASSUME NEW vs, \A x \in DOMAIN vs : DOMAIN vs[x] = VersionFields, NEW id
    PROVE  Keeps(Unref(vs, id), vs)
<1>1. CASE vs[id].refs > 1
  <2>1. Unref(vs, id) = [vs EXCEPT ![id].refs = vs[id].refs - 1]
    BY <1>1 DEF Unref
  <2>2. ASSUME NEW x \in DOMAIN vs
        PROVE  LET ws == Unref(vs, id) IN ws[x].files = vs[x].files /\ ws[x].seek = vs[x].seek
    <3>1. Unref(vs, id)[x] = IF x = id THEN [vs[x] EXCEPT !.refs = vs[x].refs - 1] ELSE vs[x]
      BY <2>1
    <3> QED BY <3>1 DEF VersionFields
  <2> QED BY <2>1, <2>2 DEF Keeps
<1>2. CASE ~(vs[id].refs > 1)
  <2>1. Unref(vs, id) = [x \in DOMAIN vs \ {id} |-> vs[x]]
    BY <1>2 DEF Unref
  <2> QED BY <2>1 DEF Keeps
<1> QED BY <1>1, <1>2

\* Versions that are kept, with another seek perhaps.
LEMMA KeptAreFine ==
    ASSUME FilesInv, RefsInv, NEW vs, DOMAIN vs = DOMAIN versions,
           \A x \in DOMAIN vs : vs[x].files = versions[x].files
                                /\ vs[x].seek \subseteq PicksOf(versions[x].files),
           Keeps(versions', vs)
    PROVE  OldKept /\ NewFine
<1>1. current + 1 \notin DOMAIN versions'
  <2>1. Counts[current + 1] = 0
    BY NextIsFresh
  <2> QED BY <2>1 DEF RefsInv, Counted, Keeps
<1> QED BY <1>1 DEF OldKept, NewFine, Keeps

LEMMA SameAreFine ==
    ASSUME FilesInv, RefsInv, Keeps(versions', versions)
    PROVE  OldKept /\ NewFine
<1>1. \A x \in DOMAIN versions : versions[x].seek \subseteq PicksOf(versions[x].files)
  BY DEF FilesInv, Files
<1> QED BY <1>1, KeptAreFine

LEMMA AppendedAreFine ==
    ASSUME FilesInv, RefsInv, NEW files \in FileMaps, AllFiles(files) \subseteq disk,
           \/ versions' = AppendVersion(versions, files)
           \/ \E x : versions' = Unref(AppendVersion(versions, files), x)
    PROVE  OldKept /\ NewFine
<1> DEFINE ws == AppendVersion(versions, files)
           d  == [[Counts EXCEPT ![current] = @ - 1] EXCEPT ![current + 1] = 1]
<1>1. current \in DOMAIN versions /\ current \in Nat /\ Counts \in [Nat -> Nat]
      /\ Counts[current + 1] = 0 /\ Counted(versions, Counts)
  BY HoldersThere, NextIsFresh, CountsNat DEF RefsInv, HolderRange
<1>2. /\ Counted(ws, d) /\ current + 1 \in DOMAIN ws /\ ws[current + 1].files = files
      /\ ws[current + 1].seek = {}
      /\ \A id \in DOMAIN ws \ {current + 1} :
            id \in DOMAIN versions /\ ws[id].files = versions[id].files
            /\ ws[id].seek = versions[id].seek
  BY <1>1, AppendCounted
<1> HIDE DEF ws, d
<1>3. \A x \in DOMAIN ws : DOMAIN ws[x] = VersionFields
  BY <1>2 DEF Counted
<1>4. Keeps(versions', ws)
  <2>1. CASE versions' = ws
    BY <2>1 DEF Keeps
  <2>2. CASE \E x : versions' = Unref(ws, x)
    BY <1>3, <2>2, UnrefKeeps
  <2> QED BY <2>1, <2>2 DEF ws
<1>5. \A x \in DOMAIN versions : versions[x].seek \subseteq PicksOf(versions[x].files)
  BY DEF FilesInv, Files
<1> QED BY <1>2, <1>4, <1>5 DEF OldKept, NewFine, Keeps

\* A step that schedules at most.
LEMMA QuietFiles ==
    ASSUME BgInv, RefsInv, RefsInv', FilesInv, OldKept, NewFine, MaySchedule, UNCHANGED <<job, disk>>
    PROVE  FilesInv'
<1>1. "files" \in DOMAIN bg' => AllFiles(bg'.files) \subseteq disk'
  BY ThreadRecords DEF MaySchedule, FilesInv
<1> QED BY <1>1, FilesBy, JobInputs DEF FilesInv

LEMMA FilesOfReading ==
    ASSUME EntriesInv, BgInv, RefsInv, RefsInv', FilesInv, ReadingStep
    PROVE  FilesInv'
<1>1. PICK r \in Readers :
        \/ \E key \in Keys \cup {Iterator}, s \in snapshots \cup {LastSequence} :
              StartReading(r, key, s)
        \/ EndGet(r) \/ CleanupIterator(r)
        \/ \E i \in 1..LastSequence : RecordReadSample(r, hist[i])
  BY DEF ReadingStep
<1>2. MaySchedule
  BY <1>1, ReaderRefs
<1>3. UNCHANGED <<job, disk>>
  BY <1>1 DEF StartReading, EndGet, CleanupIterator, RecordReadSample, bgVars, fileVars
<1>4. Counted(versions, Counts) /\ Counts \in [Nat -> Nat]
      /\ \A x \in DOMAIN versions : DOMAIN versions[x] = VersionFields
  BY CountsNat DEF RefsInv, Counted
<1>5. ASSUME NEW id \in DOMAIN versions, NEW found \in SUBSET PicksOf(Files(id))
      PROVE  LET vs == WithSeek(versions, id, found)
             IN  /\ DOMAIN vs = DOMAIN versions
                 /\ \A x \in DOMAIN vs : /\ vs[x].files = versions[x].files
                                         /\ vs[x].seek \subseteq PicksOf(versions[x].files)
                                         /\ DOMAIN vs[x] = VersionFields
  <2> DEFINE vs == WithSeek(versions, id, found)
  <2>1. /\ Counted(vs, Counts) /\ DOMAIN vs = DOMAIN versions
        /\ \A x \in DOMAIN versions :
              /\ vs[x].files = versions[x].files
              /\ vs[x].seek = versions[x].seek \/ (x = id /\ vs[x].seek \subseteq found)
    BY <1>4, WithSeekCounted
  <2>2. \A x \in DOMAIN versions : versions[x].seek \subseteq PicksOf(versions[x].files)
    BY DEF FilesInv, Files
  <2> HIDE DEF vs
  <2> QED BY <2>1, <2>2 DEF Counted, Files, vs
<1>6. ASSUME NEW key, NEW s, StartReading(r, key, s) PROVE OldKept /\ NewFine
  <2>1. versions' = Ref(versions, current) /\ current \in DOMAIN versions
    BY <1>6, CurrentIsThere DEF StartReading, TakeReferences
  <2>2. Keeps(versions', versions)
    BY <1>4, <2>1, RefCounted
  <2> QED BY <2>2, SameAreFine
<1>7. ASSUME EndGet(r) PROVE OldKept /\ NewFine
  <2> DEFINE t == readers[r]
             inMem == Newest(t.mem, t.key, t.s) # {} \/ Newest(t.imm, t.key, t.s) # {}
             file == IF inMem THEN {} ELSE VersionGet(tables, Files(t.version), t.key, t.s).seek
             vs == WithSeek(versions, t.version, file)
  <2>1. versions' = Unref(vs, t.version) /\ t.key \in Keys
    BY <1>7, Zenon DEF EndGet
  <2>2. t.version \in DOMAIN versions
    <3>1. t.key # 0 /\ NoReader.key = 0
      BY <2>1, VersionsAssumption DEF Keys, NoReader
    <3> QED BY <3>1, HoldersThere DEF Active
  <2>3. Files(t.version) \in FileMaps /\ AllFiles(Files(t.version)) \subseteq disk
    BY <2>2 DEF FilesInv, Files
  <2>4. VersionGet(tables, Files(t.version), t.key, t.s).seek \subseteq PicksOf(Files(t.version))
    BY <2>3, GetChargesPick
  <2>5. file \in SUBSET PicksOf(Files(t.version))
    BY <2>4
  <2> HIDE DEF t, file
  <2>6. /\ DOMAIN vs = DOMAIN versions
        /\ \A x \in DOMAIN vs : /\ vs[x].files = versions[x].files
                                /\ vs[x].seek \subseteq PicksOf(versions[x].files)
                                /\ DOMAIN vs[x] = VersionFields
    BY <1>5, <2>2, <2>5
  <2> HIDE DEF vs
  <2>7. Keeps(versions', vs)
    BY <2>1, <2>6, UnrefKeeps
  <2> QED BY <2>6, <2>7, KeptAreFine
<1>8. ASSUME CleanupIterator(r) PROVE OldKept /\ NewFine
  <2>1. Keeps(versions', versions)
    BY <1>4, <1>8, UnrefKeeps DEF CleanupIterator
  <2> QED BY <2>1, SameAreFine
<1>9. ASSUME NEW e, RecordReadSample(r, e) PROVE OldKept /\ NewFine
  <2> DEFINE file == ReadSample(tables, CurrentFiles, e)
  <2>1. versions' = WithSeek(versions, current, file)
    BY <1>9, Zenon DEF RecordReadSample
  <2>2. file \in SUBSET PicksOf(Files(current)) /\ current \in DOMAIN versions
    BY CurrentIsThere, SampleChargesPick DEF CurrentFiles
  <2> HIDE DEF file
  <2>3. /\ DOMAIN versions' = DOMAIN versions
        /\ \A x \in DOMAIN versions' : /\ versions'[x].files = versions[x].files
                                       /\ versions'[x].seek \subseteq PicksOf(versions[x].files)
    BY <1>5, <2>1, <2>2
  <2>4. current + 1 \notin DOMAIN versions
    BY NextIsFresh DEF RefsInv, Counted
  <2> QED BY <2>3, <2>4 DEF OldKept, NewFine
<1> QED BY <1>1, <1>2, <1>3, <1>6, <1>7, <1>8, <1>9, QuietFiles

LEMMA FilesOfFlush ==
    ASSUME BgInv, RefsInv, RefsInv', FilesInv, StartFlush \/ BuildTable \/ InstallFlush \/ FlushFails
    PROVE  FilesInv'
<1>0. /\ Counts \in [Nat -> Nat] /\ Counted(versions, Counts) /\ current \in DOMAIN versions
      /\ CurrentFiles \in FileMaps /\ AllFiles(CurrentFiles) \subseteq disk
      /\ \A x \in DOMAIN versions : DOMAIN versions[x] = VersionFields
  BY CountsNat, CurrentIsThere DEF RefsInv, Counted
<1>1. CASE StartFlush
  <2>1. /\ bg' = [pc |-> "build", number |-> next, base |-> current]
        /\ versions' = Ref(versions, current) /\ UNCHANGED <<job, disk>>
    BY <1>1 DEF StartFlush
  <2>2. Keeps(versions', versions)
    BY <1>0, <2>1, RefCounted
  <2>3. OldKept /\ NewFine
    BY <2>2, SameAreFine
  <2>4. "files" \notin DOMAIN bg'
    BY <2>1
  <2> QED BY <2>1, <2>3, <2>4, FilesBy, JobInputs DEF FilesInv
<1>2. CASE BuildTable
  <2> DEFINE n == bg.number
             files == PlaceTable(Put(tables, n, imm), n)
  <2>1. /\ bg.pc = "build" /\ bg' = [pc |-> "flushlog", files |-> files]
        /\ disk' = disk \cup {n} /\ versions' = Unref(versions, bg.base) /\ job' = job
    BY <1>2 DEF BuildTable
  <2>2. n \in Nat
    BY <2>1, BgFields
  <2>3. AllFiles(files) \subseteq AllFiles(CurrentFiles) \cup {n}
    BY <1>0, <2>2, SavedFiles DEF PlaceTable
  <2>4. OldKept /\ NewFine
    BY <1>0, <2>1, UnrefKeeps, SameAreFine
  <2> HIDE DEF files
  <2>5. AllFiles(bg'.files) \subseteq disk'
    BY <1>0, <2>1, <2>3
  <2>6. \A id \in DOMAIN versions' : disk \cap AllFiles(versions'[id].files) \subseteq disk'
    BY <2>1
  <2> QED BY <2>1, <2>4, <2>5, <2>6, FilesBy, JobInputs DEF FilesInv
<1>3. CASE InstallFlush
  <2>1. /\ bg.pc = "flushlog" /\ versions' = AppendVersion(versions, bg.files) /\ job' = job
        /\ DeleteObsoleteFiles(versions', current + 1, pending)
        /\ AfterFlush({}, versions', current + 1, bg_error_)
    BY <1>3 DEF InstallFlush
  <2>2. bg.files \in FileMaps /\ AllFiles(bg.files) \subseteq disk
    BY <2>1, BgFields DEF FilesInv
  <2>3. OldKept /\ NewFine
    BY <2>1, <2>2, AppendedAreFine
  <2>4. "files" \notin DOMAIN bg'
    BY <2>1, FlushEnds, ThreadRecords
  <2>5. \A id \in DOMAIN versions' : disk \cap AllFiles(versions'[id].files) \subseteq disk'
    BY <2>1 DEF DeleteObsoleteFiles, LiveFiles
  <2> QED BY <2>1, <2>3, <2>4, <2>5, FilesBy, JobInputs DEF FilesInv
<1>4. CASE FlushFails
  <2>1. /\ versions' = Unref(versions, bg.base) \/ versions' = versions
        /\ UNCHANGED <<job, disk>> /\ AfterFlush(imm, versions', current, TRUE)
    BY <1>4 DEF FlushFails
  <2>2. Keeps(versions', versions)
    BY <1>0, <2>1, UnrefKeeps DEF Keeps
  <2>3. OldKept /\ NewFine
    BY <2>2, SameAreFine
  <2>4. "files" \notin DOMAIN bg'
    BY <2>1, FlushEnds, ThreadRecords
  <2> QED BY <2>1, <2>3, <2>4, FilesBy, JobInputs DEF FilesInv
<1> QED BY <1>1, <1>2, <1>3, <1>4

LEMMA FilesOfMerge ==
    ASSUME BgInv, CallInv, RefsInv, RefsInv', FilesInv, NEW ok \in BOOLEAN,
           StartCompaction \/ MergeNext \/ FinishMerge \/ InstallMove(ok) \/ EndMerge(ok)
    PROVE  FilesInv'
<1>0. /\ Counts \in [Nat -> Nat] /\ Counted(versions, Counts) /\ current \in DOMAIN versions
      /\ CurrentFiles \in FileMaps /\ AllFiles(CurrentFiles) \subseteq disk
      /\ AllFiles(CurrentFiles) \subseteq Nat /\ current \in 1..current
      /\ \A x \in DOMAIN versions : DOMAIN versions[x] = VersionFields
  BY CountsNat, CurrentIsThere DEF RefsInv, Counted, HolderRange
<1>1. CASE StartCompaction
  <2>1. versions' = Ref(versions, current) /\ disk' = disk
    BY <1>1 DEF StartCompaction, fileVars
  <2>2. OldKept /\ NewFine
    BY <1>0, <2>1, RefCounted, SameAreFine
  <2>3. PICK c \in Candidates : StartMove(c) \/ StartMerge(c)
    BY <1>1 DEF StartCompaction
  <2>4. c.in0 \cup c.in1 \subseteq AllFiles(CurrentFiles)
    BY <2>3, CandidatesAreFiles
  <2>5. CASE StartMove(c)
    <3> DEFINE files == SaveTo(c.in0, c.level + 1, c.in0)
    <3>1. bg' = [pc |-> "movelog", base |-> current, files |-> files] /\ job' = job
      BY <2>5 DEF StartMove
    <3>2. AllFiles(files) \subseteq AllFiles(CurrentFiles) \cup c.in0
      BY <1>0, <2>4, SavedFiles
    <3> HIDE DEF files
    <3>3. AllFiles(bg'.files) \subseteq disk'
      BY <1>0, <2>1, <2>4, <3>1, <3>2
    <3> QED BY <2>1, <2>2, <3>1, <3>3, FilesBy, JobInputs DEF FilesInv
  <2>6. CASE StartMerge(c)
    <3>1. "files" \notin DOMAIN bg' /\ job' = NewJob(c, manual)
      BY <2>6, ThreadRecords DEF StartMerge
    <3>2. job'.version = current /\ job'.in0 = c.in0 /\ job'.in1 = c.in1
      BY <3>1, NewJobFields
    <3>3. job'.version \in 1..current /\ job'.in0 \cup job'.in1 \subseteq AllFiles(Files(job'.version))
      BY <1>0, <2>4, <3>2 DEF CurrentFiles
    <3> QED BY <2>1, <2>2, <3>1, <3>3, FilesBy DEF FilesInv
  <2> QED BY <2>3, <2>5, <2>6
<1>2. CASE MergeNext
  <2>1. /\ bg.pc = "merge" /\ UNCHANGED <<versions, bg>> /\ disk \subseteq disk'
        /\ job # NoJob /\ job'.version = job.version /\ job'.in0 = job.in0 /\ job'.in1 = job.in1
    BY <1>2, TurnOfMerge
  <2>2. OldKept /\ NewFine
    BY <2>1, SameAreFine DEF Keeps
  <2>3. "files" \notin DOMAIN bg'
    BY <2>1, BgFields
  <2>4. \A id \in DOMAIN versions' : disk \cap AllFiles(versions'[id].files) \subseteq disk'
    BY <2>1
  <2>5. job' # NoJob => /\ job'.version \in 1..current
                        /\ job'.in0 \cup job'.in1 \subseteq AllFiles(Files(job'.version))
    BY <2>1, JobInputs
  <2> QED BY <2>2, <2>3, <2>4, <2>5, FilesBy
<1>3. CASE FinishMerge
  <2>1. /\ bg.pc = "merge" /\ bg' = [pc |-> "mergelog", files |-> InstallCompactionResults]
        /\ UNCHANGED <<versions, job, disk>>
    BY <1>3 DEF FinishMerge, fileVars, verVars
  <2>2. OldKept /\ NewFine
    BY <2>1, SameAreFine DEF Keeps
  <2>3. job.outputs \in SUBSET Nat /\ job.outputs \subseteq disk
    BY <2>1 DEF BgInv
  <2>4. AllFiles(InstallCompactionResults) \subseteq disk
    BY <1>0, <2>3, SavedFiles DEF InstallCompactionResults
  <2> QED BY <2>1, <2>2, <2>4, FilesBy, JobInputs DEF FilesInv
<1>4. ASSUME NEW x, NEW kept, versions' = Unref(kept, x),
             kept = IF ok THEN AppendVersion(versions, bg.files) ELSE versions,
             ok => bg.pc \in {"movelog", "mergelog"}
      PROVE  OldKept /\ NewFine
  <2>1. CASE ok
    <3>1. bg.files \in FileMaps /\ AllFiles(bg.files) \subseteq disk
      BY <1>4, <2>1, BgFields DEF FilesInv
    <3> QED BY <1>4, <2>1, <3>1, AppendedAreFine
  <2>2. CASE ~ok
    BY <1>0, <1>4, <2>2, UnrefKeeps, SameAreFine
  <2> QED BY <2>1, <2>2
<1>5. CASE InstallMove(ok)
  <2>1. /\ bg.pc = "movelog" /\ bg' \in {Idle, Queued} /\ UNCHANGED <<job, disk>>
        /\ versions' = Unref(IF ok THEN AppendVersion(versions, bg.files) ELSE versions, bg.base)
    BY <1>5, CallEnds DEF InstallMove, fileVars
  <2>2. OldKept /\ NewFine
    BY <1>4, <2>1
  <2>3. "files" \notin DOMAIN bg'
    BY <2>1, ThreadRecords
  <2> QED BY <2>1, <2>2, <2>3, FilesBy, JobInputs DEF FilesInv
<1>6. CASE EndMerge(ok)
  <2>1. /\ ok => bg.pc = "mergelog"
        /\ bg' \in {Idle, Queued} /\ job' = NoJob
        /\ versions' = Unref(IF ok THEN AppendVersion(versions, bg.files) ELSE versions, job.version)
        /\ \E cur : disk' = disk \/ disk' = disk \cap LiveFiles(versions', cur, pending')
    BY <1>6, CallEnds DEF EndMerge
  <2>2. OldKept /\ NewFine
    BY <1>4, <2>1
  <2>3. "files" \notin DOMAIN bg'
    BY <2>1, ThreadRecords
  <2>4. \A id \in DOMAIN versions' : disk \cap AllFiles(versions'[id].files) \subseteq disk'
    BY <2>1 DEF LiveFiles
  <2> QED BY <2>1, <2>2, <2>3, <2>4, FilesBy
<1> QED BY <1>1, <1>2, <1>3, <1>5, <1>6

LEMMA FilesStep ==
    ASSUME CompactionInv, Next, RefsInv'
    PROVE  FilesInv'
<1>0. EntriesInv /\ BgInv /\ CallInv /\ RefsInv /\ FilesInv
  BY DEF CompactionInv
<1>1. CASE QuietStep
  <2>1. MaySchedule /\ UNCHANGED <<versions, job, disk>>
    BY <1>0, <1>1, QuietSchedules
  <2>2. OldKept /\ NewFine
    BY <1>0, <2>1, SameAreFine DEF Keeps
  <2> QED BY <1>0, <2>1, <2>2, QuietFiles
<1>2. CASE ReadingStep
  BY <1>0, <1>2, FilesOfReading
<1>3. CASE StartFlush \/ BuildTable \/ InstallFlush \/ FlushFails
  BY <1>0, <1>3, FilesOfFlush
<1>4. ASSUME NEW ok \in BOOLEAN, StartCompaction \/ MergeNext \/ FinishMerge \/ InstallMove(ok) \/ EndMerge(ok)
      PROVE  FilesInv'
  BY <1>0, <1>4, FilesOfMerge
<1> QED BY <1>1, <1>2, <1>3, <1>4 DEF Next, Caller, Background, QuietStep, ReadingStep

----------------------------------------------------------------------------
(* The theorems.                                                           *)

LEMMA CompactionInit ==
    ASSUME Init
    PROVE  CompactionInv
<1>0. NumLevels \in Nat /\ NumLevels >= 2
  BY VersionsAssumption
<1>1. EntriesInv
  <2>1. hist = <<>> /\ mem = {} /\ imm = {} /\ disk = {} /\ tables = <<>>
    BY DEF Init
  <2> QED BY <2>1 DEF EntriesInv
<1>2. bg = Idle /\ job = NoJob /\ next = 1 /\ call = NoCall /\ ~manual /\ current = 1
      /\ readers = [r \in Readers |-> NoReader]
      /\ versions = [id \in {1} |-> [files |-> NoFiles, refs |-> 1, seek |-> {}]]
  BY DEF Init
<1>3. BgInv
  <2>1. bg \in BgStates /\ bg.pc = "idle"
    BY <1>2 DEF BgStates, Idle
  <2> QED BY <1>2, <2>1 DEF BgInv
<1>4. CallInv
  BY <1>2 DEF CallInv
<1>5. RefsInv
  <2>1. Active = {}
    BY <1>2 DEF Active
  <2>2. "base" \notin DOMAIN bg
    BY <1>2, ThreadRecords
  <2>3. HolderRange
    BY <1>2, <2>1, <2>2, FS_EmptySet DEF HolderRange
  <2>4. \A id \in Nat : HoldersOf(id) = IF id = 1 THEN 1 ELSE 0
    <3>1. \A id \in Nat : ReadersOf(id) = {} /\ ~BgHolds(id) /\ ~JobHolds(id)
      BY <1>2, <2>1, <2>2 DEF ReadersOf, BgHolds, JobHolds
    <3>2. Cardinality({}) = 0
      BY FS_EmptySet
    <3> QED BY <1>2, <3>1, <3>2 DEF HoldersOf, One
  <2>5. Counted(versions, Counts)
    <3>1. \A id \in Nat : Counts[id] = IF id = 1 THEN 1 ELSE 0
      BY <2>4 DEF Counts
    <3> HIDE DEF Counts
    <3>2. {id \in Nat : Counts[id] > 0} = {1}
      BY <3>1
    <3> QED BY <1>2, <3>1, <3>2 DEF Counted, VersionFields
  <2> QED BY <2>3, <2>5 DEF RefsInv
<1>6. FilesInv
  <2>1. NoFiles \in FileMaps /\ AllFiles(NoFiles) = {}
    BY DEF NoFiles, FileMaps, AllFiles
  <2>2. "files" \notin DOMAIN bg
    BY <1>2, ThreadRecords
  <2> QED BY <1>2, <2>1, <2>2 DEF FilesInv, Files
<1> QED BY <1>1, <1>3, <1>4, <1>5, <1>6 DEF CompactionInv

LEMMA CompactionStutters ==
    ASSUME CompactionInv, UNCHANGED vars
    PROVE  CompactionInv'
<1>1. UNCHANGED <<hist, mem, imm, readers, tables, disk, pending, next, versions, current, manual,
                  call, bg, job>>
  BY DEF vars, memVars, fileVars, verVars, bgVars
<1>2. Written' = Written /\ Active' = Active
  BY <1>1 DEF Written, Active
<1>3. EntriesInv' /\ BgInv' /\ CallInv'
  BY <1>1, <1>2 DEF CompactionInv, EntriesInv, BgInv, CallInv, Holds
<1>4. SameHolders /\ Counted(versions', Counts) /\ RefsInv
  BY <1>1 DEF CompactionInv, RefsInv, SameHolders
<1>5. RefsInv'
  BY <1>4, RefsKept
<1>6. FilesInv'
  BY <1>1 DEF CompactionInv, FilesInv, Files
<1> QED BY <1>3, <1>5, <1>6 DEF CompactionInv

(* The invariant that the others follow from: versions are counted by those
   who hold them (Version::Ref/Unref), the files of every version, of the edit
   to be installed and of the merge under way are on disk, and what they hold
   has been written. *)
THEOREM CompactionInvariant == Spec => []CompactionInv
<1>1. Init => CompactionInv
  BY CompactionInit
<1>2. CompactionInv /\ [Next]_vars => CompactionInv'
  BY CompactionStutters, EntriesStep, BgStep, CallStep, RefsStep, FilesStep DEF CompactionInv
<1> QED BY <1>1, <1>2, PTL DEF Spec

LEMMA InvariantGivesFiles ==
    ASSUME CompactionInv
    PROVE  FilesAreThere
<1>0. RefsInv /\ FilesInv /\ BgInv /\ HolderRange /\ DOMAIN versions \subseteq Nat
  BY HoldersThere DEF CompactionInv, RefsInv
<1> DEFINE held == {current} \cup {readers[r].version : r \in {x \in Readers : readers[x] # NoReader}}
                    \cup (IF "base" \in DOMAIN bg THEN {bg.base} ELSE {})
                    \cup (IF job # NoJob THEN {job.version} ELSE {})
<1>1. held \subseteq Nat
  BY <1>0 DEF HolderRange, Active
<1>2. \A id \in Nat : id \in held <=> \/ current = id \/ BgHolds(id) \/ JobHolds(id)
                                      \/ \E r \in Active : readers[r].version = id
  BY DEF Active, BgHolds, JobHolds
<1>3. DOMAIN versions = held
  BY <1>0, <1>1, <1>2, HeldIsThere
<1>4. \A id \in DOMAIN versions : AllFiles(Files(id)) \subseteq disk
  BY <1>0 DEF FilesInv
<1>5. job # NoJob => job.in0 \cup job.in1 \cup job.outputs \subseteq disk
  BY <1>0, <1>4, HoldersThere DEF FilesInv, BgInv
<1> QED BY <1>0, <1>3, <1>4, <1>5 DEF FilesAreThere, FilesInv

(* No file is deleted that a version in use, a merge or an edit needs, and a
   version is in the list exactly as long as somebody holds it. *)
THEOREM FilesAreAlwaysThere == Spec => []FilesAreThere
<1>1. CompactionInv => FilesAreThere
  BY InvariantGivesFiles
<1> QED BY <1>1, CompactionInvariant, PTL

\* MaybeScheduleCompaction() leaves no work unscheduled.
LEMMA WorkBy ==
    ASSUME NEW b, NEW vs, tables' = tables,
           versions'[current'].files = vs[current'].files,
           versions'[current'].seek = vs[current'].seek,
           bg' = MaybeScheduleCompaction(b, imm', manual', vs, current', bg_error_')
    PROVE  WorkIsScheduled'
<1>1. NeedsCompaction(versions, current)' =
         (Finalize(tables, vs[current'].files) # {} \/ vs[current'].seek # {})
  BY DEF NeedsCompaction
<1>2. Queued # Idle
  BY ThreadRecords
<1>3. ~bg_error_' /\ (imm' # {} \/ manual' \/ NeedsCompaction(versions, current)') => bg' # Idle
  BY <1>1, <1>2 DEF MaybeScheduleCompaction, NeedsCompaction, Queued
<1> QED BY <1>3 DEF WorkIsScheduled

\* Nothing that asks for work changes.
LEMMA WorkStays ==
    ASSUME WorkIsScheduled, UNCHANGED <<tables, imm, current, bg, bg_error_>>, manual' => manual,
           versions'[current].files = versions[current].files,
           versions'[current].seek = versions[current].seek
    PROVE  WorkIsScheduled'
BY DEF WorkIsScheduled, NeedsCompaction

LEMMA CurrentThereNext ==
    ASSUME RefsInv'
    PROVE  current' \in DOMAIN versions'
<1>1. HolderRange' /\ Counted(versions', Counts')
  BY DEF RefsInv
<1>0. PICK id : id = current'
  OBVIOUS
<1>2. id \in Nat
  BY <1>0, <1>1 DEF HolderRange
<1>3. IsFiniteSet(Active') /\ ReadersOf(id)' \subseteq Active'
  BY <1>1 DEF HolderRange, ReadersOf
<1>4. Cardinality(ReadersOf(id)') \in Nat
  BY <1>3, FS_Subset, FS_CardinalityType
<1>5. HoldersOf(id)' > 0
  BY <1>0, <1>4 DEF HoldersOf, One
<1>6. Counts'[id] = HoldersOf(id)'
  BY <1>2 DEF Counts
<1> QED BY <1>0, <1>1, <1>2, <1>5, <1>6 DEF Counted

LEMMA WorkOfReading ==
    ASSUME CompactionInv, RefsInv', WorkIsScheduled, ReadingStep
    PROVE  WorkIsScheduled'
<1>0. /\ RefsInv /\ Counted(versions, Counts) /\ Counts \in [Nat -> Nat] /\ current \in DOMAIN versions
      /\ \A x \in DOMAIN versions : DOMAIN versions[x] = VersionFields
  BY HoldersThere, CountsNat DEF CompactionInv, RefsInv, Counted
<1>1. PICK r \in Readers :
        \/ \E key \in Keys \cup {Iterator}, s \in snapshots \cup {LastSequence} :
              StartReading(r, key, s)
        \/ EndGet(r) \/ CleanupIterator(r)
        \/ \E i \in 1..LastSequence : RecordReadSample(r, hist[i])
  BY DEF ReadingStep
<1>2. UNCHANGED <<tables, imm, current, manual, bg_error_>>
  BY <1>1 DEF StartReading, EndGet, CleanupIterator, RecordReadSample, bgVars, fileVars, memVars
<1>3. current \in DOMAIN versions'
  BY <1>2, CurrentThereNext
<1>4. ASSUME Keeps(versions', versions), bg' = bg
      PROVE  WorkIsScheduled'
  BY <1>2, <1>3, <1>4, WorkStays DEF Keeps
<1>5. ASSUME NEW key, NEW s, StartReading(r, key, s) PROVE WorkIsScheduled'
  <2>1. Keeps(versions', versions) /\ bg' = bg
    BY <1>0, <1>5, RefCounted DEF StartReading, TakeReferences, bgVars
  <2> QED BY <1>4, <2>1
<1>6. CASE CleanupIterator(r)
  <2>1. Keeps(versions', versions) /\ bg' = bg
    BY <1>0, <1>6, UnrefKeeps DEF CleanupIterator, bgVars
  <2> QED BY <1>4, <2>1
<1>7. ASSUME NEW vs, Keeps(versions', vs), vs # versions,
             bg' = MaybeScheduleCompaction(bg, imm, manual, vs, current, bg_error_)
      PROVE  WorkIsScheduled'
  <2>1. versions'[current'].files = vs[current'].files /\ versions'[current'].seek = vs[current'].seek
    BY <1>2, <1>3, <1>7 DEF Keeps
  <2>2. bg' = MaybeScheduleCompaction(bg, imm', manual', vs, current', bg_error_')
    BY <1>2, <1>7
  <2> QED BY <1>2, <2>1, <2>2, WorkBy
<1>8. CASE EndGet(r)
  <2>1. PICK file : LET vs == WithSeek(versions, readers[r].version, file)
                    IN  /\ versions' = Unref(vs, readers[r].version)
                        /\ bg' = IF vs = versions THEN bg
                                 ELSE MaybeScheduleCompaction(bg, imm, manual, vs, current, bg_error_)
    BY <1>8 DEF EndGet
  <2> DEFINE vs == WithSeek(versions, readers[r].version, file)
  <2>2. readers[r].version \in DOMAIN versions
    <3>1. readers[r].key # 0 /\ NoReader.key = 0
      BY <1>8, VersionsAssumption DEF EndGet, Keys, NoReader
    <3> QED BY <1>0, <3>1, HoldersThere DEF Active
  <2>3. Counted(vs, Counts)
    BY <1>0, <2>2, WithSeekCounted
  <2> HIDE DEF vs
  <2>4. Keeps(versions', vs)
    BY <2>1, <2>3, UnrefKeeps DEF Counted, vs
  <2> QED BY <1>4, <1>7, <2>1, <2>4 DEF vs
<1>9. ASSUME NEW e, RecordReadSample(r, e) PROVE WorkIsScheduled'
  <2> DEFINE vs == WithSeek(versions, current, ReadSample(tables, CurrentFiles, e))
  <2>1. /\ versions' = vs
        /\ bg' = IF vs = versions THEN bg
                 ELSE MaybeScheduleCompaction(bg, imm, manual, vs, current, bg_error_)
    BY <1>9, Zenon DEF RecordReadSample
  <2> HIDE DEF vs
  <2>2. Keeps(versions', vs)
    BY <2>1 DEF Keeps
  <2> QED BY <1>4, <1>7, <2>1, <2>2
<1> QED BY <1>1, <1>5, <1>6, <1>8, <1>9

LEMMA WorkStep ==
    ASSUME CompactionInv, RefsInv', WorkIsScheduled, Next
    PROVE  WorkIsScheduled'
<1>1. CASE ReadingStep
  BY <1>1, WorkOfReading
<1>2. CASE bg_error_'
  BY <1>2 DEF WorkIsScheduled
<1>3. CASE bg' # Idle
  BY <1>3 DEF WorkIsScheduled
<1>4. CASE SyncFails \/ FlushFails \/ SkipBackgroundWork
  <2>1. bg_error_' = TRUE \/ (bg_error_' = bg_error_ /\ bg_error_)
    BY <1>4 DEF SyncFails, FlushFails, SkipBackgroundWork
  <2> QED BY <1>2, <2>1
<1>5. CASE StartFlush \/ BuildTable \/ StartCompaction \/ MergeNext \/ FinishMerge
  <2>1. StartFlush => bg'.pc = "build"
    BY DEF StartFlush
  <2>2. BuildTable => bg'.pc = "flushlog"
    BY DEF BuildTable
  <2>3. StartCompaction => bg'.pc \in {"movelog", "merge"}
    BY DEF StartCompaction, StartMove, StartMerge
  <2>4. MergeNext => bg'.pc = "merge"
    BY DEF MergeNext
  <2>5. FinishMerge => bg'.pc = "mergelog"
    BY DEF FinishMerge
  <2> QED BY <1>3, <1>5, <2>1, <2>2, <2>3, <2>4, <2>5, ThreadRecords
<1>6. ASSUME UNCHANGED <<tables, imm, versions, current, bg, bg_error_>>, manual' => manual
      PROVE  WorkIsScheduled'
  BY <1>6, WorkStays
<1>7. ASSUME UNCHANGED <<tables, versions, current, bg_error_>>,
             bg' = MaybeScheduleCompaction(bg, imm', manual', versions, current, bg_error_)
      PROVE  WorkIsScheduled'
  <2>1. bg' = MaybeScheduleCompaction(bg, imm', manual', versions, current', bg_error_')
    BY <1>7
  <2> QED BY <1>7, <2>1, WorkBy
<1>8. CASE \E k \in Keys, del \in BOOLEAN : Write(k, del)
  <2>1. /\ UNCHANGED <<tables, versions, current, bg_error_, manual>>
        /\ \/ UNCHANGED <<imm, bg>>
           \/ imm' = mem /\ bg' = MaybeScheduleCompaction(bg, mem, manual, versions, current, bg_error_)
    BY <1>8 DEF Write, fileVars, verVars
  <2> QED BY <1>6, <1>7, <2>1
<1>9. CASE CallSwitches
  <2>1. /\ UNCHANGED <<tables, versions, current, bg_error_, manual>>
        /\ \/ UNCHANGED <<imm, bg>>
           \/ imm' = mem /\ bg' = MaybeScheduleCompaction(bg, mem, manual, versions, current, bg_error_)
    BY <1>9 DEF CallSwitches, fileVars, verVars
  <2> QED BY <1>6, <1>7, <2>1
<1>10. CASE CallSchedules
  <2>1. /\ UNCHANGED <<tables, versions, current, bg_error_, imm>> /\ manual' = TRUE
        /\ bg' = MaybeScheduleCompaction(bg, imm, TRUE, versions, current, bg_error_)
    BY <1>10 DEF CallSchedules, memVars, fileVars, verVars
  <2> QED BY <1>7, <2>1
<1>11. CASE \/ GetSnapshot \/ \E s \in snapshots : ReleaseSnapshot(s)
            \/ \E lo, hi \in Keys : lo <= hi /\ CompactRange(lo, hi)
            \/ CallFlushed \/ CallAdvances
  <2>1. \/ UNCHANGED <<imm, fileVars, verVars, bgVars>>
        \/ UNCHANGED <<memVars, fileVars, verVars, bgVars>>
        \/ UNCHANGED <<memVars, fileVars, verVars, bg, bg_error_>> /\ manual' = FALSE
    BY <1>11 DEF GetSnapshot, ReleaseSnapshot, CompactRange, CallFlushed, CallAdvances
  <2>2. UNCHANGED <<tables, imm, versions, current, bg, bg_error_>> /\ (manual' => manual)
    BY <2>1 DEF memVars, fileVars, verVars, bgVars
  <2> QED BY <1>6, <2>2
<1>12. ASSUME tables' = tables,
              EndBackgroundCall(imm', manual', versions', current', bg_error_')
       PROVE  WorkIsScheduled'
  BY <1>12, WorkBy DEF EndBackgroundCall
<1>13. CASE NothingToCompact
  <2>1. /\ UNCHANGED <<tables, imm, versions, current, bg_error_>> /\ manual' = FALSE /\ ~bg_error_
        /\ EndBackgroundCall(imm, FALSE, versions, current, FALSE)
    BY <1>13 DEF NothingToCompact, MayStart, memVars, fileVars, verVars
  <2>2. EndBackgroundCall(imm', manual', versions', current', bg_error_') \/ bg_error_'
    BY <2>1 DEF EndBackgroundCall, MaybeScheduleCompaction
  <2> QED BY <1>2, <1>12, <2>1, <2>2
<1>14. CASE InstallFlush
  <2>1. /\ UNCHANGED <<tables, manual, bg_error_>> /\ imm' = {} /\ current' = current + 1
        /\ AfterFlush({}, versions', current + 1, bg_error_)
    BY <1>14 DEF InstallFlush
  <2>2. CASE job = NoJob
    <3>1. EndBackgroundCall(imm', manual', versions', current', bg_error_')
      BY <2>1, <2>2 DEF AfterFlush
    <3> QED BY <1>12, <2>1, <3>1
  <2>3. CASE job # NoJob
    BY <1>3, <2>1, <2>3, ThreadRecords DEF AfterFlush
  <2> QED BY <2>2, <2>3
<1>15. ASSUME NEW ok \in BOOLEAN, InstallMove(ok)
       PROVE  WorkIsScheduled'
  <2>1. /\ UNCHANGED <<tables, imm, manual>>
        /\ EndBackgroundCall(imm, manual, versions', current', bg_error_')
    BY <1>15 DEF InstallMove, memVars, fileVars
  <2> QED BY <1>12, <2>1
<1>16. ASSUME NEW ok \in BOOLEAN, EndMerge(ok)
       PROVE  WorkIsScheduled'
  <2>1. /\ UNCHANGED <<tables, imm>>
        /\ EndBackgroundCall(imm, manual', versions', current', bg_error_')
    BY <1>16 DEF EndMerge, memVars
  <2> QED BY <1>12, <2>1
<1> QED BY <1>1, <1>4, <1>5, <1>8, <1>9, <1>10, <1>11, <1>13, <1>14, <1>15, <1>16
        DEF Next, Caller, Background, ReadingStep

\* The limits of the levels are what they are defined to be, by induction on
\* the level: the least level up to which there is no such function is none.
LEMMA LevelLimits ==
    \A l \in Levels : /\ MaxBytesForLevel[l] \in Nat \ {0}
                      /\ MaxBytesForLevel[l] = IF l <= 1 THEN BaseBytes
                                               ELSE Growth * MaxBytesForLevel[l - 1]
<1> DEFINE Limits(f, n) == f = [l \in 0..n |-> IF l <= 1 THEN BaseBytes ELSE Growth * f[l - 1]]
           None == {n \in Nat : ~\E f : Limits(f, n)}
<1>1. None = {}
  <2> SUFFICES ASSUME None # {} PROVE FALSE
    OBVIOUS
  <2>1. PICK n \in None : \A m \in None : n <= m
    BY LeastMember
  <2>2. CASE n = 0
    <3>1. Limits([l \in 0..0 |-> BaseBytes], 0)
      OBVIOUS
    <3> QED BY <2>1, <2>2, <3>1
  <2>3. CASE n # 0
    <3>1. n - 1 \in Nat /\ n - 1 \notin None
      BY <2>1, <2>3
    <3>2. PICK f : Limits(f, n - 1)
      BY <3>1
    <3> DEFINE g == [l \in 0..n |-> IF l <= n - 1 THEN f[l]
                                    ELSE IF l <= 1 THEN BaseBytes ELSE Growth * f[l - 1]]
    <3>3. \A l \in 0..n : g[l] = IF l <= 1 THEN BaseBytes ELSE Growth * g[l - 1]
      BY <2>1, <2>3, <3>2
    <3>4. g = [l \in 0..n |-> g[l]]
      OBVIOUS
    <3> HIDE DEF g
    <3>5. Limits(g, n)
      BY <3>3, <3>4
    <3> QED BY <2>1, <3>5
  <2> QED BY <2>2, <2>3
<1>2. \E f : Limits(f, NumLevels - 1)
  <2>1. PICK n \in Nat : n = NumLevels - 1
    BY VersionsAssumption
  <2>2. n \notin None => \E f : Limits(f, n)
    BY <2>1
  <2> HIDE DEF Limits, None
  <2>3. \E f : Limits(f, n)
    BY <1>1, <2>2
  <2> QED BY <2>1, <2>3
<1>3. MaxBytesForLevel = [l \in Levels |-> IF l <= 1 THEN BaseBytes
                                           ELSE Growth * MaxBytesForLevel[l - 1]]
  BY <1>2 DEF MaxBytesForLevel, Levels
<1>4. ASSUME NEW l \in Levels
      PROVE  MaxBytesForLevel[l] = IF l <= 1 THEN BaseBytes ELSE Growth * MaxBytesForLevel[l - 1]
  BY <1>3
<1> DEFINE Bad == {l \in Levels : MaxBytesForLevel[l] \notin Nat \ {0}}
<1>5. Bad = {}
  <2> SUFFICES ASSUME Bad # {} PROVE FALSE
    OBVIOUS
  <2>1. Bad \in SUBSET Nat /\ Levels = 0..NumLevels - 1
    BY VersionsAssumption DEF Levels
  <2>2. PICK l \in Bad : \A m \in Bad : l <= m
    BY <2>1, LeastMember
  <2>3. l \in Nat /\ l \in Levels
    BY <2>1
  <2>4. CASE l <= 1
    BY <1>4, <2>2, <2>3, <2>4, VersionsAssumption
  <2>5. CASE l > 1
    <3>1. l - 1 \in Levels /\ l - 1 \notin Bad
      BY <2>1, <2>2, <2>3, <2>5, VersionsAssumption
    <3>2. PICK b \in Nat \ {0} : b = MaxBytesForLevel[l - 1]
      BY <3>1
    <3>3. MaxBytesForLevel[l] = Growth * b /\ Growth \in Nat \ {0}
      BY <1>4, <2>3, <2>5, <3>2, VersionsAssumption
    <3>4. Growth * b \in Nat \ {0}
      BY <3>2, <3>3
    <3> QED BY <2>2, <3>3, <3>4
  <2> QED BY <2>3, <2>4, <2>5
<1> QED BY <1>4, <1>5

LEMMA NoFilesNoBytes ==
    ASSUME NEW T
    PROVE  TotalFileSize(T, {}) = 0
BY Zenon DEF TotalFileSize, MapThenSumSet, MapThenFoldSet

\* A database without a file has no level that wants a compaction.
LEMMA EmptyNeedsNothing == \A T : Finalize(T, NoFiles) = {}
<1> SUFFICES ASSUME NEW T PROVE Finalize(T, NoFiles) = {}
  OBVIOUS
<1>1. ASSUME NEW l \in 0..NumLevels - 2
      PROVE  ~(Score(T, NoFiles, l)[1] >= Score(T, NoFiles, l)[2])
  <2>1. l \in Levels /\ 0 \in Levels /\ l \in Nat
    BY VersionsAssumption DEF Levels
  <2>2. NoFiles[l] = {} /\ Cardinality({}) = 0 /\ TotalFileSize(T, {}) = 0
    BY <2>1, FS_EmptySet, NoFilesNoBytes DEF NoFiles
  <2>3. PICK m \in Nat \ {0} : m = MaxBytesForLevel[l]
    BY <2>1, LevelLimits
  <2>4. Score(T, NoFiles, l) = IF l = 0 THEN <<0, L0Trigger>> ELSE <<0, m>>
    BY <2>2, <2>3 DEF Score
  <2> QED BY <2>3, <2>4, VersionsAssumption
<1> QED BY <1>1 DEF Finalize

(* Nobody waits for a background call that is not coming: whatever asks for a
   compaction, one is scheduled or under way. *)
THEOREM WorkIsAlwaysScheduled == Spec => []WorkIsScheduled
<1>1. Init => CompactionInv /\ WorkIsScheduled
  <2> SUFFICES ASSUME Init PROVE WorkIsScheduled
    BY CompactionInit
  <2>1. imm = {} /\ ~manual /\ tables = <<>> /\ versions[current].seek = {}
        /\ versions[current].files = NoFiles
    BY DEF Init
  <2>2. Finalize(<<>>, NoFiles) = {}
    BY EmptyNeedsNothing
  <2> QED BY <2>1, <2>2 DEF WorkIsScheduled, NeedsCompaction
<1>2. CompactionInv /\ WorkIsScheduled /\ [Next]_vars => CompactionInv' /\ WorkIsScheduled'
  <2> SUFFICES ASSUME CompactionInv, WorkIsScheduled, [Next]_vars
               PROVE  CompactionInv' /\ WorkIsScheduled'
    OBVIOUS
  <2>1. CompactionInv'
    BY CompactionStutters, EntriesStep, BgStep, CallStep, RefsStep, FilesStep DEF CompactionInv
  <2>2. RefsInv'
    BY <2>1 DEF CompactionInv
  <2>3. CASE UNCHANGED vars
    <3>1. UNCHANGED <<tables, imm, versions, current, bg, bg_error_, manual>>
      BY <2>3 DEF vars, memVars, fileVars, verVars, bgVars
    <3> QED BY <2>1, <3>1, WorkStays
  <2> QED BY <2>1, <2>2, <2>3, WorkStep
<1> QED BY <1>1, <1>2, PTL DEF Spec
----------------------------------------------------------------------------
(* The order of levels.                                                    *)

\* E has the newer versions of the keys that both have; E lies before G.
Newer(E, G)    == \A x \in E, y \in G : x.k = y.k => x.s > y.s
Precedes(E, G) == \A x \in E, y \in G : Before(x, y)
Apart(E, G)    == Precedes(E, G) \/ Precedes(G, E)

\* What LevelsAreOrdered says of the files v of a version, with the tables T
Disjoint(T, v) == \A l \in Levels \ {0} : \A f, g \in v[l] : f = g \/ Apart(T[f], T[g])
NewestFirst(T, v) == \A f, g \in v[0] : f > g => Newer(T[f], T[g])
NewerAbove(T, v) ==
    \A l, m \in Levels : l < m => \A f \in v[l], g \in v[m] : Newer(T[f], T[g])

LevelsOK(T, v, wrong) ==
    /\ "slipped" \notin wrong => Disjoint(T, v)
    /\ NewestFirst(T, v)
    /\ wrong = {} => NewerAbove(T, v)

VersionOK(v) == LevelsOK(tables, v, flaws) /\ \A f \in AllFiles(v) : f < next

\* The entries E were written before those in memory.
Older(E) == \A x \in E, y \in imm \cup mem : x.s < y.s

TimeInv ==
    /\ \A x \in imm, y \in mem : x.s < y.s
    /\ \A f \in AllFiles(CurrentFiles) : Older(tables[f])

\* The merge under way, and the files v of a version that it will change: no
\* other file lies between its inputs, and those that stay in its level have
\* the newer versions of their keys.
JobOK(T, v, j, wrong) ==
    /\ j.level \in 0..NumLevels - 2
    /\ j.in0 \subseteq v[j.level] /\ j.in1 \subseteq v[j.level + 1]
    /\ j.outputs \cap AllFiles(v) = {}
    /\ "slipped" \notin wrong =>
          \A g \in v[j.level + 1] \ j.in1 : Apart(T[g], Entries(T, j.in0 \cup j.in1))
    /\ wrong = {} => \A f \in v[j.level] \ j.in0, g \in j.in0 : Newer(T[f], T[g])

\* What is merged is taken in its order, and put into one file after the other.
MergeInv(T, j) ==
    /\ j.rest \subseteq Entries(T, j.in0 \cup j.in1)
    /\ \A o \in j.outputs : /\ T[o] \subseteq Entries(T, j.in0 \cup j.in1)
                            /\ Precedes(T[o], j.rest)
    /\ \A o, p \in j.outputs : o < p => Precedes(T[o], T[p])
    /\ j.builder # 0 => \A o \in j.outputs : o <= j.builder

LevelInv ==
    /\ VersionOK(CurrentFiles)
    /\ bg.pc = "build" => bg.base = current /\ \A f \in AllFiles(CurrentFiles) : f < bg.number
    /\ "files" \in DOMAIN bg => VersionOK(bg.files)
    /\ bg.pc = "flushlog" =>
          \A f \in AllFiles(bg.files) : f \in AllFiles(CurrentFiles) \/ tables[f] = imm
    /\ bg.pc = "movelog" => AllFiles(bg.files) \subseteq AllFiles(CurrentFiles)
    /\ bg.pc = "mergelog" => AllFiles(bg.files) \subseteq AllFiles(CurrentFiles) \cup job.outputs
    /\ job # NoJob => /\ JobOK(tables, CurrentFiles, job, flaws) /\ MergeInv(tables, job)
                      /\ bg.pc = "flushlog" => JobOK(tables, bg.files, job, flaws)

OrderInv == TimeInv /\ LevelInv

----------------------------------------------------------------------------
(* Keys of tables, and where files lie.                                    *)

\* A table lies between its smallest and its largest key.
LEMMA KeyOrder ==
    ASSUME EntriesInv, NEW E, Holds(E)
    PROVE  /\ FirstKey(E) \in E /\ \A x \in E \ {FirstKey(E)} : Before(FirstKey(E), x)
           /\ LastKey(E) \in E /\ \A x \in E \ {LastKey(E)} : Before(x, LastKey(E))
<1>1. /\ E \subseteq Written /\ E # {}
      /\ \A e \in Written : e.k \in Nat /\ e.s \in Nat /\ e.s <= Len(hist)
      /\ \A a, b \in Written : a.s = b.s => a = b
  BY WrittenOrdered DEF Holds
<1>2. \A e \in Written : e.k <= MaxKey
  <2>1. \A i \in 1..Len(hist) : hist[i] \in Entry
    BY DEF EntriesInv
  <2> QED BY <2>1 DEF Written, Entry, Keys
<1>3. MaxKey \in Nat
  BY VersionsAssumption
<1> DEFINE K == {e.k : e \in E}
<1>4. K \in SUBSET Nat /\ K # {} /\ \A k \in K : k <= MaxKey
  BY <1>1, <1>2
<1>5. FirstKey(E) \in E /\ \A x \in E \ {FirstKey(E)} : Before(FirstKey(E), x)
  <2>1. PICK k \in K : \A j \in K : k <= j
    BY <1>4, LeastMember
  <2> DEFINE S == {e.s : e \in {x \in E : x.k = k}}
  <2>2. S \in SUBSET Nat /\ S # {} /\ (\A y \in S : y <= Len(hist)) /\ Len(hist) \in Nat
    BY <1>1, <2>1 DEF EntriesInv
  <2>3. PICK s \in S : \A j \in S : s >= j
    BY <2>2, GreatestMember
  <2>4. PICK e \in E : e.k = k /\ e.s = s
    BY <2>3
  <2>5. ASSUME NEW x \in E \ {e} PROVE Before(e, x)
    <3>1. x.k \in K /\ k <= x.k /\ x.k \in Nat /\ k \in Nat
      BY <1>1, <1>4, <2>1
    <3>2. x.k = k => x.s \in S /\ x.s <= s /\ x.s # s /\ x.s \in Nat /\ s \in Nat
      BY <1>1, <2>2, <2>3, <2>4
    <3> HIDE DEF S, K
    <3> QED BY <3>1, <3>2, <2>4 DEF Before
  <2> QED BY <2>5 DEF FirstKey
<1>6. LastKey(E) \in E /\ \A x \in E \ {LastKey(E)} : Before(x, LastKey(E))
  <2>1. PICK k \in K : \A j \in K : k >= j
    BY <1>3, <1>4, GreatestMember
  <2> DEFINE S == {e.s : e \in {x \in E : x.k = k}}
  <2>2. S \in SUBSET Nat /\ S # {}
    BY <1>1, <2>1
  <2>3. PICK s \in S : \A j \in S : s <= j
    BY <2>2, LeastMember
  <2>4. PICK e \in E : e.k = k /\ e.s = s
    BY <2>3
  <2>5. ASSUME NEW x \in E \ {e} PROVE Before(x, e)
    <3>1. x.k \in K /\ k >= x.k /\ x.k \in Nat /\ k \in Nat
      BY <1>1, <1>4, <2>1
    <3>2. x.k = k => x.s \in S /\ s <= x.s /\ x.s # s /\ x.s \in Nat /\ s \in Nat
      BY <1>1, <2>2, <2>3, <2>4
    <3> HIDE DEF S, K
    <3> QED BY <3>1, <3>2, <2>4 DEF Before
  <2> QED BY <2>5 DEF LastKey
<1> QED BY <1>5, <1>6

LEMMA KeyRange ==
    ASSUME EntriesInv, NEW E, Holds(E)
    PROVE  /\ FirstKey(E) \in E /\ LastKey(E) \in E
           /\ \A x \in E : FirstKey(E).k <= x.k /\ x.k <= LastKey(E).k
<1>1. E \subseteq Written /\ \A e \in Written : e.k \in Nat
  BY WrittenOrdered DEF Holds
<1> QED BY <1>1, KeyOrder DEF Before

LEMMA NumbersOfKeys ==
    ASSUME EntriesInv, NEW E, Holds(E)
    PROVE  /\ FirstKey(E).k \in Nat /\ LastKey(E).k \in Nat
           /\ \A x \in E : x.k \in Nat /\ x.s \in Nat /\ x \in Written
BY KeyRange, WrittenOrdered DEF Holds

\* What shares no user key is apart.
LEMMA ApartByKeys ==
    ASSUME EntriesInv, NEW E, Holds(E), NEW G, Holds(G),
           ~(FirstKey(E).k <= LastKey(G).k /\ FirstKey(G).k <= LastKey(E).k)
    PROVE  Apart(E, G) /\ Newer(E, G) /\ Newer(G, E)
<1>1. /\ \A x \in E : FirstKey(E).k <= x.k /\ x.k <= LastKey(E).k /\ x.k \in Nat
      /\ \A x \in G : FirstKey(G).k <= x.k /\ x.k <= LastKey(G).k /\ x.k \in Nat
      /\ FirstKey(E).k \in Nat /\ LastKey(E).k \in Nat
      /\ FirstKey(G).k \in Nat /\ LastKey(G).k \in Nat
  BY KeyRange, NumbersOfKeys
<1>2. CASE FirstKey(E).k > LastKey(G).k
  <2>1. \A x \in E, y \in G : y.k < x.k
    BY <1>1, <1>2
  <2> QED BY <1>1, <2>1 DEF Apart, Precedes, Before, Newer
<1>3. CASE FirstKey(G).k > LastKey(E).k
  <2>1. \A x \in E, y \in G : x.k < y.k
    BY <1>1, <1>3
  <2> QED BY <1>1, <2>1 DEF Apart, Precedes, Before, Newer
<1> QED BY <1>1, <1>2, <1>3

\* The entries of some tables are a set like that of a table.
LEMMA EntriesHold ==
    ASSUME EntriesInv, NEW F, F # {}, F \subseteq DOMAIN tables
    PROVE  Holds(Entries(tables, F)) /\ \A f \in F : Holds(tables[f])
<1>1. \A f \in F : Holds(tables[f])
  BY DEF EntriesInv
<1> QED BY <1>1 DEF Holds, Entries

\* Inputs of the next level: the other files of that level lie before or after
\* all inputs, where the files of a level are disjoint.
LEMMA OthersLieApart ==
    ASSUME EntriesInv, NEW v \in FileMaps, AllFiles(v) \subseteq DOMAIN tables,
           NEW level \in 0..NumLevels - 2, NEW in0 \in SUBSET v[level], in0 # {},
           NEW in1, in1 = Over(tables, v, level + 1, in0), Disjoint(tables, v),
           NEW g \in v[level + 1] \ in1
    PROVE  Apart(tables[g], Entries(tables, in0 \cup in1))
<1>1. level \in Levels /\ level + 1 \in Levels /\ level + 1 # 0 /\ level + 1 \in Levels \ {0}
  BY VersionsAssumption DEF Levels
<1>2. in0 \subseteq DOMAIN tables /\ v[level + 1] \subseteq DOMAIN tables
  BY <1>1 DEF AllFiles
<1> DEFINE E == Entries(tables, in0)
           lo == FirstKey(E).k
           hi == LastKey(E).k
<1>3. Holds(E)
  BY <1>2, EntriesHold
<1>4. /\ \A x \in E : lo <= x.k /\ x.k <= hi /\ x.k \in Nat
      /\ lo \in Nat /\ hi \in Nat
  BY <1>3, KeyRange, NumbersOfKeys
<1>5. in1 = {f \in v[level + 1] : Overlaps(tables, f, lo, hi)}
  BY <1>1 DEF Over, GetOverlappingInputs
<1> HIDE DEF E, lo, hi
<1>6. ASSUME NEW f \in v[level + 1]
      PROVE  /\ Holds(tables[f]) /\ Smallest(tables, f) \in tables[f] /\ Largest(tables, f) \in tables[f]
             /\ Smallest(tables, f).k \in Nat /\ Largest(tables, f).k \in Nat
             /\ \A x \in tables[f] : /\ Smallest(tables, f).k <= x.k /\ x.k <= Largest(tables, f).k
                                     /\ x.k \in Nat /\ x.s \in Nat
  <2>1. Holds(tables[f])
    BY <1>2, <1>6 DEF EntriesInv
  <2> QED BY <2>1, KeyRange, NumbersOfKeys DEF Smallest, Largest
<1>7. Entries(tables, in0 \cup in1) = E \cup Entries(tables, in1)
  BY DEF Entries, E
<1>8. PICK z \in tables[g] : TRUE
  BY <1>6
<1>9. \A a \in in1 : a # g /\ a \in v[level + 1] /\ Apart(tables[g], tables[a])
  BY <1>1, <1>5 DEF Disjoint
<1>10. CASE Smallest(tables, g).k > hi
  <2>1. ASSUME NEW a \in in1 PROVE Precedes(tables[a], tables[g])
    <3> SUFFICES ASSUME Precedes(tables[g], tables[a]) PROVE FALSE
      BY <1>9 DEF Apart
    <3>1. Before(z, Smallest(tables, a))
      BY <1>6, <1>8, <1>9 DEF Precedes
    <3>2. Smallest(tables, a).k <= hi
      BY <1>5 DEF Overlaps
    <3>3. z.k > hi /\ z.k \in Nat /\ Smallest(tables, a).k \in Nat
      BY <1>4, <1>6, <1>8, <1>9, <1>10
    <3> QED BY <1>4, <3>1, <3>2, <3>3 DEF Before
  <2>2. \A x \in E, y \in tables[g] : Before(x, y)
    <3>1. \A x \in E, y \in tables[g] : x.k < y.k
      BY <1>4, <1>6, <1>10
    <3> QED BY <3>1 DEF Before
  <2>3. \A x \in Entries(tables, in1), y \in tables[g] : Before(x, y)
    BY <2>1 DEF Entries, Precedes
  <2> QED BY <1>7, <2>2, <2>3 DEF Apart, Precedes
<1>11. CASE Largest(tables, g).k < lo
  <2>1. ASSUME NEW a \in in1 PROVE Precedes(tables[g], tables[a])
    <3> SUFFICES ASSUME Precedes(tables[a], tables[g]) PROVE FALSE
      BY <1>9 DEF Apart
    <3>1. Before(Largest(tables, a), z)
      BY <1>6, <1>8, <1>9 DEF Precedes
    <3>2. lo <= Largest(tables, a).k
      BY <1>5 DEF Overlaps
    <3>3. z.k < lo /\ z.k \in Nat /\ Largest(tables, a).k \in Nat
      BY <1>4, <1>6, <1>8, <1>9, <1>11
    <3> QED BY <1>4, <3>1, <3>2, <3>3 DEF Before
  <2>2. \A x \in E, y \in tables[g] : Before(y, x)
    <3>1. \A x \in E, y \in tables[g] : y.k < x.k
      BY <1>4, <1>6, <1>11
    <3> QED BY <3>1 DEF Before
  <2>3. \A x \in Entries(tables, in1), y \in tables[g] : Before(y, x)
    BY <2>1 DEF Entries, Precedes
  <2> QED BY <1>7, <2>2, <2>3 DEF Apart, Precedes
<1> QED BY <1>4, <1>5, <1>6, <1>10, <1>11 DEF Overlaps

\* The level of a new table, and the levels above it, have nothing that
\* overlaps it.
LEMMA PickedLevel ==
    ASSUME NEW T, NEW v, NEW lo, NEW hi
    PROVE  LET l == PickLevelForMemTableOutput(T, v, lo, hi)
           IN  /\ l \in 0..MaxMemCompactLevel /\ l \in Levels
               /\ l > 0 => \A j \in 0..l : ~OverlapInLevel(T, v[j], lo, hi)
<1> DEFINE L == PickLevelForMemTableOutput(T, v, lo, hi)
           Clear(l) == \A j \in 0..l - 1 :
               /\ ~OverlapInLevel(T, v[0], lo, hi) /\ ~OverlapInLevel(T, v[j + 1], lo, hi)
               /\ j + 2 < NumLevels =>
                    TotalFileSize(T, GetOverlappingInputs(T, v, j + 2, lo, hi))
                        <= GrandParentLimit
           S == {l \in 0..MaxMemCompactLevel : Clear(l)}
<1>1. L = Max(S)
  BY DEF PickLevelForMemTableOutput
<1>2. MaxMemCompactLevel \in Nat /\ NumLevels \in Nat /\ MaxMemCompactLevel < NumLevels
  BY VersionsAssumption
<1>3. 0 \in S
  BY <1>2
<1>4. S \in SUBSET Nat /\ \A y \in S : y <= MaxMemCompactLevel
  BY <1>2
<1> HIDE DEF S
<1>5. \E x \in S : \A y \in S : x >= y
  BY <1>2, <1>3, <1>4, GreatestMember
<1>6. L \in S
  BY <1>1, <1>5 DEF Max
<1> HIDE DEF L
<1>7. L \in 0..MaxMemCompactLevel /\ Clear(L)
  BY <1>6 DEF S
<1>8. ASSUME L > 0, NEW j \in 0..L PROVE ~OverlapInLevel(T, v[j], lo, hi)
  <2>1. CASE j = 0
    BY <1>2, <1>7, <1>8, <2>1
  <2>2. CASE j # 0
    <3>1. j - 1 \in 0..L - 1 /\ (j - 1) + 1 = j
      BY <1>2, <1>7, <2>2
    <3>2. ~OverlapInLevel(T, v[(j - 1) + 1], lo, hi)
      BY <1>7, <3>1
    <3> QED BY <3>1, <3>2
  <2> QED BY <2>1, <2>2
<1> QED BY <1>2, <1>7, <1>8 DEF L, Levels

----------------------------------------------------------------------------
(* The inputs of a compaction.                                             *)

\* A table is among those that overlap it.
LEMMA OverHasItself ==
    ASSUME EntriesInv, NEW v, NEW f \in v[0], f \in DOMAIN tables
    PROVE  f \in Over(tables, v, 0, {f})
<1>1. Holds(tables[f])
  BY DEF EntriesInv
<1>2. Entries(tables, {f}) = tables[f]
  BY DEF Entries
<1> DEFINE lo == FirstKey(tables[f]).k
           hi == LastKey(tables[f]).k
<1>3. lo <= hi
  BY <1>1, KeyRange
<1>4. Overlaps(tables, f, lo, hi)
  BY <1>3 DEF Overlaps, Smallest, Largest
<1> HIDE DEF lo, hi
<1>5. f \in GetOverlappingInputs(tables, v, 0, lo, hi)
  BY <1>4 DEF GetOverlappingInputs
<1> QED BY <1>2, <1>5 DEF Over, lo, hi

\* The inputs of the next level are those that overlap the first inputs,
\* whether these have grown or not.
LEMMA SetupInputs ==
    ASSUME NEW T, NEW v \in FileMaps, NEW level \in 0..NumLevels - 2,
           NEW in0 \in SUBSET v[level], in0 # {}, IsFiniteSet(v[level])
    PROVE  LET d == SetupOtherInputs(T, v, level, in0)
           IN  /\ d.level = level /\ d.in0 \subseteq v[level] /\ d.in0 # {}
               /\ d.in1 = Over(T, v, level + 1, d.in0)
<1> DEFINE in1 == Over(T, v, level + 1, in0)
           more0 == Over(T, v, level, in0 \cup in1)
           more1 == Over(T, v, level + 1, more0)
<1>1. \A F, G : LET c == Inputs(T, v, level, F, G) IN c.level = level /\ c.in0 = F /\ c.in1 = G
  BY DEF Inputs
<1>2. more0 \subseteq v[level]
  BY OverAreFiles
<1>3. \/ SetupOtherInputs(T, v, level, in0) = Inputs(T, v, level, in0, in1)
      \/ /\ SetupOtherInputs(T, v, level, in0) = Inputs(T, v, level, more0, more1)
         /\ Cardinality(more0) > Cardinality(in0)
  BY DEF SetupOtherInputs, ExpandInputs, Grows
<1>4. Cardinality(more0) > Cardinality(in0) => more0 # {}
  <2>1. Cardinality(in0) \in Nat
    BY FS_Subset, FS_CardinalityType
  <2>2. Cardinality({}) = 0
    BY FS_EmptySet
  <2> HIDE DEF more0
  <2> QED BY <2>1, <2>2
<1> DEFINE Fine(d) == /\ d.level = level /\ d.in0 \subseteq v[level] /\ d.in0 # {}
                      /\ d.in1 = Over(T, v, level + 1, d.in0)
<1>5. Fine(Inputs(T, v, level, in0, in1))
  BY <1>1
<1>6. more0 # {} => Fine(Inputs(T, v, level, more0, more1))
  <2> DEFINE m == Inputs(T, v, level, more0, more1)
  <2>1. m.level = level /\ m.in0 = more0 /\ m.in1 = more1
    BY <1>1
  <2> HIDE DEF m, more0
  <2> QED BY <1>2, <2>1 DEF m
<1> HIDE DEF in1, more0, more1, Fine
<1>7. Fine(SetupOtherInputs(T, v, level, in0))
  BY <1>3, <1>4, <1>5, <1>6
<1> QED BY <1>7 DEF Fine

\* There are finitely many files.
LEMMA FinitelyMany ==
    ASSUME NEW v \in FileMaps, NEW l \in Levels, NEW n \in Nat, \A f \in AllFiles(v) : f < n
    PROVE  IsFiniteSet(v[l])
<1>1. v[l] \subseteq 0..n
  BY DEF FileMaps, AllFiles
<1>2. IsFiniteSet(0..n)
  BY FS_Interval
<1> QED BY <1>1, <1>2, FS_Subset

LEMMA CandidateInputs ==
    ASSUME CompactionInv, \A f \in AllFiles(CurrentFiles) : f < next, NEW c \in Candidates
    PROVE  /\ c.level \in 0..NumLevels - 2
           /\ c.in0 \subseteq CurrentFiles[c.level] /\ c.in0 # {}
           /\ c.in1 = Over(tables, CurrentFiles, c.level + 1, c.in0)
           /\ IsFiniteSet(c.in0)
<1>0. EntriesInv /\ BgInv /\ CallInv /\ RefsInv /\ FilesInv
  BY DEF CompactionInv
<1>1. current \in DOMAIN versions
  BY <1>0, HoldersThere
<1>2. CurrentFiles \in FileMaps /\ versions[current].seek \subseteq PicksOf(CurrentFiles)
  BY <1>0, <1>1 DEF FilesInv, Files, CurrentFiles
<1> DEFINE there == CurrentFiles
<1>3. \A l \in 0..NumLevels - 2 : l \in Levels /\ IsFiniteSet(there[l])
  <2>1. next \in Nat
    BY <1>0 DEF BgInv
  <2>2. \A l \in 0..NumLevels - 2 : l \in Levels
    BY VersionsAssumption DEF Levels
  <2> QED BY <1>2, <2>1, <2>2, FinitelyMany
<1>4. \E level \in 0..NumLevels - 2 : \E in0 \in SUBSET there[level] :
         in0 # {} /\ c = SetupOtherInputs(tables, there, level, in0)
  <2>1. CASE manual
    <3>1. call.level \in 0..NumLevels - 2
      <4>1. call.pc = "range" /\ NoCall.pc = "none"
        BY <1>0, <2>1 DEF CallInv, NoCall
      <4> QED BY <1>0, <4>1 DEF CallInv
    <3>2. PICK in0 : /\ in0 = ManualInputs(tables, there, call.level, call.from, call.hi) /\ in0 # {}
                     /\ c = SetupOtherInputs(tables, there, call.level, in0)
      BY <2>1 DEF Candidates
    <3>3. in0 \in SUBSET there[call.level]
      BY <3>2, ManualInputsAreFiles
    <3> QED BY <3>1, <3>2, <3>3
  <2>2. CASE ~manual
    <3>1. PICK pick \in PickFile(tables, there, pointer, versions[current].seek) :
              c = PickCompaction(tables, there, pick)
      BY <2>2 DEF Candidates
    <3>2. pick \in PicksOf(there)
      BY <1>2, <3>1, PicksAreFiles
    <3>3. pick.level \in 0..NumLevels - 2 /\ pick.file \in there[pick.level]
      BY <3>2 DEF PicksOf
    <3> DEFINE in0 == IF pick.level > 0 THEN {pick.file} ELSE Over(tables, there, 0, {pick.file})
    <3>4. in0 \in SUBSET there[pick.level] /\ in0 # {}
      <4>1. CASE pick.level > 0
        BY <3>3, <4>1
      <4>2. CASE pick.level = 0
        <5>1. AllFiles(there) \subseteq DOMAIN tables
          BY <1>0, CurrentIsThere DEF EntriesInv
        <5>2. 0 \in Levels
          BY VersionsAssumption DEF Levels
        <5>3. pick.file \in there[0] /\ pick.file \in DOMAIN tables
          BY <3>3, <4>2, <5>1, <5>2 DEF AllFiles
        <5>4. pick.file \in Over(tables, there, 0, {pick.file})
          BY <1>0, <5>3, OverHasItself
        <5> QED BY <4>2, <5>4, OverAreFiles
      <4>3. pick.level \in Nat
        BY <3>3, VersionsAssumption
      <4> HIDE DEF in0
      <4> QED BY <4>1, <4>2, <4>3
    <3>5. c = SetupOtherInputs(tables, there, pick.level, in0)
      BY <3>1 DEF PickCompaction
    <3> HIDE DEF in0
    <3> QED BY <3>3, <3>4, <3>5
  <2> QED BY <2>1, <2>2
<1>5. PICK level \in 0..NumLevels - 2 :
         \E in0 \in SUBSET there[level] : in0 # {} /\ c = SetupOtherInputs(tables, there, level, in0)
  BY <1>4
<1>6. PICK in0 \in SUBSET there[level] : in0 # {} /\ c = SetupOtherInputs(tables, there, level, in0)
  BY <1>5
<1> HIDE DEF there
<1>7. there \in FileMaps /\ IsFiniteSet(there[level])
  BY <1>2, <1>3 DEF there
<1>8. /\ c.level = level /\ c.in0 \subseteq there[level] /\ c.in0 # {}
      /\ c.in1 = Over(tables, there, level + 1, c.in0)
  <2>1. level \in 0..NumLevels - 2
    BY <1>5
  <2>2. in0 \in SUBSET there[level] /\ in0 # {} /\ c = SetupOtherInputs(tables, there, level, in0)
    BY <1>6
  <2>3. there \in FileMaps /\ IsFiniteSet(there[level])
    BY <1>7
  <2> QED BY <2>1, <2>2, <2>3, SetupInputs
<1> QED BY <1>5, <1>6, <1>7, <1>8, FS_Subset DEF there

----------------------------------------------------------------------------
(* What a step leaves as it is.                                            *)

LEMMA LevelsFrame ==
    ASSUME NEW T, NEW U, NEW v, \A f \in AllFiles(v) : U[f] = T[f],
           NEW w, NEW x, w \subseteq x, LevelsOK(T, v, w)
    PROVE  LevelsOK(U, v, x)
<1>1. 0 \in Levels
  BY VersionsAssumption DEF Levels
<1>2. \A l \in Levels : \A f \in v[l] : U[f] = T[f]
  BY DEF AllFiles
<1>3. Disjoint(T, v) => Disjoint(U, v)
  BY <1>2 DEF Disjoint
<1>4. NewestFirst(T, v) => NewestFirst(U, v)
  BY <1>1, <1>2 DEF NewestFirst
<1>5. NewerAbove(T, v) => NewerAbove(U, v)
  BY <1>2 DEF NewerAbove
<1>6. /\ "slipped" \notin w => Disjoint(T, v)
      /\ NewestFirst(T, v) /\ (w = {} => NewerAbove(T, v))
  BY DEF LevelsOK
<1>7. ("slipped" \notin x => "slipped" \notin w) /\ (x = {} => w = {})
  OBVIOUS
<1> QED BY <1>3, <1>4, <1>5, <1>6, <1>7 DEF LevelsOK

\* The inputs of a merge are files of the version.
LEMMA InputsInVersion ==
    ASSUME NEW T, NEW v, NEW j, NEW w, JobOK(T, v, j, w)
    PROVE  /\ j.level \in Levels /\ j.level + 1 \in Levels /\ j.level + 1 # 0 /\ j.level \in Nat
           /\ j.in0 \cup j.in1 \subseteq AllFiles(v)
<1>1. j.level \in Levels /\ j.level + 1 \in Levels /\ j.level + 1 # 0 /\ j.level \in Nat
  BY VersionsAssumption DEF JobOK, Levels
<1>2. j.in0 \subseteq v[j.level] /\ j.in1 \subseteq v[j.level + 1]
  BY DEF JobOK
<1> QED BY <1>1, <1>2 DEF AllFiles

LEMMA JobFrame ==
    ASSUME NEW T, NEW U, NEW v, \A f \in AllFiles(v) : U[f] = T[f],
           NEW w, NEW x, w \subseteq x, NEW j, JobOK(T, v, j, w)
    PROVE  JobOK(U, v, j, x)
<1>1. /\ j.level \in Levels /\ j.level + 1 \in Levels /\ j.in0 \cup j.in1 \subseteq AllFiles(v)
  BY InputsInVersion
<1>2. /\ \A f \in j.in0 \cup j.in1 : U[f] = T[f]
      /\ \A f \in v[j.level] \cup v[j.level + 1] : U[f] = T[f]
  BY <1>1 DEF AllFiles
<1>3. Entries(U, j.in0 \cup j.in1) = Entries(T, j.in0 \cup j.in1)
  BY <1>2 DEF Entries
<1>4. /\ j.level \in 0..NumLevels - 2
      /\ j.in0 \subseteq v[j.level] /\ j.in1 \subseteq v[j.level + 1]
      /\ j.outputs \cap AllFiles(v) = {}
  BY DEF JobOK
<1>5. "slipped" \notin x =>
         \A g \in v[j.level + 1] \ j.in1 : Apart(U[g], Entries(U, j.in0 \cup j.in1))
  BY <1>2, <1>3 DEF JobOK
<1>6. x = {} => \A f \in v[j.level] \ j.in0, g \in j.in0 : Newer(U[f], U[g])
  BY <1>2 DEF JobOK
<1> QED BY <1>4, <1>5, <1>6 DEF JobOK

LEMMA MergeFrame ==
    ASSUME NEW T, NEW U, NEW j, \A f \in j.in0 \cup j.in1 \cup j.outputs : U[f] = T[f],
           MergeInv(T, j)
    PROVE  MergeInv(U, j)
<1>1. Entries(U, j.in0 \cup j.in1) = Entries(T, j.in0 \cup j.in1)
  BY DEF Entries
<1>2. \A o \in j.outputs : U[o] = T[o]
  OBVIOUS
<1>3. /\ j.rest \subseteq Entries(U, j.in0 \cup j.in1)
      /\ \A o \in j.outputs : U[o] \subseteq Entries(U, j.in0 \cup j.in1)
      /\ \A o \in j.outputs : Precedes(U[o], j.rest)
  BY <1>1, <1>2 DEF MergeInv
<1>4. \A o, p \in j.outputs : o < p => Precedes(U[o], U[p])
  BY <1>2 DEF MergeInv
<1> QED BY <1>3, <1>4 DEF MergeInv

\* A step that leaves tables, the current version and the merge as they are.
QuietLevels ==
    /\ UNCHANGED <<tables, current>> /\ CurrentFiles' = CurrentFiles
    /\ next' \in Nat /\ next <= next' /\ flaws \subseteq flaws'
    /\ job' \in {job, NoJob}
    /\ \/ bg' = bg /\ job' = job /\ (imm' = imm \/ bg.pc # "flushlog")
       \/ bg' \in {Idle, Queued, [pc |-> "merge"]}

\* A version stays in order where its tables stay as they are.
LEMMA VersionStays ==
    ASSUME NEW v \in FileMaps, VersionOK(v), \A f \in AllFiles(v) : tables'[f] = tables[f],
           next \in Nat, next' \in Nat, next <= next', flaws \subseteq flaws'
    PROVE  LevelsOK(tables', v, flaws') /\ \A f \in AllFiles(v) : f < next'
<1>1. LevelsOK(tables', v, flaws')
  BY LevelsFrame DEF VersionOK
<1>2. \A f \in AllFiles(v) : f \in Nat /\ f < next
  BY DEF VersionOK, FileMaps, AllFiles
<1>3. \A f \in AllFiles(v) : f < next'
  BY <1>2
<1> QED BY <1>1, <1>3

\* The merge under way, as long as its files stay as they are.
LEMMA JobStaysInOrder ==
    ASSUME LevelInv, job' \in {job, NoJob}, CurrentFiles' = CurrentFiles, flaws \subseteq flaws',
           \A f \in AllFiles(CurrentFiles) : tables'[f] = tables[f],
           job # NoJob => \A f \in job.outputs : tables'[f] = tables[f]
    PROVE  job' # NoJob => JobOK(tables', CurrentFiles', job', flaws') /\ MergeInv(tables', job')
<1> SUFFICES ASSUME job' # NoJob
             PROVE  JobOK(tables', CurrentFiles, job, flaws') /\ MergeInv(tables', job)
  OBVIOUS
<1>1. JobOK(tables, CurrentFiles, job, flaws) /\ MergeInv(tables, job) /\ job # NoJob
  BY DEF LevelInv
<1>2. job.in0 \cup job.in1 \subseteq AllFiles(CurrentFiles)
  BY <1>1, InputsInVersion
<1>3. MergeInv(tables', job)
  BY <1>1, <1>2, MergeFrame
<1>4. JobOK(tables', CurrentFiles, job, flaws')
  BY <1>1, JobFrame
<1> QED BY <1>3, <1>4

LEMMA LevelsStay ==
    ASSUME CompactionInv, LevelInv, QuietLevels
    PROVE  LevelInv'
<1>1. BgInv /\ CurrentFiles \in FileMaps /\ next \in Nat
  BY CurrentIsThere DEF CompactionInv, BgInv
<1>2. VersionOK(CurrentFiles)'
  <2>1. /\ LevelsOK(tables', CurrentFiles, flaws')
        /\ \A f \in AllFiles(CurrentFiles) : f < next'
    BY <1>1, VersionStays DEF LevelInv, QuietLevels
  <2> QED BY <2>1 DEF VersionOK, QuietLevels
<1>3. job' # NoJob => JobOK(tables', CurrentFiles', job', flaws') /\ MergeInv(tables', job')
  BY JobStaysInOrder DEF QuietLevels
<1>4. CASE bg' = bg /\ job' = job /\ (imm' = imm \/ bg.pc # "flushlog")
  <2>1. bg'.pc = "build" =>
           bg'.base = current' /\ \A f \in AllFiles(CurrentFiles') : f < bg'.number
    BY <1>4 DEF LevelInv, QuietLevels
  <2>2. "files" \in DOMAIN bg => LevelsOK(tables', bg.files, flaws') /\ \A f \in AllFiles(bg.files) : f < next'
    BY <1>1, BgFields, VersionStays DEF LevelInv, QuietLevels
  <2>3. "files" \in DOMAIN bg' => VersionOK(bg.files)'
    BY <1>4, <2>2 DEF VersionOK
  <2>4. bg'.pc = "flushlog" =>
           \A f \in AllFiles(bg'.files) : f \in AllFiles(CurrentFiles') \/ tables'[f] = imm'
    BY <1>4 DEF LevelInv, QuietLevels
  <2>5. /\ bg'.pc = "movelog" => AllFiles(bg'.files) \subseteq AllFiles(CurrentFiles')
        /\ bg'.pc = "mergelog" => AllFiles(bg'.files) \subseteq AllFiles(CurrentFiles') \cup job'.outputs
    BY <1>1, <1>4 DEF LevelInv, QuietLevels, BgInv
  <2>6. job' # NoJob => (bg'.pc = "flushlog" => JobOK(tables', bg'.files, job', flaws'))
    BY <1>4, JobFrame DEF LevelInv, QuietLevels
  <2> QED BY <1>2, <1>3, <2>1, <2>3, <2>4, <2>5, <2>6 DEF LevelInv
<1>5. CASE bg' \in {Idle, Queued, [pc |-> "merge"]}
  <2>1. bg'.pc \in {"idle", "queued", "merge"} /\ "files" \notin DOMAIN bg'
    BY <1>5, ThreadRecords
  <2> QED BY <1>2, <1>3, <2>1 DEF LevelInv
<1> QED BY <1>4, <1>5 DEF QuietLevels

----------------------------------------------------------------------------
(* Steps that leave the current version as it is.                          *)

LEMMA CurrentStays ==
    ASSUME RefsInv', UNCHANGED current, NEW vs, Keeps(versions', vs),
           vs[current].files = versions[current].files
    PROVE  CurrentFiles' = CurrentFiles
<1>1. current \in DOMAIN versions'
  BY CurrentThereNext
<1> QED BY <1>1 DEF Keeps, CurrentFiles, Files

\* The current version is the new one.
LEMMA CurrentIsNew ==
    ASSUME CompactionInv, RefsInv', current' = current + 1, NEW files \in FileMaps,
           \/ versions' = AppendVersion(versions, files)
           \/ \E x : versions' = Unref(AppendVersion(versions, files), x)
    PROVE  CurrentFiles' = files
<1> DEFINE ws == AppendVersion(versions, files)
           d  == [[Counts EXCEPT ![current] = @ - 1] EXCEPT ![current + 1] = 1]
<1>1. current \in DOMAIN versions /\ current \in Nat /\ Counts \in [Nat -> Nat]
      /\ Counts[current + 1] = 0 /\ Counted(versions, Counts)
  BY HoldersThere, NextIsFresh, CountsNat DEF CompactionInv, RefsInv, HolderRange
<1>2. Counted(ws, d) /\ current + 1 \in DOMAIN ws /\ ws[current + 1].files = files
  BY <1>1, AppendCounted
<1> HIDE DEF ws, d
<1>3. \A x \in DOMAIN ws : DOMAIN ws[x] = VersionFields
  BY <1>2 DEF Counted
<1>4. Keeps(versions', ws)
  <2>1. CASE versions' = ws
    BY <2>1 DEF Keeps
  <2>2. CASE \E x : versions' = Unref(ws, x)
    BY <1>3, <2>2, UnrefKeeps
  <2> QED BY <2>1, <2>2 DEF ws
<1>5. current + 1 \in DOMAIN versions'
  BY CurrentThereNext
<1> QED BY <1>2, <1>4, <1>5 DEF Keeps, CurrentFiles, Files

LEMMA ReadingIsQuiet ==
    ASSUME CompactionInv, RefsInv', ReadingStep
    PROVE  QuietLevels /\ UNCHANGED <<mem, imm>>
<1>0. /\ RefsInv /\ BgInv /\ Counted(versions, Counts) /\ Counts \in [Nat -> Nat]
      /\ current \in DOMAIN versions /\ next \in Nat
      /\ \A x \in DOMAIN versions : DOMAIN versions[x] = VersionFields
  BY HoldersThere, CountsNat DEF CompactionInv, RefsInv, Counted, BgInv
<1>1. PICK r \in Readers :
        \/ \E key \in Keys \cup {Iterator}, s \in snapshots \cup {LastSequence} :
              StartReading(r, key, s)
        \/ EndGet(r) \/ CleanupIterator(r)
        \/ \E i \in 1..LastSequence : RecordReadSample(r, hist[i])
  BY DEF ReadingStep
<1>2. UNCHANGED <<tables, mem, imm, next, current, job, flaws>>
  BY <1>1 DEF StartReading, EndGet, CleanupIterator, RecordReadSample, bgVars, fileVars, memVars
<1>3. MaySchedule
  BY <1>0, <1>1, ReaderRefs DEF CompactionInv
<1>4. ASSUME NEW key, NEW s, StartReading(r, key, s) PROVE CurrentFiles' = CurrentFiles
  <2>1. Keeps(versions', versions)
    BY <1>0, <1>4, RefCounted DEF StartReading, TakeReferences
  <2> QED BY <1>2, <2>1, CurrentStays
<1>5. ASSUME CleanupIterator(r) PROVE CurrentFiles' = CurrentFiles
  <2>1. Keeps(versions', versions)
    BY <1>0, <1>5, UnrefKeeps DEF CleanupIterator
  <2> QED BY <1>2, <2>1, CurrentStays
<1>6. ASSUME EndGet(r) PROVE CurrentFiles' = CurrentFiles
  <2>1. PICK file : versions' = Unref(WithSeek(versions, readers[r].version, file), readers[r].version)
    BY <1>6 DEF EndGet
  <2> DEFINE vs == WithSeek(versions, readers[r].version, file)
  <2>2. readers[r].version \in DOMAIN versions
    <3>1. readers[r].key # 0 /\ NoReader.key = 0
      BY <1>6, VersionsAssumption DEF EndGet, Keys, NoReader
    <3> QED BY <1>0, <3>1, HoldersThere DEF Active
  <2>3. Counted(vs, Counts) /\ vs[current].files = versions[current].files
    BY <1>0, <2>2, WithSeekCounted
  <2> HIDE DEF vs
  <2>4. Keeps(versions', vs)
    BY <2>1, <2>3, UnrefKeeps DEF Counted, vs
  <2> QED BY <1>2, <2>3, <2>4, CurrentStays
<1>7. ASSUME NEW e, RecordReadSample(r, e) PROVE CurrentFiles' = CurrentFiles
  <2> DEFINE vs == WithSeek(versions, current, ReadSample(tables, CurrentFiles, e))
  <2>1. versions' = vs
    BY <1>7, Zenon DEF RecordReadSample
  <2>2. vs[current].files = versions[current].files
    BY <1>0, WithSeekCounted
  <2> HIDE DEF vs
  <2>3. Keeps(versions', vs)
    BY <2>1 DEF Keeps
  <2> QED BY <1>2, <2>2, <2>3, CurrentStays
<1>8. CurrentFiles' = CurrentFiles
  BY <1>1, <1>4, <1>5, <1>6, <1>7
<1> QED BY <1>0, <1>2, <1>3, <1>8 DEF QuietLevels, MaySchedule

\* A memtable is set aside only where no flush is under way.
LEMMA QuietStepIsQuiet ==
    ASSUME CompactionInv, QuietStep
    PROVE  QuietLevels
<1>0. BgInv /\ next \in Nat
  BY DEF CompactionInv, BgInv
<1>1. MaySchedule /\ UNCHANGED <<versions, current, job, tables, next>>
  BY <1>0, QuietSchedules
<1>2. flaws' = flaws /\ (imm' = imm \/ bg.pc # "flushlog")
  <2>1. bg.pc = "flushlog" => imm # {}
    BY <1>0 DEF BgInv
  <2>2. ASSUME NEW k, NEW del, Write(k, del) PROVE flaws' = flaws /\ (imm' = imm \/ imm = {})
    BY <2>2 DEF Write
  <2>3. CASE CallSwitches
    BY <2>1, <2>3 DEF CallSwitches
  <2>4. CASE \/ GetSnapshot \/ \E s \in snapshots : ReleaseSnapshot(s)
             \/ \E lo, hi \in Keys : lo <= hi /\ CompactRange(lo, hi)
             \/ CallFlushed \/ CallSchedules \/ CallAdvances
             \/ NothingToCompact \/ SkipBackgroundWork \/ SyncFails
    BY <2>4 DEF GetSnapshot, ReleaseSnapshot, CompactRange, CallFlushed, CallSchedules, CallAdvances,
                NothingToCompact, SkipBackgroundWork, SyncFails, memVars, bgVars
  <2> QED BY <2>1, <2>2, <2>3, <2>4 DEF QuietStep
<1>3. CurrentFiles' = CurrentFiles
  BY <1>1 DEF CurrentFiles, Files
<1> QED BY <1>0, <1>1, <1>2, <1>3 DEF QuietLevels, MaySchedule

\* What fails changes nothing of this.
LEMMA FailuresAreQuiet ==
    ASSUME CompactionInv, RefsInv', FlushFails \/ InstallMove(FALSE) \/ EndMerge(FALSE)
    PROVE  QuietLevels /\ UNCHANGED <<mem, imm>>
<1>0. /\ RefsInv /\ BgInv /\ next \in Nat
      /\ \A x \in DOMAIN versions : DOMAIN versions[x] = VersionFields
  BY DEF CompactionInv, RefsInv, Counted, BgInv
<1>1. ASSUME versions' = versions \/ \E x : versions' = Unref(versions, x), UNCHANGED current
      PROVE  CurrentFiles' = CurrentFiles
  <2>1. Keeps(versions', versions)
    BY <1>0, <1>1, UnrefKeeps DEF Keeps
  <2> QED BY <1>1, <2>1, CurrentStays
<1>2. CASE FlushFails
  <2>1. /\ versions' = versions \/ \E x : versions' = Unref(versions, x)
        /\ UNCHANGED <<mem, imm, tables, next, current, job, flaws>>
        /\ AfterFlush(imm, versions', current, TRUE)
    BY <1>2 DEF FlushFails, memVars
  <2>2. bg' \in {Idle, Queued, [pc |-> "merge"]}
    BY <2>1, FlushEnds
  <2> QED BY <1>0, <1>1, <2>1, <2>2 DEF QuietLevels
<1>3. CASE InstallMove(FALSE)
  <2>1. /\ versions' = versions \/ \E x : versions' = Unref(versions, x)
        /\ UNCHANGED <<mem, imm, tables, next, current, job, flaws>>
        /\ bg' \in {Idle, Queued}
    BY <1>3, CallEnds DEF InstallMove, memVars, fileVars
  <2> QED BY <1>0, <1>1, <2>1 DEF QuietLevels
<1>4. CASE EndMerge(FALSE)
  <2>1. /\ versions' = versions \/ \E x : versions' = Unref(versions, x)
        /\ UNCHANGED <<mem, imm, tables, next, current, flaws>> /\ job' = NoJob
        /\ bg' \in {Idle, Queued}
    BY <1>4, CallEnds DEF EndMerge, memVars
  <2> QED BY <1>0, <1>1, <2>1 DEF QuietLevels
<1> QED BY <1>2, <1>3, <1>4

----------------------------------------------------------------------------
(* What is in memory is newer than what is in tables.                      *)

LEMMA TimeStays ==
    ASSUME TimeInv, CurrentFiles' = CurrentFiles, UNCHANGED <<mem, imm>>,
           \A f \in AllFiles(CurrentFiles) : tables'[f] = tables[f]
    PROVE  TimeInv'
<1>1. \A x \in imm', y \in mem' : x.s < y.s
  BY DEF TimeInv
<1>2. \A f \in AllFiles(CurrentFiles') : \A x \in tables'[f], y \in imm' \cup mem' : x.s < y.s
  BY DEF TimeInv, Older
<1> QED BY <1>1, <1>2 DEF TimeInv, Older

\* What is in memory and tables was written, and is older than the next write.
LEMMA WrittenBefore ==
    ASSUME CompactionInv
    PROVE  /\ LastSequence \in Nat
           /\ \A x \in mem \cup imm : x.s \in Nat /\ x.s <= LastSequence
           /\ \A f \in AllFiles(CurrentFiles) : \A x \in tables[f] : x.s \in Nat /\ x.s <= LastSequence
<1>1. EntriesInv /\ AllFiles(CurrentFiles) \subseteq DOMAIN tables
  BY CurrentIsThere DEF CompactionInv, EntriesInv
<1>2. \A e \in Written : e.s \in Nat /\ e.s <= LastSequence
  BY <1>1, WrittenOrdered DEF LastSequence
<1>3. LastSequence \in Nat
  BY <1>1 DEF EntriesInv, LastSequence
<1> QED BY <1>1, <1>2, <1>3 DEF EntriesInv, Holds

LEMMA TimeOfWrite ==
    ASSUME CompactionInv, TimeInv, NEW k, NEW del, Write(k, del)
    PROVE  TimeInv'
<1> DEFINE e == [k |-> k, s |-> LastSequence + 1, del |-> del]
<1>1. /\ UNCHANGED <<tables, versions, current>>
      /\ \/ mem' = {e} /\ imm' = mem
         \/ mem' = mem \cup {e} /\ imm' = imm
  BY DEF Write, fileVars, verVars
<1>2. e.s = LastSequence + 1 /\ LastSequence \in Nat
  BY WrittenBefore
<1> HIDE DEF e
<1>3. \A x \in mem \cup imm : x.s < e.s
  BY <1>2, WrittenBefore
<1>4. \A f \in AllFiles(CurrentFiles) : \A x \in tables[f] : x.s < e.s
  BY <1>2, WrittenBefore
<1>5. \A x \in imm', y \in mem' : x.s < y.s
  BY <1>1, <1>3 DEF TimeInv
<1>6. CurrentFiles' = CurrentFiles
  BY <1>1 DEF CurrentFiles, Files
<1>7. \A f \in AllFiles(CurrentFiles') : \A x \in tables'[f], y \in imm' \cup mem' : x.s < y.s
  BY <1>1, <1>4, <1>6 DEF TimeInv, Older
<1> QED BY <1>5, <1>7 DEF TimeInv, Older

LEMMA TimeOfQuietStep ==
    ASSUME CompactionInv, TimeInv, QuietStep
    PROVE  TimeInv'
<1>1. UNCHANGED <<tables, versions, current>>
  BY QuietSchedules DEF CompactionInv
<1>2. CurrentFiles' = CurrentFiles
  BY <1>1 DEF CurrentFiles, Files
<1>3. ASSUME NEW k, NEW del, Write(k, del) PROVE TimeInv'
  BY <1>3, TimeOfWrite
<1>4. CASE CallSwitches
  <2>1. (mem' = mem /\ imm' = imm) \/ (imm' = mem /\ mem' = {})
    BY <1>4 DEF CallSwitches
  <2>2. CASE imm' = mem /\ mem' = {}
    <3>1. \A f \in AllFiles(CurrentFiles') : \A x \in tables'[f], y \in imm' \cup mem' : x.s < y.s
      BY <1>1, <1>2, <2>2 DEF TimeInv, Older
    <3> QED BY <2>2, <3>1 DEF TimeInv, Older
  <2> QED BY <1>1, <1>2, <2>1, <2>2, TimeStays
<1>5. CASE \/ GetSnapshot \/ \E s \in snapshots : ReleaseSnapshot(s)
           \/ \E lo, hi \in Keys : lo <= hi /\ CompactRange(lo, hi)
           \/ CallFlushed \/ CallSchedules \/ CallAdvances
           \/ NothingToCompact \/ SkipBackgroundWork \/ SyncFails
  <2>1. UNCHANGED <<mem, imm>>
    BY <1>5 DEF GetSnapshot, ReleaseSnapshot, CompactRange, CallFlushed, CallSchedules, CallAdvances,
                NothingToCompact, SkipBackgroundWork, SyncFails, memVars
  <2> QED BY <1>1, <1>2, <2>1, TimeStays
<1> QED BY <1>3, <1>4, <1>5 DEF QuietStep

----------------------------------------------------------------------------
(* A flush.                                                                *)

LEMMA OrderOfStartFlush ==
    ASSUME CompactionInv, RefsInv', OrderInv, StartFlush
    PROVE  OrderInv'
<1>0. /\ BgInv /\ Counts \in [Nat -> Nat] /\ Counted(versions, Counts) /\ current \in DOMAIN versions
      /\ next \in Nat /\ CurrentFiles \in FileMaps
  BY CountsNat, CurrentIsThere DEF CompactionInv, RefsInv, BgInv
<1>1. /\ bg' = [pc |-> "build", number |-> next, base |-> current] /\ next' = next + 1
      /\ versions' = Ref(versions, current)
      /\ UNCHANGED <<mem, imm, tables, current, job, flaws>>
  BY DEF StartFlush, memVars
<1>2. CurrentFiles' = CurrentFiles
  <2>1. Keeps(versions', versions)
    BY <1>0, <1>1, RefCounted
  <2> QED BY <1>1, <2>1, CurrentStays
<1>3. TimeInv'
  BY <1>1, <1>2, TimeStays DEF OrderInv
<1>4. next' \in Nat /\ next <= next'
  BY <1>0, <1>1
<1>5. /\ LevelsOK(tables', CurrentFiles, flaws')
      /\ \A f \in AllFiles(CurrentFiles) : f < next /\ f < next'
  BY <1>0, <1>1, <1>4, VersionStays DEF OrderInv, LevelInv, VersionOK
<1>6. VersionOK(CurrentFiles)'
  BY <1>2, <1>5 DEF VersionOK
<1>7. bg'.pc = "build" /\ bg'.base = current' /\ bg'.number = next /\ "files" \notin DOMAIN bg'
  BY <1>1
<1>8. job' # NoJob => JobOK(tables', CurrentFiles', job', flaws') /\ MergeInv(tables', job')
  BY <1>1, <1>2, JobStaysInOrder DEF OrderInv
<1>9. LevelInv'
  BY <1>2, <1>5, <1>6, <1>7, <1>8 DEF LevelInv
<1> QED BY <1>3, <1>9 DEF OrderInv

\* A version with the table of a memtable: it is the newest of level 0, or
\* overlaps no table from there to its level.
LEMMA TablePlaced ==
    ASSUME CompactionInv, OrderInv, NEW w, flaws \subseteq w, NEW n \in Nat, Holds(imm),
           NEW T, T = Put(tables, n, imm),
           \A f \in AllFiles(CurrentFiles) : f < n, NEW L,
           L = PickLevelForMemTableOutput(T, CurrentFiles, FirstKey(imm).k, LastKey(imm).k)
    PROVE  /\ L \in Levels
           /\ \A f \in AllFiles(CurrentFiles) : T[f] = tables[f] /\ f # n
           /\ T[n] = imm
           /\ L > 0 => \A j \in 0..L : \A f \in CurrentFiles[j] :
                  Apart(tables[f], imm) /\ Newer(tables[f], imm)
           /\ LevelsOK(T, SaveTo({}, L, {n}), w)
<1>0. /\ EntriesInv /\ CurrentFiles \in FileMaps /\ AllFiles(CurrentFiles) \subseteq DOMAIN tables
      /\ AllFiles(CurrentFiles) \subseteq Nat
  BY CurrentIsThere DEF CompactionInv, EntriesInv
<1>1. T[n] = imm /\ \A f \in AllFiles(CurrentFiles) : T[f] = tables[f] /\ f # n
  BY <1>0 DEF Put
<1>2. L \in Levels /\ L \in Nat /\ 0 \in Levels
      /\ (L > 0 => \A j \in 0..L : ~OverlapInLevel(T, CurrentFiles[j], FirstKey(imm).k, LastKey(imm).k))
  BY PickedLevel, VersionsAssumption DEF Levels
<1>3. ASSUME L > 0, NEW j \in 0..L, NEW f \in CurrentFiles[j]
      PROVE  Apart(tables[f], imm) /\ Newer(tables[f], imm)
  <2>1. j \in Levels
    BY <1>2, VersionsAssumption DEF Levels
  <2>2. f \in AllFiles(CurrentFiles)
    BY <2>1 DEF AllFiles
  <2>3. ~Overlaps(T, f, FirstKey(imm).k, LastKey(imm).k)
    BY <1>2, <1>3 DEF OverlapInLevel
  <2>4. ~(FirstKey(tables[f]).k <= LastKey(imm).k /\ FirstKey(imm).k <= LastKey(tables[f]).k)
    BY <1>1, <2>2, <2>3 DEF Overlaps, Smallest, Largest
  <2>5. Holds(tables[f])
    BY <1>0, <2>2 DEF EntriesInv
  <2> QED BY <1>0, <2>4, <2>5, ApartByKeys
<1>4. \A f \in AllFiles(CurrentFiles) : Newer(imm, tables[f])
  <2>1. ASSUME NEW f \in AllFiles(CurrentFiles), NEW x \in imm, NEW y \in tables[f] PROVE x.s > y.s
    <3>1. y.s < x.s
      BY DEF OrderInv, TimeInv, Older
    <3>2. x.s \in Nat /\ y.s \in Nat
      BY WrittenBefore
    <3> QED BY <3>1, <3>2
  <2> QED BY <2>1 DEF Newer
<1> DEFINE v == CurrentFiles
           u == SaveTo({}, L, {n})
<1>5. \A l \in Levels : u[l] = v[l] \cup IF l = L THEN {n} ELSE {}
  BY DEF SaveTo
<1>6. \A l \in Levels : v[l] \subseteq AllFiles(CurrentFiles)
  BY DEF AllFiles
<1>7. LevelsOK(T, v, w)
  BY <1>1, LevelsFrame DEF OrderInv, LevelInv, VersionOK
<1>8. \A f \in AllFiles(CurrentFiles) : f \in Nat /\ f < n
  BY <1>0
<1> HIDE DEF u
<1>9. "slipped" \notin w => Disjoint(T, u)
  <2> SUFFICES ASSUME "slipped" \notin w, NEW l \in Levels \ {0}, NEW f \in u[l], NEW g \in u[l], f # g
               PROVE  Apart(T[f], T[g])
    BY DEF Disjoint
  <2>1. CASE f \in v[l] /\ g \in v[l]
    BY <1>7, <2>1 DEF LevelsOK, Disjoint
  <2>2. ASSUME NEW a, NEW b, a = n, l = L, b \in v[l] PROVE Apart(T[a], T[b]) /\ Apart(T[b], T[a])
    <3>1. L > 0 /\ L \in 0..L
      BY <1>2, <2>2
    <3>2. Apart(tables[b], imm) /\ T[b] = tables[b] /\ T[a] = imm
      BY <1>1, <1>3, <1>6, <2>2, <3>1
    <3> QED BY <3>2 DEF Apart
  <2> QED BY <1>5, <2>1, <2>2
<1>10. NewestFirst(T, u)
  <2> SUFFICES ASSUME NEW f \in u[0], NEW g \in u[0], f > g PROVE Newer(T[f], T[g])
    BY DEF NewestFirst
  <2>1. CASE f \in v[0] /\ g \in v[0]
    BY <1>7, <2>1 DEF LevelsOK, NewestFirst
  <2>2. CASE f = n /\ g \in v[0]
    BY <1>1, <1>2, <1>4, <1>6, <2>2
  <2>3. ~(g = n /\ f \in v[0]) /\ ~(g = n /\ f = n)
    BY <1>2, <1>6, <1>8
  <2> QED BY <1>2, <1>5, <2>1, <2>2, <2>3
<1>11. w = {} => NewerAbove(T, u)
  <2> SUFFICES ASSUME w = {}, NEW l \in Levels, NEW m \in Levels, l < m, NEW f \in u[l], NEW g \in u[m]
               PROVE  Newer(T[f], T[g])
    BY DEF NewerAbove
  <2>1. CASE f \in v[l] /\ g \in v[m]
    BY <1>7, <2>1 DEF LevelsOK, NewerAbove
  <2>2. CASE f = n /\ l = L /\ g \in v[m]
    BY <1>1, <1>4, <1>6, <2>2
  <2>3. CASE g = n /\ m = L /\ f \in v[l]
    <3>1. L > 0 /\ l \in 0..L
      BY <1>2, <2>3 DEF Levels
    <3> QED BY <1>1, <1>3, <1>6, <2>3, <3>1
  <2>4. ~(l = L /\ m = L)
    BY <1>2
  <2> QED BY <1>5, <2>1, <2>2, <2>3, <2>4
<1> QED BY <1>1, <1>2, <1>3, <1>9, <1>10, <1>11 DEF LevelsOK, u


\* The merge under way, once a table has been placed.
LEMMA JobSeesTable ==
    ASSUME CompactionInv, OrderInv, job # NoJob, NEW n, Holds(imm), NEW T, NEW L,
           T = Put(tables, n, imm), n \notin job.outputs, L \in Levels,
           \A f \in AllFiles(CurrentFiles) : T[f] = tables[f] /\ f # n,
           L = LevelFor(T, n), NEW w, flaws \subseteq w, SlipsBetween(T, n) => "slipped" \in w
    PROVE  JobOK(T, SaveTo({}, L, {n}), job, w)
<1> DEFINE v == CurrentFiles
           u == SaveTo({}, L, {n})
           F == job.in0 \cup job.in1
           E == Entries(T, F)
<1>0. T[n] = imm /\ EntriesInv /\ AllFiles(v) \subseteq DOMAIN tables
  BY CurrentIsThere DEF Put, CompactionInv, EntriesInv
<1>1. JobOK(T, v, job, w)
  BY JobFrame DEF OrderInv, LevelInv
<1>2. /\ job.level \in Levels /\ job.level + 1 \in Levels /\ job.level + 1 # 0 /\ job.level \in Nat
      /\ F \subseteq AllFiles(v)
  BY <1>1, InputsInVersion
<1>3. \A l \in Levels : u[l] = v[l] \cup IF l = L THEN {n} ELSE {}
  BY DEF SaveTo
<1> HIDE DEF u
<1>4. AllFiles(u) \subseteq AllFiles(v) \cup {n}
  BY <1>3 DEF AllFiles
<1>5. /\ job.level \in 0..NumLevels - 2
      /\ job.in0 \subseteq u[job.level] /\ job.in1 \subseteq u[job.level + 1]
      /\ job.outputs \cap AllFiles(u) = {}
  BY <1>1, <1>2, <1>3, <1>4 DEF JobOK
<1>6. ASSUME "slipped" \notin w, NEW g \in u[job.level + 1] \ job.in1
      PROVE  Apart(T[g], E)
  <2>1. CASE g \in v[job.level + 1]
    BY <1>1, <1>6, <2>1 DEF JobOK
  <2>2. CASE g = n /\ L = job.level + 1
    <3>1. CASE F = {}
      BY <3>1 DEF Entries, Apart, Precedes
    <3>2. CASE F # {}
      <4>1. E = Entries(tables, F)
        BY <1>2 DEF Entries
      <4>2. Holds(E)
        BY <1>0, <1>2, <3>2, <4>1, EntriesHold
      <4>3. ~Overlaps(T, n, FirstKey(E).k, LastKey(E).k)
        BY <1>6, <2>2 DEF SlipsBetween
      <4> HIDE DEF E
      <4>4. ~(FirstKey(imm).k <= LastKey(E).k /\ FirstKey(E).k <= LastKey(imm).k)
        BY <1>0, <4>3 DEF Overlaps, Smallest, Largest
      <4> QED BY <1>0, <2>2, <4>2, <4>4, ApartByKeys
    <3> QED BY <3>1, <3>2
  <2> QED BY <1>2, <1>3, <1>6, <2>1, <2>2
<1>7. ASSUME w = {}, NEW f \in u[job.level] \ job.in0, NEW g \in job.in0
      PROVE  Newer(T[f], T[g])
  <2>1. CASE f \in v[job.level]
    BY <1>1, <1>7, <2>1 DEF JobOK
  <2>2. CASE f = n
    <3>1. T[g] = tables[g] /\ g \in AllFiles(v)
      BY <1>2
    <3>2. ASSUME NEW x \in imm, NEW y \in tables[g] PROVE x.s > y.s
      <4>1. y.s < x.s
        BY <3>1 DEF OrderInv, TimeInv, Older
      <4>2. x.s \in Nat /\ y.s \in Nat
        BY <3>1, WrittenBefore
      <4> QED BY <4>1, <4>2
    <3> QED BY <1>0, <2>2, <3>1, <3>2 DEF Newer
  <2> QED BY <1>2, <1>3, <1>7, <2>1, <2>2
<1> HIDE DEF E
<1>8. JobOK(T, u, job, w)
  BY <1>5, <1>6, <1>7 DEF JobOK, E
<1> QED BY <1>8 DEF u

LEMMA OrderOfBuildTable ==
    ASSUME CompactionInv, RefsInv', OrderInv, BuildTable
    PROVE  OrderInv'
<1> DEFINE n == bg.number
           T == Put(tables, n, imm)
           L == LevelFor(T, n)
           u == SaveTo({}, L, {n})
<1>0. /\ BgInv /\ EntriesInv /\ next \in Nat /\ CurrentFiles \in FileMaps
      /\ \A x \in DOMAIN versions : DOMAIN versions[x] = VersionFields
  BY CurrentIsThere DEF CompactionInv, RefsInv, Counted, BgInv
<1>1. /\ bg.pc = "build" /\ tables' = T /\ bg' = [pc |-> "flushlog", files |-> u]
      /\ versions' = Unref(versions, bg.base)
      /\ flaws' = flaws \cup IF SlipsBetween(T, n) THEN {"slipped"} ELSE {}
      /\ UNCHANGED <<mem, imm, next, current, job>>
  BY DEF BuildTable, PlaceTable, memVars
<1>2. /\ n \in Nat /\ n < next /\ bg.base = current /\ Holds(imm)
      /\ \A f \in AllFiles(CurrentFiles) : f < n
      /\ job # NoJob => n \notin job.outputs
  <2>1. n \in Nat /\ n < next /\ imm # {} /\ imm \subseteq Written
    BY <1>0, <1>1, BgFields DEF BgInv, EntriesInv
  <2>2. bg.base = current /\ (\A f \in AllFiles(CurrentFiles) : f < n)
    BY <1>1 DEF OrderInv, LevelInv
  <2> QED BY <1>0, <1>1, <2>1, <2>2 DEF BgInv, Holds
<1>3. CurrentFiles' = CurrentFiles
  <2>1. Keeps(versions', versions)
    BY <1>0, <1>1, UnrefKeeps
  <2> QED BY <1>1, <2>1, CurrentStays
<1> HIDE DEF n, T, L, u
<1>4. T = Put(tables, n, imm) /\ L = LevelFor(T, n)
  BY DEF T, L
<1>5. T[n] = imm
  BY <1>4 DEF Put
<1>6. L = PickLevelForMemTableOutput(T, CurrentFiles, FirstKey(imm).k, LastKey(imm).k)
  BY <1>2, <1>4, <1>5 DEF LevelFor, Smallest, Largest, CurrentFiles
<1>7. flaws \subseteq flaws' /\ (SlipsBetween(T, n) => "slipped" \in flaws')
  BY <1>1
<1>8. /\ L \in Levels /\ \A f \in AllFiles(CurrentFiles) : T[f] = tables[f] /\ f # n
      /\ LevelsOK(T, SaveTo({}, L, {n}), flaws')
  BY <1>2, <1>4, <1>6, <1>7, TablePlaced
<1>9. TimeInv'
  BY <1>1, <1>3, <1>8, TimeStays DEF OrderInv
<1>10. AllFiles(u) \subseteq AllFiles(CurrentFiles) \cup {n}
  BY <1>0, <1>2, SavedFiles DEF u
<1>11. VersionOK(CurrentFiles)'
  <2>1. LevelsOK(tables', CurrentFiles, flaws') /\ \A f \in AllFiles(CurrentFiles) : f < next'
    BY <1>0, <1>1, <1>7, <1>8, VersionStays DEF OrderInv, LevelInv
  <2> QED BY <1>3, <2>1 DEF VersionOK
<1>12. VersionOK(bg.files)'
  <2>1. LevelsOK(tables', bg'.files, flaws')
    BY <1>1, <1>8 DEF u
  <2>2. \A f \in AllFiles(bg'.files) : f < next'
    BY <1>1, <1>2, <1>10 DEF OrderInv, LevelInv, VersionOK
  <2> QED BY <2>1, <2>2 DEF VersionOK
<1>13. ASSUME job' # NoJob
       PROVE  /\ JobOK(tables', CurrentFiles', job', flaws') /\ MergeInv(tables', job')
              /\ JobOK(tables', bg'.files, job', flaws')
  <2>1. job # NoJob /\ n \notin job.outputs
    BY <1>1, <1>2, <1>13
  <2>2. \A f \in job.outputs : T[f] = tables[f]
    <3>1. job.outputs \subseteq DOMAIN tables
      BY <1>0, <2>1 DEF BgInv, EntriesInv
    <3> QED BY <1>4, <2>1, <3>1 DEF Put
  <2>3. JobOK(tables', CurrentFiles', job', flaws') /\ MergeInv(tables', job')
    BY <1>1, <1>3, <1>7, <1>8, <1>13, <2>2, JobStaysInOrder DEF OrderInv
  <2>4. JobOK(T, SaveTo({}, L, {n}), job, flaws')
    BY <1>2, <1>4, <1>7, <1>8, <2>1, JobSeesTable
  <2> QED BY <1>1, <2>3, <2>4 DEF u
<1>14. \A f \in AllFiles(bg'.files) : f \in AllFiles(CurrentFiles') \/ tables'[f] = imm'
  BY <1>1, <1>3, <1>5, <1>10
<1>15. bg'.pc = "flushlog"
  BY <1>1
<1>16. LevelInv'
  BY <1>11, <1>12, <1>13, <1>14, <1>15 DEF LevelInv
<1> QED BY <1>9, <1>16 DEF OrderInv

LEMMA OrderOfInstallFlush ==
    ASSUME CompactionInv, RefsInv', OrderInv, InstallFlush
    PROVE  OrderInv'
<1>0. BgInv /\ bg.pc = "flushlog" /\ bg.files \in FileMaps /\ "files" \in DOMAIN bg
  BY BgFields DEF CompactionInv, InstallFlush
<1>1. /\ versions' = AppendVersion(versions, bg.files) /\ current' = current + 1 /\ imm' = {}
      /\ AfterFlush({}, versions', current + 1, bg_error_)
      /\ UNCHANGED <<mem, tables, next, job, flaws>>
  BY DEF InstallFlush
<1>2. CurrentFiles' = bg.files
  BY <1>0, <1>1, CurrentIsNew
<1>3. bg' \in {Idle, Queued, [pc |-> "merge"]}
  BY <1>1, FlushEnds
<1>4. bg'.pc \in {"idle", "queued", "merge"} /\ "files" \notin DOMAIN bg'
  BY <1>3, ThreadRecords
<1>5. TimeInv'
  <2>1. ASSUME NEW f \in AllFiles(bg.files), NEW x \in tables[f], NEW y \in mem PROVE x.s < y.s
    <3>1. f \in AllFiles(CurrentFiles) \/ tables[f] = imm
      BY <1>0 DEF OrderInv, LevelInv
    <3> QED BY <3>1 DEF OrderInv, TimeInv, Older
  <2> QED BY <1>1, <1>2, <2>1 DEF TimeInv, Older
<1>6. VersionOK(CurrentFiles)'
  BY <1>0, <1>1, <1>2 DEF OrderInv, LevelInv, VersionOK
<1>7. job' # NoJob => JobOK(tables', CurrentFiles', job', flaws') /\ MergeInv(tables', job')
  BY <1>0, <1>1, <1>2 DEF OrderInv, LevelInv
<1>8. LevelInv'
  BY <1>4, <1>6, <1>7 DEF LevelInv
<1> QED BY <1>5, <1>8 DEF OrderInv

----------------------------------------------------------------------------
(* The start of a compaction.                                              *)

\* Its inputs are as JobOK wants them.
LEMMA CandidatesInOrder ==
    ASSUME CompactionInv, OrderInv, NEW c \in Candidates, NEW w, flaws \subseteq w,
           Parts(c) => w # {}
    PROVE  /\ c.level \in 0..NumLevels - 2
           /\ c.in0 \subseteq CurrentFiles[c.level] /\ c.in0 # {} /\ IsFiniteSet(c.in0)
           /\ c.in1 \subseteq CurrentFiles[c.level + 1]
           /\ "slipped" \notin w => \A g \in CurrentFiles[c.level + 1] \ c.in1 :
                  Apart(tables[g], Entries(tables, c.in0 \cup c.in1))
           /\ w = {} => \A f \in CurrentFiles[c.level] \ c.in0, g \in c.in0 :
                  Newer(tables[f], tables[g]) /\ Newer(tables[g], tables[f])
<1>0. EntriesInv /\ CurrentFiles \in FileMaps /\ AllFiles(CurrentFiles) \subseteq DOMAIN tables
  BY CurrentIsThere DEF CompactionInv, EntriesInv
<1>1. /\ c.level \in 0..NumLevels - 2
      /\ c.in0 \subseteq CurrentFiles[c.level] /\ c.in0 # {}
      /\ c.in1 = Over(tables, CurrentFiles, c.level + 1, c.in0)
      /\ IsFiniteSet(c.in0)
  BY CandidateInputs DEF OrderInv, LevelInv, VersionOK
<1>2. c.in1 \subseteq CurrentFiles[c.level + 1]
  BY <1>1, OverAreFiles
<1>3. ASSUME "slipped" \notin w, NEW g \in CurrentFiles[c.level + 1] \ c.in1
      PROVE  Apart(tables[g], Entries(tables, c.in0 \cup c.in1))
  <2>1. Disjoint(tables, CurrentFiles)
    BY <1>3 DEF OrderInv, LevelInv, VersionOK, LevelsOK
  <2> QED BY <1>0, <1>1, <1>3, <2>1, OthersLieApart
<1>4. ASSUME w = {}, NEW f \in CurrentFiles[c.level] \ c.in0, NEW g \in c.in0
      PROVE  Newer(tables[f], tables[g]) /\ Newer(tables[g], tables[f])
  <2>1. \A x \in tables[g], y \in tables[f] : x.k # y.k
    BY <1>4 DEF Parts, SharesKey
  <2> QED BY <2>1 DEF Newer
<1> QED BY <1>1, <1>2, <1>3, <1>4

LEMMA Moved ==
    ASSUME CompactionInv, OrderInv, NEW c \in Candidates, NEW w, flaws \subseteq w,
           Parts(c) => w # {}, IsTrivialMove(tables, c)
    PROVE  LevelsOK(tables, SaveTo(c.in0, c.level + 1, c.in0), w)
<1> DEFINE v == CurrentFiles
           lv == c.level
           u == SaveTo(c.in0, c.level + 1, c.in0)
<1>1. c.in1 = {} /\ Cardinality(c.in0) = 1
  BY DEF IsTrivialMove
<1>2. /\ lv \in 0..NumLevels - 2 /\ c.in0 \subseteq v[lv] /\ IsFiniteSet(c.in0)
      /\ "slipped" \notin w => \A g \in v[lv + 1] : Apart(tables[g], Entries(tables, c.in0))
      /\ w = {} => \A f \in v[lv] \ c.in0, g \in c.in0 : Newer(tables[f], tables[g])
  <2>1. c.in0 \cup c.in1 = c.in0 /\ v[lv + 1] \ c.in1 = v[lv + 1]
    BY <1>1
  <2> QED BY <2>1, CandidatesInOrder
<1>3. PICK f : c.in0 = {f}
  BY <1>1, <1>2, FS_Singleton
<1>4. Entries(tables, c.in0) = tables[f] /\ f \in v[lv]
  BY <1>2, <1>3 DEF Entries
<1>5. /\ lv \in Levels /\ lv + 1 \in Levels /\ lv + 1 # 0 /\ lv \in Nat /\ 0 \in Levels
      /\ \A l \in Levels : l \in Nat
  BY <1>2, VersionsAssumption DEF Levels
<1>6. \A l \in Levels : u[l] = (v[l] \ {f}) \cup IF l = lv + 1 THEN {f} ELSE {}
  BY <1>3 DEF SaveTo
<1>7. LevelsOK(tables, v, w)
  BY LevelsFrame DEF OrderInv, LevelInv, VersionOK
<1> HIDE DEF u, v, lv
<1>8. "slipped" \notin w => Disjoint(tables, u)
  <2> SUFFICES ASSUME "slipped" \notin w, NEW l \in Levels \ {0}, NEW a \in u[l], NEW b \in u[l], a # b
               PROVE  Apart(tables[a], tables[b])
    BY DEF Disjoint
  <2>1. CASE a \in v[l] /\ b \in v[l]
    BY <1>7, <2>1 DEF LevelsOK, Disjoint
  <2>2. CASE l = lv + 1 /\ (a = f \/ b = f)
    <3>1. \A g \in v[lv + 1] : Apart(tables[g], tables[f]) /\ Apart(tables[f], tables[g])
      BY <1>2, <1>4 DEF Apart
    <3> QED BY <1>6, <2>2, <3>1
  <2> QED BY <1>6, <2>1, <2>2
<1>9. NewestFirst(tables, u)
  <2>1. u[0] \subseteq v[0]
    BY <1>5, <1>6
  <2> QED BY <1>7, <2>1 DEF LevelsOK, NewestFirst
<1>10. w = {} => NewerAbove(tables, u)
  <2> SUFFICES ASSUME w = {}, NEW l \in Levels, NEW m \in Levels, l < m, NEW a \in u[l], NEW b \in u[m]
               PROVE  Newer(tables[a], tables[b])
    BY DEF NewerAbove
  <2>0. \A i, j \in Levels : i < j => \A x \in v[i], y \in v[j] : Newer(tables[x], tables[y])
    BY <1>7 DEF LevelsOK, NewerAbove
  <2>1. CASE a \in v[l] /\ b \in v[m]
    BY <2>0, <2>1
  <2>2. CASE a = f /\ l = lv + 1 /\ b \in v[m]
    <3>1. lv \in Nat /\ m \in Nat /\ lv + 1 < m
      BY <1>5, <2>2
    <3>2. lv < m
      BY <3>1
    <3> QED BY <1>4, <1>5, <2>0, <2>2, <3>2
  <2>3. CASE b = f /\ m = lv + 1 /\ a \in v[l] /\ a # f
    <3>1. l < lv \/ l = lv
      BY <1>5, <2>3
    <3>2. CASE l < lv
      BY <1>4, <1>5, <2>0, <2>3, <3>2
    <3>3. CASE l = lv
      BY <1>2, <1>3, <2>3, <3>3
    <3> QED BY <3>1, <3>2, <3>3
  <2>4. ~(l = lv + 1 /\ m = lv + 1)
    BY <1>5
  <2> QED BY <1>6, <2>1, <2>2, <2>3, <2>4
<1> QED BY <1>8, <1>9, <1>10 DEF LevelsOK, u, v, lv

LEMMA OrderOfStartCompaction ==
    ASSUME CompactionInv, RefsInv', OrderInv, StartCompaction
    PROVE  OrderInv'
<1>0. /\ BgInv /\ Counts \in [Nat -> Nat] /\ Counted(versions, Counts) /\ current \in DOMAIN versions
      /\ next \in Nat /\ CurrentFiles \in FileMaps /\ AllFiles(CurrentFiles) \subseteq Nat
  BY CountsNat, CurrentIsThere DEF CompactionInv, RefsInv, BgInv
<1>1. /\ bg.pc = "queued" /\ versions' = Ref(versions, current)
      /\ UNCHANGED <<mem, imm, tables, next, current>>
  BY DEF StartCompaction, MayStart, memVars, fileVars
<1>2. PICK c \in Candidates : /\ StartMove(c) \/ StartMerge(c)
                              /\ flaws' = flaws \cup IF Parts(c) THEN {"parted"} ELSE {}
  BY DEF StartCompaction
<1>3. CurrentFiles' = CurrentFiles
  <2>1. Keeps(versions', versions)
    BY <1>0, <1>1, RefCounted
  <2> QED BY <1>1, <2>1, CurrentStays
<1>4. TimeInv'
  BY <1>1, <1>3, TimeStays DEF OrderInv
<1>5. flaws \subseteq flaws' /\ (Parts(c) => flaws' # {})
  BY <1>2
<1>6. VersionOK(CurrentFiles)'
  <2>1. LevelsOK(tables', CurrentFiles, flaws') /\ \A f \in AllFiles(CurrentFiles) : f < next'
    BY <1>0, <1>1, <1>5, VersionStays DEF OrderInv, LevelInv
  <2> QED BY <1>3, <2>1 DEF VersionOK
<1>7. /\ c.level \in 0..NumLevels - 2
      /\ c.in0 \subseteq CurrentFiles[c.level] /\ c.in1 \subseteq CurrentFiles[c.level + 1]
      /\ "slipped" \notin flaws' => \A g \in CurrentFiles[c.level + 1] \ c.in1 :
             Apart(tables[g], Entries(tables, c.in0 \cup c.in1))
      /\ flaws' = {} => \A f \in CurrentFiles[c.level] \ c.in0, g \in c.in0 : Newer(tables[f], tables[g])
  BY <1>5, CandidatesInOrder
<1>8. CASE StartMove(c)
  <2> DEFINE u == SaveTo(c.in0, c.level + 1, c.in0)
  <2>1. bg' = [pc |-> "movelog", base |-> current, files |-> u] /\ job' = job /\ IsTrivialMove(tables, c)
    BY <1>8 DEF StartMove
  <2>2. job = NoJob
    BY <1>0, <1>1 DEF BgInv
  <2>3. LevelsOK(tables, u, flaws')
    BY <1>5, <2>1, Moved
  <2>4. AllFiles(u) \subseteq AllFiles(CurrentFiles)
    <3>1. c.in0 \subseteq AllFiles(CurrentFiles)
      BY CandidatesAreFiles DEF CompactionInv
    <3> QED BY <1>0, <3>1, SavedFiles
  <2> HIDE DEF u
  <2>5. VersionOK(bg.files)'
    <3>1. \A f \in AllFiles(bg'.files) : f < next'
      BY <1>1, <2>1, <2>4 DEF OrderInv, LevelInv, VersionOK
    <3> QED BY <1>1, <2>1, <2>3, <3>1 DEF VersionOK
  <2>6. bg'.pc = "movelog" /\ AllFiles(bg'.files) \subseteq AllFiles(CurrentFiles')
    BY <1>3, <2>1, <2>4
  <2>7. LevelInv'
    BY <1>6, <2>1, <2>2, <2>5, <2>6 DEF LevelInv
  <2> QED BY <1>4, <2>7 DEF OrderInv
<1>9. CASE StartMerge(c)
  <2>1. bg' = [pc |-> "merge"] /\ job' = NewJob(c, manual)
    BY <1>9 DEF StartMerge
  <2>2. /\ job'.level = c.level /\ job'.in0 = c.in0 /\ job'.in1 = c.in1
        /\ job'.outputs = {} /\ job'.builder = 0 /\ job'.rest = Entries(tables, c.in0 \cup c.in1)
    BY <2>1, NewJobFields
  <2>3. MergeInv(tables', job')
    BY <1>1, <2>2 DEF MergeInv
  <2>4. JobOK(tables', CurrentFiles', job', flaws')
    BY <1>1, <1>3, <1>7, <2>2 DEF JobOK
  <2>5. bg'.pc = "merge" /\ "files" \notin DOMAIN bg'
    BY <2>1
  <2>6. LevelInv'
    BY <1>6, <2>3, <2>4, <2>5 DEF LevelInv
  <2> QED BY <1>4, <2>6 DEF OrderInv
<1> QED BY <1>2, <1>8, <1>9

LEMMA OrderOfMove ==
    ASSUME CompactionInv, RefsInv', OrderInv, InstallMove(TRUE)
    PROVE  OrderInv'
<1>0. BgInv /\ bg.pc = "movelog" /\ bg.files \in FileMaps /\ "files" \in DOMAIN bg /\ job = NoJob
  BY BgFields DEF CompactionInv, InstallMove, BgInv
<1>1. /\ versions' = Unref(AppendVersion(versions, bg.files), bg.base) /\ current' = current + 1
      /\ bg' \in {Idle, Queued} /\ UNCHANGED <<mem, imm, tables, next, job, flaws>>
  BY CallEnds DEF InstallMove, memVars, fileVars
<1>2. CurrentFiles' = bg.files
  BY <1>0, <1>1, CurrentIsNew
<1>3. bg'.pc \in {"idle", "queued"} /\ "files" \notin DOMAIN bg'
  BY <1>1, ThreadRecords
<1>4. TimeInv'
  <2>1. AllFiles(bg.files) \subseteq AllFiles(CurrentFiles)
    BY <1>0 DEF OrderInv, LevelInv
  <2> QED BY <1>1, <1>2, <2>1 DEF OrderInv, TimeInv, Older
<1>5. VersionOK(CurrentFiles)'
  BY <1>0, <1>1, <1>2 DEF OrderInv, LevelInv, VersionOK
<1>6. LevelInv'
  BY <1>0, <1>1, <1>3, <1>5 DEF LevelInv
<1> QED BY <1>4, <1>6 DEF OrderInv

----------------------------------------------------------------------------
(* A merge.                                                                *)

LEMMA OutputsInOrder ==
    ASSUME CompactionInv, OrderInv, MergeNext
    PROVE  /\ \A f \in AllFiles(CurrentFiles) : tables'[f] = tables[f]
           /\ job'.outputs \cap AllFiles(CurrentFiles) = {}
           /\ MergeInv(tables', job')
<1>0. BgInv /\ next \in Nat
  BY DEF CompactionInv, BgInv
<1>1. /\ job # NoJob /\ job'.in0 = job.in0 /\ job'.in1 = job.in1
      /\ \A o \in job.outputs : o \in Nat /\ o < next
  BY <1>0, TurnOfMerge DEF BgInv
<1> DEFINE F == job.in0 \cup job.in1
           E == Entries(tables, F)
<1>2. JobOK(tables, CurrentFiles, job, flaws) /\ MergeInv(tables, job)
  BY <1>1 DEF OrderInv, LevelInv
<1>3. F \subseteq AllFiles(CurrentFiles) /\ job.outputs \cap AllFiles(CurrentFiles) = {}
  BY <1>2, InputsInVersion DEF JobOK
<1>4. \A f \in AllFiles(CurrentFiles) : f < next
  BY DEF OrderInv, LevelInv, VersionOK
<1>5. /\ job.rest \subseteq E
      /\ \A o \in job.outputs : tables[o] \subseteq E /\ Precedes(tables[o], job.rest)
      /\ \A o, p \in job.outputs : o < p => Precedes(tables[o], tables[p])
      /\ job.builder # 0 => \A o \in job.outputs : o <= job.builder
  BY <1>2 DEF MergeInv
<1>6. CASE /\ UNCHANGED tables /\ job'.outputs = job.outputs /\ job'.builder \in {0, job.builder}
           /\ job'.rest \subseteq job.rest
  <2>1. \A o \in job.outputs : Precedes(tables[o], job'.rest)
    BY <1>5, <1>6 DEF Precedes
  <2>2. MergeInv(tables', job')
    BY <1>1, <1>5, <1>6, <2>1 DEF MergeInv
  <2> QED BY <1>3, <1>6, <2>2
<1>7. ASSUME NEW e \in InputAt, NEW out \in {next} \cup job.outputs, out \in {next} \cup ({job.builder} \ {0}),
             tables' = Put(tables, out, IF out = next THEN {e} ELSE tables[out] \cup {e}),
             job'.outputs = job.outputs \cup {out}, job'.builder \in {0, out},
             job'.rest = job.rest \ {e}
      PROVE  /\ \A f \in AllFiles(CurrentFiles) : tables'[f] = tables[f]
             /\ job'.outputs \cap AllFiles(CurrentFiles) = {}
             /\ MergeInv(tables', job')
  <2> DEFINE G == IF out = next THEN {e} ELSE tables[out] \cup {e}
  <2>1. out \notin AllFiles(CurrentFiles)
    BY <1>0, <1>3, <1>4, <1>7
  <2>2. tables'[out] = G /\ \A f \in job.outputs \cup AllFiles(CurrentFiles) :
                                f # out => f \in DOMAIN tables /\ tables'[f] = tables[f]
    <3>1. job.outputs \cup AllFiles(CurrentFiles) \subseteq DOMAIN tables
      BY <1>0, <1>1, CurrentIsThere DEF CompactionInv, EntriesInv, BgInv
    <3> QED BY <1>7, <3>1 DEF Put
  <2>3. \A f \in AllFiles(CurrentFiles) : tables'[f] = tables[f]
    BY <2>1, <2>2
  <2>4. Entries(tables', F) = E
    BY <1>3, <2>3 DEF Entries
  <2>5. e \in job.rest /\ \A y \in job.rest \ {e} : Before(e, y)
    BY <1>7, Zenon DEF InputAt, FirstOf
  <2>6. \A o \in job.outputs : o <= out
    BY <1>0, <1>1, <1>5, <1>7
  <2>7. out \in job.outputs => out # next
    BY <1>0, <1>1
  <2>8. G = {e} \/ (out \in job.outputs /\ G = tables[out] \cup {e})
    BY <1>7
  <2> HIDE DEF G, E
  <2>9. G \subseteq E /\ Precedes(G, job'.rest)
    BY <1>5, <1>7, <2>5, <2>8 DEF Precedes
  <2>10. \A o \in job'.outputs : tables'[o] \subseteq E /\ Precedes(tables'[o], job'.rest)
    <3>1. \A o \in job.outputs : Precedes(tables[o], job'.rest)
      BY <1>5, <1>7 DEF Precedes
    <3> QED BY <1>5, <1>7, <2>2, <2>9, <3>1
  <2>11. ASSUME NEW o \in job'.outputs, NEW p \in job'.outputs, o < p
         PROVE  Precedes(tables'[o], tables'[p])
    <3>0. out \in Nat /\ o \in Nat /\ p \in Nat /\ o # out /\ o \in job.outputs
      BY <1>0, <1>1, <1>7, <2>6, <2>11
    <3>1. CASE p # out
      BY <1>5, <1>7, <2>2, <2>11, <3>0, <3>1
    <3>2. CASE p = out
      <4>1. Precedes(tables[o], {e})
        BY <1>5, <2>5, <3>0 DEF Precedes
      <4>2. out \in job.outputs => Precedes(tables[o], tables[out])
        BY <1>5, <2>11, <3>0, <3>2
      <4>3. Precedes(tables[o], G)
        BY <2>8, <4>1, <4>2 DEF Precedes
      <4> QED BY <2>2, <3>0, <3>2, <4>3
    <3> QED BY <3>1, <3>2
  <2>12. job'.builder # 0 => \A o \in job'.outputs : o <= job'.builder
    BY <1>0, <1>1, <1>7, <2>6
  <2>13. job'.rest \subseteq Entries(tables', job'.in0 \cup job'.in1)
         /\ Entries(tables', job'.in0 \cup job'.in1) = E
    BY <1>1, <1>5, <1>7, <2>4
  <2>14. MergeInv(tables', job')
    BY <2>10, <2>11, <2>12, <2>13 DEF MergeInv
  <2> QED BY <1>3, <1>7, <2>1, <2>3, <2>14
<1> QED BY <1>0, <1>6, <1>7, TurnOfMerge

LEMMA OrderOfMergeNext ==
    ASSUME CompactionInv, RefsInv', OrderInv, MergeNext
    PROVE  OrderInv'
<1>0. BgInv /\ next \in Nat /\ CurrentFiles \in FileMaps
  BY CurrentIsThere DEF CompactionInv, BgInv
<1>1. /\ bg.pc = "merge" /\ job # NoJob /\ job'.level = job.level
      /\ job'.in0 = job.in0 /\ job'.in1 = job.in1
      /\ UNCHANGED <<mem, imm, versions, current, bg>> /\ flaws' = flaws
      /\ next' = next \/ next' = next + 1
  BY <1>0, TurnOfMerge DEF MergeNext, memVars
<1>2. /\ \A f \in AllFiles(CurrentFiles) : tables'[f] = tables[f]
      /\ job'.outputs \cap AllFiles(CurrentFiles) = {}
      /\ MergeInv(tables', job')
  BY OutputsInOrder
<1>3. CurrentFiles' = CurrentFiles
  BY <1>1 DEF CurrentFiles, Files
<1>4. TimeInv'
  BY <1>1, <1>2, <1>3, TimeStays DEF OrderInv
<1>5. VersionOK(CurrentFiles)'
  <2>1. next' \in Nat /\ next <= next'
    BY <1>0, <1>1
  <2>2. LevelsOK(tables', CurrentFiles, flaws') /\ \A f \in AllFiles(CurrentFiles) : f < next'
    BY <1>0, <1>1, <1>2, <2>1, VersionStays DEF OrderInv, LevelInv
  <2> QED BY <1>3, <2>2 DEF VersionOK
<1>6. JobOK(tables', CurrentFiles', job', flaws')
  <2>1. JobOK(tables', CurrentFiles, job, flaws)
    BY <1>1, <1>2, JobFrame DEF OrderInv, LevelInv
  <2> QED BY <1>1, <1>2, <1>3, <2>1 DEF JobOK
<1>7. bg'.pc = "merge" /\ "files" \notin DOMAIN bg'
  BY <1>0, <1>1, BgFields
<1>8. LevelInv'
  BY <1>2, <1>5, <1>6, <1>7 DEF LevelInv
<1> QED BY <1>4, <1>8 DEF OrderInv


\* The version that a merge makes: its outputs lie where its inputs were.
LEMMA MergedInOrder ==
    ASSUME CompactionInv, OrderInv, job # NoJob
    PROVE  LevelsOK(tables, InstallCompactionResults, flaws)
<1> DEFINE v == CurrentFiles
           lv == job.level
           F == job.in0 \cup job.in1
           E == Entries(tables, F)
           O == job.outputs
           u == InstallCompactionResults
           T == tables
<1>1. JobOK(tables, v, job, flaws) /\ MergeInv(tables, job) /\ LevelsOK(tables, v, flaws)
  BY DEF OrderInv, LevelInv, VersionOK
<1>2. /\ lv \in Levels /\ lv + 1 \in Levels /\ lv + 1 # 0 /\ lv \in Nat
      /\ 0 \in Levels /\ \A l \in Levels : l \in Nat
  BY <1>1, InputsInVersion, VersionsAssumption DEF Levels
<1>3. /\ job.in0 \subseteq v[lv] /\ job.in1 \subseteq v[lv + 1]
      /\ "slipped" \notin flaws => \A g \in v[lv + 1] \ job.in1 : Apart(T[g], E)
      /\ flaws = {} => \A f \in v[lv] \ job.in0, g \in job.in0 : Newer(T[f], T[g])
  BY <1>1 DEF JobOK
<1>4. \A o \in O : T[o] \subseteq E
  BY <1>1 DEF MergeInv
<1>5. \A o, p \in O : o < p => Precedes(T[o], T[p])
  BY <1>1 DEF MergeInv
<1>6. \A o \in O : o \in Nat
  BY DEF CompactionInv, BgInv
<1>7. /\ \A l \in Levels : u[l] = (v[l] \ F) \cup IF l = lv + 1 THEN O ELSE {}
      /\ \A x \in E : \E g \in F : x \in T[g]
  BY DEF InstallCompactionResults, SaveTo, Entries
<1>8. u[lv + 1] \subseteq (v[lv + 1] \ job.in1) \cup O /\ u[lv] \subseteq v[lv] \ job.in0
  BY <1>2, <1>7
<1> HIDE DEF u, v, lv, E, F, O, T
<1>9. "slipped" \notin flaws => Disjoint(T, u)
  <2> SUFFICES ASSUME "slipped" \notin flaws, NEW l \in Levels \ {0}, NEW a \in u[l], NEW b \in u[l], a # b
               PROVE  Apart(T[a], T[b])
    BY DEF Disjoint
  <2>1. CASE a \in v[l] /\ b \in v[l]
    BY <1>1, <2>1 DEF LevelsOK, Disjoint, T
  <2>2. CASE l = lv + 1 /\ a \in O /\ b \in O
    <3>1. a < b \/ b < a
      BY <1>6, <2>2
    <3> QED BY <1>5, <2>2, <3>1 DEF Apart
  <2>3. \A g \in v[lv + 1] \ job.in1, o \in O : Apart(T[g], T[o]) /\ Apart(T[o], T[g])
    BY <1>3, <1>4 DEF Apart, Precedes
  <2> QED BY <1>7, <1>8, <2>1, <2>2, <2>3
<1>10. NewestFirst(T, u)
  <2>1. u[0] \subseteq v[0]
    BY <1>2, <1>7
  <2> QED BY <1>1, <2>1 DEF LevelsOK, NewestFirst, T
<1>11. flaws = {} => NewerAbove(T, u)
  <2> SUFFICES ASSUME flaws = {}, NEW l \in Levels, NEW m \in Levels, l < m, NEW a \in u[l], NEW b \in u[m]
               PROVE  Newer(T[a], T[b])
    BY DEF NewerAbove
  <2>0. \A i, j \in Levels : i < j => \A x \in v[i], y \in v[j] : Newer(T[x], T[y])
    BY <1>1 DEF LevelsOK, NewerAbove, T
  <2>1. CASE a \in v[l] /\ b \in v[m]
    BY <2>0, <2>1
  <2>2. CASE a \in O /\ l = lv + 1 /\ b \in v[m]
    <3>1. lv \in Nat /\ m \in Nat /\ lv + 1 < m
      BY <1>2, <2>2
    <3>2. lv < m
      BY <3>1
    <3>3. \A g \in F : Newer(T[g], T[b])
      BY <1>2, <1>3, <2>0, <2>2, <3>1, <3>2 DEF F
    <3>4. Newer(E, T[b])
      BY <1>7, <3>3 DEF Newer
    <3> QED BY <1>4, <2>2, <3>4 DEF Newer
  <2>3. CASE b \in O /\ m = lv + 1 /\ a \in v[l] \ F
    <3>1. l \in Nat /\ lv \in Nat /\ l < lv + 1
      BY <1>2, <2>3
    <3>2. l < lv \/ l = lv
      BY <3>1
    <3>3. \A g \in job.in1 : Newer(T[a], T[g])
      BY <1>2, <1>3, <2>0, <2>3, <3>1
    <3>4. \A g \in job.in0 : Newer(T[a], T[g])
      <4>1. CASE l < lv
        BY <1>2, <1>3, <2>0, <2>3, <4>1
      <4>2. CASE l = lv
        BY <1>3, <2>3, <4>2 DEF F
      <4> QED BY <3>2, <4>1, <4>2
    <3>5. Newer(T[a], E)
      BY <1>7, <3>3, <3>4 DEF Newer, F
    <3> QED BY <1>4, <2>3, <3>5 DEF Newer
  <2>4. ~(l = lv + 1 /\ m = lv + 1)
    BY <1>2
  <2> QED BY <1>7, <2>1, <2>2, <2>3, <2>4
<1> QED BY <1>9, <1>10, <1>11 DEF LevelsOK, u, T

LEMMA OrderOfFinish ==
    ASSUME CompactionInv, OrderInv, FinishMerge
    PROVE  OrderInv'
<1> DEFINE u == InstallCompactionResults
<1>0. /\ BgInv /\ next \in Nat /\ CurrentFiles \in FileMaps /\ bg.pc = "merge" /\ job # NoJob
      /\ job.outputs \in SUBSET Nat /\ \A o \in job.outputs : o < next
  BY CurrentIsThere DEF CompactionInv, BgInv, FinishMerge
<1>1. /\ bg' = [pc |-> "mergelog", files |-> u]
      /\ UNCHANGED <<mem, imm, tables, next, versions, current, job, flaws>>
  BY DEF FinishMerge, memVars, fileVars, verVars
<1>2. LevelsOK(tables, u, flaws)
  BY <1>0, MergedInOrder
<1>3. AllFiles(u) \subseteq AllFiles(CurrentFiles) \cup job.outputs
  BY <1>0, SavedFiles DEF InstallCompactionResults
<1> HIDE DEF u
<1>4. CurrentFiles' = CurrentFiles
  BY <1>1 DEF CurrentFiles, Files
<1>5. TimeInv'
  BY <1>1, <1>4, TimeStays DEF OrderInv
<1>6. VersionOK(CurrentFiles)'
  BY <1>1, <1>4 DEF OrderInv, LevelInv, VersionOK
<1>7. VersionOK(bg.files)'
  <2>1. \A f \in AllFiles(bg'.files) : f < next'
    BY <1>0, <1>1, <1>3 DEF OrderInv, LevelInv, VersionOK
  <2> QED BY <1>1, <1>2, <2>1 DEF VersionOK
<1>8. bg'.pc = "mergelog" /\ AllFiles(bg'.files) \subseteq AllFiles(CurrentFiles') \cup job'.outputs
  BY <1>1, <1>3, <1>4
<1>9. JobOK(tables', CurrentFiles', job', flaws') /\ MergeInv(tables', job')
  BY <1>0, <1>1, <1>4 DEF OrderInv, LevelInv
<1>10. LevelInv'
  BY <1>6, <1>7, <1>8, <1>9 DEF LevelInv
<1> QED BY <1>5, <1>10 DEF OrderInv

LEMMA OrderOfEnd ==
    ASSUME CompactionInv, RefsInv', OrderInv, EndMerge(TRUE)
    PROVE  OrderInv'
<1>0. BgInv /\ bg.pc = "mergelog" /\ bg.files \in FileMaps /\ "files" \in DOMAIN bg /\ job # NoJob
  BY BgFields DEF CompactionInv, EndMerge, BgInv
<1>1. /\ versions' = Unref(AppendVersion(versions, bg.files), job.version) /\ current' = current + 1
      /\ bg' \in {Idle, Queued} /\ job' = NoJob /\ UNCHANGED <<mem, imm, tables, next, flaws>>
  BY CallEnds DEF EndMerge, memVars
<1>2. CurrentFiles' = bg.files
  BY <1>0, <1>1, CurrentIsNew
<1>3. bg'.pc \in {"idle", "queued"} /\ "files" \notin DOMAIN bg'
  BY <1>1, ThreadRecords
<1>4. TimeInv'
  <2>1. ASSUME NEW f \in AllFiles(bg.files), NEW x \in tables[f], NEW y \in imm \cup mem PROVE x.s < y.s
    <3>1. f \in AllFiles(CurrentFiles) \/ f \in job.outputs
      BY <1>0 DEF OrderInv, LevelInv
    <3>2. CASE f \in AllFiles(CurrentFiles)
      BY <3>2 DEF OrderInv, TimeInv, Older
    <3>3. CASE f \in job.outputs
      <4>1. x \in Entries(tables, job.in0 \cup job.in1)
        BY <1>0, <3>3 DEF OrderInv, LevelInv, MergeInv
      <4>2. PICK g \in job.in0 \cup job.in1 : x \in tables[g]
        BY <4>1 DEF Entries
      <4>3. g \in AllFiles(CurrentFiles)
        BY <1>0, <4>2, InputsInVersion DEF OrderInv, LevelInv
      <4> QED BY <4>2, <4>3 DEF OrderInv, TimeInv, Older
    <3> QED BY <3>1, <3>2, <3>3
  <2>2. \A x \in imm, y \in mem : x.s < y.s
    BY DEF OrderInv, TimeInv
  <2> QED BY <1>1, <1>2, <2>1, <2>2 DEF TimeInv, Older
<1>5. VersionOK(CurrentFiles)'
  BY <1>0, <1>1, <1>2 DEF OrderInv, LevelInv, VersionOK
<1>6. LevelInv'
  BY <1>1, <1>3, <1>5 DEF LevelInv
<1> QED BY <1>4, <1>6 DEF OrderInv

----------------------------------------------------------------------------
(* The theorem.                                                            *)

LEMMA OrderStep ==
    ASSUME CompactionInv, RefsInv', OrderInv, Next
    PROVE  OrderInv'
<1>1. CASE ReadingStep
  <2>1. QuietLevels /\ UNCHANGED <<mem, imm>>
    BY <1>1, ReadingIsQuiet
  <2> QED BY <2>1, LevelsStay, TimeStays DEF OrderInv, QuietLevels
<1>2. CASE QuietStep
  BY <1>2, QuietStepIsQuiet, LevelsStay, TimeOfQuietStep DEF OrderInv
<1>3. CASE FlushFails \/ InstallMove(FALSE) \/ EndMerge(FALSE)
  <2>1. QuietLevels /\ UNCHANGED <<mem, imm>>
    BY <1>3, FailuresAreQuiet
  <2> QED BY <2>1, LevelsStay, TimeStays DEF OrderInv, QuietLevels
<1>4. CASE StartFlush \/ BuildTable \/ InstallFlush
  BY <1>4, OrderOfStartFlush, OrderOfBuildTable, OrderOfInstallFlush
<1>5. CASE StartCompaction \/ InstallMove(TRUE)
  BY <1>5, OrderOfStartCompaction, OrderOfMove
<1>6. CASE MergeNext \/ FinishMerge \/ EndMerge(TRUE)
  BY <1>6, OrderOfMergeNext, OrderOfFinish, OrderOfEnd
<1> QED BY <1>1, <1>2, <1>3, <1>4, <1>5, <1>6 DEF Next, Caller, Background, QuietStep, ReadingStep

LEMMA OrderStutters ==
    ASSUME OrderInv, UNCHANGED vars
    PROVE  OrderInv'
<1>1. UNCHANGED <<mem, imm, tables, next, versions, current, bg, job, flaws>>
  BY DEF vars, memVars, fileVars, verVars, bgVars
<1>2. CurrentFiles' = CurrentFiles
  BY <1>1 DEF CurrentFiles, Files
<1> QED BY <1>1, <1>2 DEF OrderInv, TimeInv, LevelInv, Older, VersionOK

LEMMA OrderInit ==
    ASSUME Init
    PROVE  OrderInv
<1>1. CurrentFiles = NoFiles /\ AllFiles(NoFiles) = {}
  BY DEF Init, CurrentFiles, Files, NoFiles, AllFiles
<1>2. TimeInv
  BY <1>1 DEF Init, TimeInv
<1>3. \A l \in Levels : NoFiles[l] = {}
  BY DEF NoFiles
<1>4. 0 \in Levels
  BY VersionsAssumption DEF Levels
<1>5. VersionOK(CurrentFiles)
  BY <1>1, <1>3, <1>4 DEF VersionOK, LevelsOK, Disjoint, NewestFirst, NewerAbove
<1>6. bg.pc = "idle" /\ "files" \notin DOMAIN bg /\ job = NoJob
  BY ThreadRecords DEF Init
<1> QED BY <1>2, <1>5, <1>6 DEF OrderInv, LevelInv

LEMMA OrderedLevels ==
    ASSUME CompactionInv, OrderInv
    PROVE  LevelsAreOrdered
<1>0. EntriesInv /\ AllFiles(CurrentFiles) \subseteq DOMAIN tables
  BY CurrentIsThere DEF CompactionInv, EntriesInv
<1>1. LevelsOK(tables, CurrentFiles, flaws)
  BY DEF OrderInv, LevelInv, VersionOK
<1>2. ASSUME "slipped" \notin flaws PROVE MustNotOverlap
  <2> SUFFICES ASSUME NEW l \in Levels \ {0}, NEW f \in CurrentFiles[l], NEW g \in CurrentFiles[l], f # g
               PROVE  \/ Before(Largest(tables, f), Smallest(tables, g))
                      \/ Before(Largest(tables, g), Smallest(tables, f))
    BY DEF MustNotOverlap
  <2>1. f \in DOMAIN tables /\ g \in DOMAIN tables
    BY <1>0 DEF AllFiles
  <2>2. /\ Largest(tables, f) \in tables[f] /\ Smallest(tables, f) \in tables[f]
        /\ Largest(tables, g) \in tables[g] /\ Smallest(tables, g) \in tables[g]
    BY <1>0, <2>1, KeyRange DEF EntriesInv, Smallest, Largest
  <2>3. Apart(tables[f], tables[g])
    BY <1>1, <1>2 DEF LevelsOK, Disjoint
  <2> QED BY <2>2, <2>3 DEF Apart, Precedes
<1>3. \A f, g \in CurrentFiles[0] : f > g =>
         \A x \in tables[f], y \in tables[g] : x.k = y.k => x.s > y.s
  BY <1>1 DEF LevelsOK, NewestFirst, Newer
<1>4. flaws = {} => \A l, m \in Levels : l < m =>
         \A f \in CurrentFiles[l], g \in CurrentFiles[m] :
            \A x \in tables[f], y \in tables[g] : x.k = y.k => x.s > y.s
  BY <1>1 DEF LevelsOK, NewerAbove, Newer
<1> QED BY <1>2, <1>3, <1>4 DEF LevelsAreOrdered

(* Below level 0 the files of a level are disjoint, unless a flush has slipped
   between the inputs of a merge; in level 0 the newer file, and without flaws
   the higher level, has the newer versions of a key: what Get() relies on when
   it searches level by level. *)
THEOREM LevelsStayOrdered == Spec => []LevelsAreOrdered
<1>1. Init => OrderInv
  BY OrderInit
<1>2. CompactionInv /\ CompactionInv' /\ OrderInv /\ [Next]_vars => OrderInv'
  BY OrderStep, OrderStutters DEF CompactionInv
<1>3. CompactionInv /\ OrderInv => LevelsAreOrdered
  BY OrderedLevels
<1> QED BY <1>1, <1>2, <1>3, CompactionInvariant, PTL DEF Spec

----------------------------------------------------------------------------
(* What reads find.                                                        *)

\* Among the entries E, as of s, one finds what was written.
Finds(E, s) == \A key \in Keys : Answer(Newest(E, key, s)) = Answer(Newest(Written, key, s))

\* What there is to be found in two memtables and the files of a version
View(m, i, T, v) == m \cup i \cup Entries(T, AllFiles(v))

\* Each of the three has been written before the one above it.
Predates(E, G) == \A x \in E, y \in G : x.s < y.s
Ordered(m, i, T, v) == Predates(i, m) /\ \A f \in AllFiles(v) : Predates(T[f], i \cup m)

NumbersInv ==
    /\ \A f \in DOMAIN tables : f \in Nat /\ f < next
    /\ bg.pc = "build" => bg.number \notin DOMAIN tables

\* A merge keeps what the oldest of the snapshots needs.
MarksInv ==
    /\ \A s \in snapshots : s \in Nat /\ s <= LastSequence
    /\ job # NoJob => /\ {"last", "smallestSnapshot", "ptrs"} \subseteq DOMAIN job
                      /\ job.smallestSnapshot \in Nat
                      /\ \A s \in snapshots \cup {LastSequence} : job.smallestSnapshot <= s

\* Versions that are kept stay as they were.
KeptInv ==
    \A id \in DOMAIN versions :
        /\ LevelsOK(tables, Files(id), flaws)
        /\ job # NoJob => job.outputs \cap AllFiles(Files(id)) = {}

ReadersInv ==
    \A r \in Active : LET t == readers[r] IN
        /\ t.mem \subseteq Written /\ t.imm \subseteq Written
        /\ t.s \in Nat /\ t.s <= LastSequence
        /\ Ordered(t.mem, t.imm, tables, Files(t.version))
        /\ flaws = {} => Finds(View(t.mem, t.imm, tables, Files(t.version)), t.s)

ViewInv ==
    flaws = {} => \A s \in snapshots \cup {LastSequence} :
                     Finds(View(mem, imm, tables, CurrentFiles), s)

\* What the edits on their way change
EditInv ==
    /\ bg.pc = "flushlog" =>
          Entries(tables, AllFiles(bg.files)) = Entries(tables, AllFiles(CurrentFiles)) \cup imm
    /\ bg.pc = "movelog" => AllFiles(bg.files) = AllFiles(CurrentFiles)
    /\ bg.pc = "mergelog" =>
          /\ job.rest = {}
          /\ AllFiles(bg.files) = (AllFiles(CurrentFiles) \ (job.in0 \cup job.in1)) \cup job.outputs

Merged(T, j) == Entries(T, j.in0 \cup j.in1)

\* The operators below take the files w of the version that the merge began
\* with.  A file that it leaves alone has newer versions of the keys, or lies
\* so deep that IsBaseLevelForKey() looks at it.
OthersOK(T, v, w, j) ==
    \A l \in Levels : \A f \in v[l] \ (j.in0 \cup j.in1) :
        Newer(T[f], Merged(T, j)) \/ (l >= j.level + 2 /\ f \in w[l])

\* last is the entry that was taken last.
LastOK(T, j) ==
    /\ j.last \subseteq Merged(T, j) \ j.rest
    /\ \A z \in j.last, x \in j.rest : Before(z, x)
    /\ \A p \in Merged(T, j) \ j.rest : \E z \in j.last : p = z \/ Before(p, z)

\* The files that a cursor of level_ptrs_ has passed end before what is left.
Behind(T, F, j, p) ==
    /\ p \in Nat \ {0}
    /\ \A f \in F : Rank(T, F, f) + 1 < p => \A x \in j.rest : Largest(T, f).k < x.k
PtrsOK(T, w, j) == \A l \in Levels : Behind(T, w[l], j, j.ptrs[l])

\* What was dropped is hidden from every reader, or marks the deletion of what
\* is nowhere else.
Deeper(T, w, j, k) ==
    \E l \in Levels : l >= j.level + 2 /\ \E f \in w[l] : \E y \in T[f] : y.k = k
Gone(T, w, j, e) ==
    \/ \E x \in Merged(T, j) : x.k = e.k /\ e.s < x.s /\ x.s <= j.smallestSnapshot
    \/ /\ e.del /\ e.s <= j.smallestSnapshot /\ ~Deeper(T, w, j, e.k)
       /\ \A o \in j.outputs : \A y \in T[o] : y.k = e.k => e.s < y.s
DropsOK(T, w, j) ==
    \A e \in Merged(T, j) \ j.rest : (\E o \in j.outputs : e \in T[o]) \/ Gone(T, w, j, e)

TurnsOK(T, w, j) == LastOK(T, j) /\ PtrsOK(T, w, j) /\ DropsOK(T, w, j)

DropInv ==
    job # NoJob => LET w == Files(job.version) IN
        /\ TurnsOK(tables, w, job)
        /\ flaws = {} => /\ OthersOK(tables, CurrentFiles, w, job)
                         /\ bg.pc = "flushlog" => OthersOK(tables, bg.files, w, job)

ReadInv == NumbersInv /\ MarksInv /\ KeptInv /\ ReadersInv /\ ViewInv /\ EditInv /\ DropInv

----------------------------------------------------------------------------
(* The newest entry, and the first of a set in some order.                 *)

\* What is visible has a newest entry, and one only.
LEMMA NewestThere ==
    ASSUME EntriesInv, NEW E \in SUBSET Written, NEW key, NEW s \in Nat,
           NEW x \in E, x.k = key, x.s <= s
    PROVE  \E e \in E : /\ Newest(E, key, s) = {e} /\ e.k = key /\ e.s <= s
                        /\ \A y \in E : y.k = key /\ y.s <= s => y.s <= e.s
<1> DEFINE seen == {e \in E : e.k = key /\ e.s <= s}
           S == {e.s : e \in seen}
<1>1. /\ \A e \in E : e.s \in Nat /\ e.s <= Len(hist)
      /\ \A a, b \in E : a.s = b.s => a = b
  BY WrittenOrdered
<1>2. S \in SUBSET Nat /\ S # {} /\ Len(hist) \in Nat /\ \A n \in S : n <= Len(hist)
  BY <1>1 DEF EntriesInv
<1>3. PICK n \in S : \A y \in S : n >= y
  BY <1>2, GreatestMember
<1>4. PICK e \in seen : e.s = n
  BY <1>3
<1>5. \A y \in seen : y.s <= e.s
  BY <1>2, <1>3, <1>4
<1>6. \A y \in seen : (\A z \in seen : z.s <= y.s) => y = e
  BY <1>1, <1>4, <1>5
<1>7. Newest(E, key, s) = {e}
  BY <1>4, <1>5, <1>6 DEF Newest
<1> QED BY <1>4, <1>5, <1>7

LEMMA NewestNone ==
    ASSUME NEW E, NEW key, NEW s \in Nat, \A x \in E : ~(x.k = key /\ x.s <= s)
    PROVE  Newest(E, key, s) = {}
BY DEF Newest

\* What the newest entry is, of whatever set has it.
LEMMA NewestIs ==
    ASSUME EntriesInv, NEW E \in SUBSET Written, NEW key, NEW s \in Nat,
           NEW e \in E, e.k = key, e.s <= s,
           \A y \in E : y.k = key /\ y.s <= s => y.s <= e.s
    PROVE  Newest(E, key, s) = {e}
<1>1. PICK x \in E : /\ Newest(E, key, s) = {x} /\ x.k = key /\ x.s <= s
                     /\ \A y \in E : y.k = key /\ y.s <= s => y.s <= x.s
  BY NewestThere
<1>2. x.s <= e.s /\ e.s <= x.s /\ x.s \in Nat /\ e.s \in Nat
  BY <1>1, WrittenOrdered
<1>3. x = e
  BY <1>2, WrittenOrdered
<1> QED BY <1>1, <1>3

LEMMA NewestEither ==
    ASSUME EntriesInv, NEW E \in SUBSET Written, NEW key, NEW s \in Nat
    PROVE  \/ Newest(E, key, s) = {} /\ \A x \in E : ~(x.k = key /\ x.s <= s)
           \/ \E e \in E : /\ Newest(E, key, s) = {e} /\ e.k = key /\ e.s <= s
                           /\ \A y \in E : y.k = key /\ y.s <= s => y.s <= e.s
<1>1. CASE \E x \in E : x.k = key /\ x.s <= s
  BY <1>1, NewestThere
<1>2. CASE \A x \in E : ~(x.k = key /\ x.s <= s)
  BY <1>2, NewestNone
<1> QED BY <1>1, <1>2

\* What does not see the newest part of a view looks at the rest.
LEMMA NewestOfTwo ==
    ASSUME EntriesInv, NEW E \in SUBSET Written, NEW G \in SUBSET Written, NEW key, NEW s \in Nat,
           Predates(G, E)
    PROVE  Newest(E \cup G, key, s) =
              IF Newest(E, key, s) # {} THEN Newest(E, key, s) ELSE Newest(G, key, s)
<1>0. \A x \in E \cup G : x.s \in Nat
  BY WrittenOrdered
<1>1. ASSUME NEW e \in E, Newest(E, key, s) = {e}, e.k = key, e.s <= s,
             \A y \in E : y.k = key /\ y.s <= s => y.s <= e.s
      PROVE  Newest(E \cup G, key, s) = {e}
  <2>1. \A y \in E \cup G : y.k = key /\ y.s <= s => y.s <= e.s
    BY <1>0, <1>1 DEF Predates
  <2> QED BY <1>1, <2>1, NewestIs
<1>2. ASSUME \A x \in E : ~(x.k = key /\ x.s <= s)
      PROVE  Newest(E \cup G, key, s) = Newest(G, key, s)
  BY <1>2 DEF Newest
<1>3. CASE Newest(E, key, s) = {} /\ \A x \in E : ~(x.k = key /\ x.s <= s)
  BY <1>2, <1>3
<1>4. CASE \E e \in E : /\ Newest(E, key, s) = {e} /\ e.k = key /\ e.s <= s
                      /\ \A y \in E : y.k = key /\ y.s <= s => y.s <= e.s
  BY <1>1, <1>4
<1> QED BY <1>3, <1>4, NewestEither

----------------------------------------------------------------------------
(* Get() in a version whose levels are in order.                           *)

LEMMA LookedAtAreFiles ==
    ASSUME NEW T, NEW v, NEW key, NEW s, NEW x \in ForEachOverlapping(T, v, key, s)
    PROVE  /\ x = [level |-> x.level, file |-> x.file]
           /\ x.level \in Levels /\ x.file \in v[x.level]
           /\ x.level > 0 => x.file \in FileAt(T, v[x.level], key, s)
<1>1. 0 \in Levels /\ \A l \in 1..NumLevels - 1 : l \in Levels /\ l > 0
  BY VersionsAssumption DEF Levels
<1>2. CASE \E f \in {y \in v[0] : Overlaps(T, y, key, key)} : x = [level |-> 0, file |-> f]
  BY <1>1, <1>2
<1>3. CASE \E l \in 1..NumLevels - 1 : \E f \in FileAt(T, v[l], key, s) : x = [level |-> l, file |-> f]
  <2>1. \A l, f : f \in FileAt(T, v[l], key, s) => f \in v[l]
    BY Zenon DEF FileAt, FindFile, FirstOf
  <2> QED BY <1>1, <1>3, <2>1
<1> QED BY <1>2, <1>3 DEF ForEachOverlapping

\* A binary search finds one file.
LEMMA FileAtIsOne ==
    ASSUME EntriesInv, NEW F, F \subseteq DOMAIN tables, F \subseteq Nat, NEW key, NEW s,
           NEW f \in FileAt(tables, F, key, s), NEW g \in FileAt(tables, F, key, s)
    PROVE  f = g
<1>1. /\ f \in F /\ g \in F
      /\ f # g => StartsBefore(tables, f, g) /\ StartsBefore(tables, g, f)
  BY Zenon DEF FileAt, FindFile, FirstOf
<1> QED BY <1>1, StartsBeforeStrict

\* The file that has what is sought is looked at.
LEMMA FileIsLookedAt ==
    ASSUME EntriesInv, NEW v \in FileMaps, AllFiles(v) \subseteq DOMAIN tables,
           Disjoint(tables, v), NEW key, NEW s \in Nat,
           NEW l \in Levels, NEW f \in v[l], NEW e \in tables[f], e.k = key, e.s <= s,
           \A y \in Entries(tables, AllFiles(v)) : y.k = key /\ y.s <= s => y.s <= e.s
    PROVE  [level |-> l, file |-> f] \in ForEachOverlapping(tables, v, key, s)
<1> DEFINE T == tables
           sought == [k |-> key, s |-> s]
<1>1. \A g \in v[l] : /\ g \in DOMAIN tables /\ g \in Nat /\ Holds(T[g])
                      /\ T[g] \subseteq Entries(T, AllFiles(v))
  BY DEF FileMaps, AllFiles, EntriesInv, Entries
<1>2. \A g \in v[l] : /\ Smallest(T, g) \in T[g] /\ Largest(T, g) \in T[g]
                      /\ \A x \in T[g] : Smallest(T, g).k <= x.k /\ x.k <= Largest(T, g).k
                      /\ \A x \in T[g] : x.k \in Nat /\ x.s \in Nat
                      /\ \A x \in T[g] : x = Largest(T, g) \/ Before(x, Largest(T, g))
  BY <1>1, KeyRange, KeyOrder, NumbersOfKeys DEF Smallest, Largest
<1>3. CASE l = 0
  <2>1. Overlaps(T, f, key, key)
    BY <1>2 DEF Overlaps
  <2> QED BY <1>3, <2>1 DEF ForEachOverlapping
<1>4. CASE l # 0
  <2>1. l \in 1..NumLevels - 1
    BY <1>4, VersionsAssumption DEF Levels
  <2>2. /\ key <= Largest(T, f).k /\ Largest(T, f).k \in Nat /\ key \in Nat
        /\ Largest(T, f).s \in Nat
        /\ Largest(T, f).k = key => Largest(T, f).s <= s
    BY <1>2 DEF Before
  <2>3. ~Before(Largest(T, f), sought)
    BY <2>2 DEF Before
  <2>4. ASSUME NEW g \in v[l], ~Before(Largest(T, g), sought), g # f
        PROVE  StartsBefore(T, f, g)
    <3>1. Apart(T[f], T[g])
      BY <1>4, <2>4 DEF Disjoint
    <3>2. CASE Precedes(T[f], T[g])
      BY <1>2, <3>2 DEF Precedes, StartsBefore
    <3>3. CASE Precedes(T[g], T[f])
      <4>1. Before(Largest(T, g), e)
        BY <1>2, <3>3 DEF Precedes
      <4>2. ~(Largest(T, g).k < key) /\ ~(Largest(T, g).k = key /\ Largest(T, g).s > s)
        BY <2>4 DEF Before
      <4>3. Largest(T, g).k = key /\ Largest(T, g).s > e.s /\ Largest(T, g).s \in Nat
        BY <1>2, <4>1, <4>2 DEF Before
      <4>4. Largest(T, g) \in Entries(T, AllFiles(v))
        BY <1>1, <1>2
      <4>5. Largest(T, g).s <= s
        BY <4>2, <4>3
      <4>6. Largest(T, g).s <= e.s
        BY <4>3, <4>4, <4>5
      <4> QED BY <1>2, <4>3, <4>6
    <3> QED BY <3>1, <3>2, <3>3 DEF Apart
  <2>5. f \in FindFile(T, v[l], sought)
    BY <2>3, <2>4, Zenon DEF FindFile, FirstOf
  <2>6. f \in FileAt(T, v[l], key, s)
    BY <1>2, <2>5 DEF FileAt
  <2> DEFINE S(n) == {[level |-> n, file |-> g] : g \in FileAt(T, v[n], key, s)}
  <2>7. [level |-> l, file |-> f] \in S(l)
    BY <2>6
  <2>8. ForEachOverlapping(T, v, key, s) =
           {[level |-> 0, file |-> g] : g \in {x \in v[0] : Overlaps(T, x, key, key)}}
           \cup UNION {S(n) : n \in 1..NumLevels - 1}
    BY DEF ForEachOverlapping
  <2> HIDE DEF S
  <2> QED BY <2>1, <2>7, <2>8
<1> QED BY <1>3, <1>4

LEMMA VersionFinds ==
    ASSUME EntriesInv, NEW v \in FileMaps, AllFiles(v) \subseteq DOMAIN tables,
           LevelsOK(tables, v, {}), NEW key, NEW s \in Nat
    PROVE  VersionGet(tables, v, key, s).value
              = Answer(Newest(Entries(tables, AllFiles(v)), key, s))
<1> DEFINE T == tables
           E == Entries(T, AllFiles(v))
           files == ForEachOverlapping(T, v, key, s)
           holding == {x \in files : Newest(T[x.file], key, s) # {}}
           hit == FirstOf(holding, LookedAtBefore)
<1>1. E \in SUBSET Written /\ \A f \in AllFiles(v) : T[f] \in SUBSET Written /\ T[f] \subseteq E
  BY DEF EntriesInv, Holds, Entries
<1>2. \A x \in files : /\ x = [level |-> x.level, file |-> x.file]
                       /\ x.level \in Levels /\ x.level \in Nat /\ x.file \in v[x.level] /\ x.file \in Nat
                       /\ x.file \in AllFiles(v)
                       /\ x.level > 0 => x.file \in FileAt(T, v[x.level], key, s)
  <2> SUFFICES ASSUME NEW x \in files
               PROVE  /\ x = [level |-> x.level, file |-> x.file]
                      /\ x.level \in Levels /\ x.level \in Nat /\ x.file \in v[x.level] /\ x.file \in Nat
                      /\ x.file \in AllFiles(v)
                      /\ x.level > 0 => x.file \in FileAt(T, v[x.level], key, s)
    OBVIOUS
  <2>1. /\ x = [level |-> x.level, file |-> x.file]
        /\ x.level \in Levels /\ x.file \in v[x.level]
        /\ x.level > 0 => x.file \in FileAt(T, v[x.level], key, s)
    BY LookedAtAreFiles
  <2> HIDE DEF files
  <2>2. x.level \in Nat /\ x.file \in Nat /\ x.file \in AllFiles(v)
    BY <2>1 DEF AllFiles, Levels, FileMaps
  <2> QED BY <2>1, <2>2
<1>3. VersionGet(T, v, key, s).value = UNION {Answer(Newest(T[x.file], key, s)) : x \in hit}
  BY DEF VersionGet
<1>4. CASE \A x \in E : ~(x.k = key /\ x.s <= s)
  <2>1. holding = {}
    BY <1>1, <1>2, <1>4 DEF Newest
  <2>2. hit = {}
    BY <2>1, Zenon DEF FirstOf
  <2>3. Newest(E, key, s) = {}
    BY <1>4, NewestNone
  <2> QED BY <1>3, <2>2, <2>3 DEF Answer
<1>5. ASSUME NEW e \in E, Newest(E, key, s) = {e}, e.k = key, e.s <= s,
             \A y \in E : y.k = key /\ y.s <= s => y.s <= e.s
      PROVE  VersionGet(T, v, key, s).value = Answer(Newest(E, key, s))
  <2>0. PICK f \in AllFiles(v) : e \in T[f]
    BY DEF Entries
  <2>1. PICK l \in Levels : f \in v[l] /\ e \in T[f]
    BY <2>0 DEF AllFiles
  <2>2. f \in AllFiles(v) /\ l \in Nat /\ f \in Nat
    BY <2>1 DEF AllFiles, Levels, FileMaps
  <2> DEFINE it == [level |-> l, file |-> f]
  <2>3. Disjoint(T, v) /\ NewestFirst(T, v) /\ NewerAbove(T, v)
    BY DEF LevelsOK
  <2>4. it \in files
    BY <1>5, <2>1, <2>3, FileIsLookedAt
  <2>5. Newest(T[f], key, s) = {e}
    <3>1. T[f] \in SUBSET Written /\ \A y \in T[f] : y.k = key /\ y.s <= s => y.s <= e.s
      BY <1>1, <1>5, <2>2
    <3> QED BY <1>5, <2>1, <3>1, NewestIs
  <2>6. it \in holding
    BY <2>4, <2>5
  <2>7. ASSUME NEW x \in holding, x # it PROVE LookedAtBefore(it, x) /\ ~LookedAtBefore(x, it)
    <3>1. /\ x = [level |-> x.level, file |-> x.file] /\ x.level \in Levels /\ x.level \in Nat
          /\ x.file \in v[x.level] /\ x.file \in Nat /\ x.file \in AllFiles(v)
          /\ x.level > 0 => x.file \in FileAt(T, v[x.level], key, s)
      BY <1>2
    <3>2. PICK y \in T[x.file] : y.k = key /\ y.s <= s
      BY <2>7 DEF Newest
    <3>3. y.s <= e.s /\ y.s \in Nat /\ e.s \in Nat
      BY <1>1, <1>5, <3>1, <3>2, WrittenOrdered
    <3>4. ~Newer(T[x.file], T[f])
      BY <1>5, <2>1, <3>2, <3>3 DEF Newer
    <3>5. ~(x.level < l)
      BY <2>1, <2>3, <3>1, <3>4 DEF NewerAbove
    <3>6. x.level = l /\ l = 0 => ~(x.file > f)
      BY <2>1, <2>3, <3>1, <3>4 DEF NewestFirst
    <3>7. x.level = l => x.file # f
      BY <2>7, <3>1
    <3>8. ~(x.level = l /\ l # 0)
      <4> SUFFICES ASSUME x.level = l, l # 0 PROVE FALSE
        OBVIOUS
      <4>1. f \in FileAt(T, v[l], key, s)
        BY <1>2, <2>2, <2>4
      <4>2. v[l] \subseteq DOMAIN tables /\ v[l] \subseteq Nat
        BY <2>1 DEF AllFiles, FileMaps
      <4>3. x.file \in FileAt(T, v[l], key, s)
        BY <2>2, <3>1
      <4>4. x.file = f
        BY <4>1, <4>2, <4>3, FileAtIsOne
      <4> QED BY <3>7, <4>4
    <3> QED BY <2>2, <3>1, <3>5, <3>6, <3>7, <3>8 DEF LookedAtBefore
  <2>8. hit = {it}
    <3> HIDE DEF holding, it
    <3>1. it \in hit
      BY <2>6, <2>7, Zenon DEF FirstOf
    <3>2. \A x \in hit : x \in holding /\ (x # it => LookedAtBefore(x, it))
      BY <2>6, Zenon DEF FirstOf
    <3> HIDE DEF hit
    <3> QED BY <2>7, <3>1, <3>2
  <2>9. VersionGet(T, v, key, s).value = UNION {Answer(Newest(T[x.file], key, s)) : x \in {it}}
    BY <1>3, <2>8
  <2>10. VersionGet(T, v, key, s).value = Answer(Newest(T[f], key, s))
    <3> DEFINE A(n) == Answer(Newest(T[n], key, s))
    <3>1. VersionGet(T, v, key, s).value = UNION {A(x.file) : x \in {it}}
      BY <2>9
    <3> HIDE DEF A
    <3>2. VersionGet(T, v, key, s).value = A(f)
      BY <3>1
    <3> QED BY <3>2 DEF A
  <2> QED BY <1>5, <2>5, <2>10
<1> QED BY <1>1, <1>4, <1>5, NewestEither

\* Get() finds what an iterator finds.
LEMMA GetFinds ==
    ASSUME EntriesInv, NEW m \in SUBSET Written, NEW im \in SUBSET Written,
           NEW v \in FileMaps, AllFiles(v) \subseteq DOMAIN tables,
           LevelsOK(tables, v, {}), Ordered(m, im, tables, v), NEW key, NEW s \in Nat
    PROVE  DBGet(m, im, v, key, s) = Answer(Newest(View(m, im, tables, v), key, s))
<1> DEFINE E == Entries(tables, AllFiles(v))
<1>1. E \in SUBSET Written
  BY DEF EntriesInv, Holds, Entries
<1>2. Predates(E, im) /\ Predates(im \cup E, m)
  BY DEF Ordered, Entries, Predates
<1>3. VersionGet(tables, v, key, s).value = Answer(Newest(E, key, s))
  BY VersionFinds
<1> HIDE DEF E
<1>4. Newest(im \cup E, key, s) = IF Newest(im, key, s) # {} THEN Newest(im, key, s) ELSE Newest(E, key, s)
  BY <1>1, <1>2, NewestOfTwo
<1>6. Newest(m \cup (im \cup E), key, s) =
         IF Newest(m, key, s) # {} THEN Newest(m, key, s) ELSE Newest(im \cup E, key, s)
  <2>1. im \cup E \in SUBSET Written
    BY <1>1
  <2> HIDE DEF E
  <2> QED BY <1>2, <2>1, NewestOfTwo
<1>7. View(m, im, tables, v) = m \cup (im \cup E)
  BY DEF View, E
<1> QED BY <1>3, <1>4, <1>6, <1>7 DEF DBGet

LEMMA BothFind ==
    ASSUME EntriesInv, NEW m \in SUBSET Written, NEW im \in SUBSET Written,
           NEW v \in FileMaps, AllFiles(v) \subseteq DOMAIN tables,
           LevelsOK(tables, v, {}), Ordered(m, im, tables, v), NEW s \in Nat,
           Finds(View(m, im, tables, v), s), NEW key \in Keys
    PROVE  Reads(m, im, v, key, s) = {Wrote(key, s)}
<1>1. DBGet(m, im, v, key, s) = Answer(Newest(View(m, im, tables, v), key, s))
  BY GetFinds
<1>2. Wrote(key, s) = Answer(Newest(Written, key, s))
  BY DEF Wrote, Written, LastSequence
<1>3. Answer(Newest(View(m, im, tables, v), key, s)) = Wrote(key, s)
  BY <1>2 DEF Finds
<1>4. View(m, im, tables, v) = m \cup im \cup Entries(tables, AllFiles(v))
  BY DEF View
<1> QED BY <1>1, <1>3, <1>4 DEF Reads

\* What the invariant is for.
LEMMA ReadsFollow ==
    ASSUME CompactionInv, OrderInv, ReadInv
    PROVE  ReadsAreRightUnlessFlawed
<1> SUFFICES ASSUME flaws = {} PROVE ReadsAreRight
  BY DEF ReadsAreRightUnlessFlawed
<1>0. /\ EntriesInv /\ RefsInv /\ FilesInv /\ LastSequence \in Nat /\ disk \subseteq DOMAIN tables
      /\ mem \in SUBSET Written /\ imm \in SUBSET Written
  BY DEF CompactionInv, EntriesInv, LastSequence
<1>1. ASSUME NEW key \in Keys, NEW s \in snapshots \cup {LastSequence}
      PROVE  Reads(mem, imm, CurrentFiles, key, s) = {Wrote(key, s)}
  <2>1. CurrentFiles \in FileMaps /\ AllFiles(CurrentFiles) \subseteq DOMAIN tables
    BY <1>0, CurrentIsThere
  <2>2. LevelsOK(tables, CurrentFiles, {})
    BY DEF OrderInv, LevelInv, VersionOK
  <2>3. Ordered(mem, imm, tables, CurrentFiles)
    BY DEF OrderInv, TimeInv, Older, Ordered, Predates
  <2>4. s \in Nat /\ Finds(View(mem, imm, tables, CurrentFiles), s)
    BY <1>0 DEF ReadInv, MarksInv, ViewInv
  <2> QED BY <1>0, <2>1, <2>2, <2>3, <2>4, BothFind
<1>2. ASSUME NEW r \in Readers, readers[r] # NoReader, NEW key \in Keys
      PROVE  LET t == readers[r] IN
             Reads(t.mem, t.imm, Files(t.version), key, t.s) = {Wrote(key, t.s)}
  <2> DEFINE t == readers[r]
             v == Files(t.version)
  <2>1. r \in Active /\ t.version \in DOMAIN versions
    BY <1>0, <1>2, HoldersThere DEF Active
  <2>2. v \in FileMaps /\ AllFiles(v) \subseteq DOMAIN tables
    BY <1>0, <2>1 DEF FilesInv, Files
  <2>3. LevelsOK(tables, v, {})
    BY <2>1 DEF ReadInv, KeptInv
  <2>4. /\ t.mem \in SUBSET Written /\ t.imm \in SUBSET Written /\ t.s \in Nat
        /\ Ordered(t.mem, t.imm, tables, v) /\ Finds(View(t.mem, t.imm, tables, v), t.s)
    BY <2>1 DEF ReadInv, ReadersInv
  <2> HIDE DEF t, v
  <2>5. Reads(t.mem, t.imm, v, key, t.s) = {Wrote(key, t.s)}
    BY <1>0, <2>2, <2>3, <2>4, BothFind
  <2> QED BY <2>5 DEF t, v
<1> QED BY <1>1, <1>2 DEF ReadsAreRight

----------------------------------------------------------------------------
(* What a step leaves as it is.                                            *)

\* A version is as it was, or the one that is installed.
VersionsKept ==
    \A id \in DOMAIN versions' :
        \/ id \in DOMAIN versions /\ versions'[id].files = versions[id].files
        \/ id = current + 1 /\ current' = id

LEMMA VersionsBy ==
    ASSUME NEW vs, DOMAIN vs = DOMAIN versions, Keeps(versions', vs),
           \A x \in DOMAIN vs : vs[x].files = versions[x].files
    PROVE  VersionsKept
BY DEF Keeps, VersionsKept

\* References that are taken or dropped
LEMMA ReferencesOnly ==
    ASSUME CompactionInv,
           \/ UNCHANGED versions
           \/ \E x \in DOMAIN versions : versions' = Ref(versions, x)
           \/ \E x : versions' = Unref(versions, x)
    PROVE  VersionsKept
<1>0. /\ Counted(versions, Counts) /\ Counts \in [Nat -> Nat]
      /\ \A x \in DOMAIN versions : DOMAIN versions[x] = VersionFields
  BY CountsNat DEF CompactionInv, RefsInv, Counted
<1>1. CASE UNCHANGED versions
  BY <1>1 DEF VersionsKept
<1>2. ASSUME NEW x \in DOMAIN versions, versions' = Ref(versions, x) PROVE VersionsKept
  <2>1. Keeps(versions', versions)
    BY <1>0, <1>2, RefCounted
  <2> QED BY <2>1, VersionsBy
<1>3. ASSUME NEW x, versions' = Unref(versions, x) PROVE VersionsKept
  <2>1. Keeps(versions', versions)
    BY <1>0, <1>3, UnrefKeeps
  <2> QED BY <2>1, VersionsBy
<1> QED BY <1>1, <1>2, <1>3

LEMMA VersionInstalled ==
    ASSUME CompactionInv, current' = current + 1, "files" \in DOMAIN bg,
           \/ versions' = AppendVersion(versions, bg.files)
           \/ \E x : versions' = Unref(AppendVersion(versions, bg.files), x)
    PROVE  VersionsKept
<1>1. bg.files \in FileMaps /\ AllFiles(bg.files) \subseteq disk /\ FilesInv /\ RefsInv
  BY BgFields DEF CompactionInv, FilesInv
<1>2. OldKept
  BY <1>1, AppendedAreFine
<1> QED BY <1>2 DEF OldKept, VersionsKept

LEMMA VersionsOfReading ==
    ASSUME CompactionInv, ReadingStep
    PROVE  VersionsKept
<1>0. /\ current \in DOMAIN versions /\ Counted(versions, Counts)
  BY HoldersThere DEF CompactionInv, RefsInv
<1>1. PICK r \in Readers :
        \/ \E key \in Keys \cup {Iterator}, s \in snapshots \cup {LastSequence} :
              StartReading(r, key, s)
        \/ EndGet(r) \/ CleanupIterator(r)
        \/ \E i \in 1..LastSequence : RecordReadSample(r, hist[i])
  BY DEF ReadingStep
<1>2. ASSUME NEW id \in DOMAIN versions, NEW found, NEW vs, vs = WithSeek(versions, id, found)
      PROVE  /\ DOMAIN vs = DOMAIN versions
             /\ \A x \in DOMAIN vs : vs[x].files = versions[x].files /\ DOMAIN vs[x] = VersionFields
  <2>1. /\ Counted(vs, Counts) /\ DOMAIN vs = DOMAIN versions
        /\ \A x \in DOMAIN versions : vs[x].files = versions[x].files
    BY <1>0, <1>2, WithSeekCounted
  <2> QED BY <2>1 DEF Counted
<1>3. ASSUME NEW key, NEW s, StartReading(r, key, s) PROVE VersionsKept
  BY <1>0, <1>3, ReferencesOnly DEF StartReading, TakeReferences
<1>4. ASSUME CleanupIterator(r) PROVE VersionsKept
  BY <1>4, ReferencesOnly DEF CleanupIterator
<1>5. ASSUME EndGet(r) PROVE VersionsKept
  <2>1. PICK file : versions' = Unref(WithSeek(versions, readers[r].version, file), readers[r].version)
    BY <1>5 DEF EndGet
  <2>2. readers[r].version \in DOMAIN versions
    <3>1. readers[r].key # 0 /\ NoReader.key = 0
      BY <1>5, VersionsAssumption DEF EndGet, Keys, NoReader
    <3> QED BY <3>1, HoldersThere DEF Active, CompactionInv
  <2>3. PICK vs : vs = WithSeek(versions, readers[r].version, file)
    OBVIOUS
  <2>4. /\ DOMAIN vs = DOMAIN versions
        /\ \A x \in DOMAIN vs : vs[x].files = versions[x].files /\ DOMAIN vs[x] = VersionFields
    BY <1>2, <2>2, <2>3
  <2>5. Keeps(versions', vs)
    BY <2>1, <2>3, <2>4, UnrefKeeps
  <2> QED BY <2>4, <2>5, VersionsBy
<1>6. ASSUME NEW e, RecordReadSample(r, e) PROVE VersionsKept
  <2>1. versions' = WithSeek(versions, current, ReadSample(tables, CurrentFiles, e))
    BY <1>6, Zenon DEF RecordReadSample
  <2>2. /\ DOMAIN versions' = DOMAIN versions
        /\ \A x \in DOMAIN versions' : versions'[x].files = versions[x].files
    BY <1>0, <1>2, <2>1
  <2> QED BY <2>2 DEF VersionsKept
<1> QED BY <1>1, <1>3, <1>4, <1>5, <1>6

LEMMA VersionsStep ==
    ASSUME CompactionInv, Next
    PROVE  VersionsKept
<1>0. BgInv /\ current \in DOMAIN versions
  BY HoldersThere DEF CompactionInv
<1>1. CASE ReadingStep
  BY <1>1, VersionsOfReading
<1>2. CASE QuietStep
  BY <1>0, <1>2, QuietSchedules, ReferencesOnly
<1>3. CASE FlushFails
  BY <1>3, ReferencesOnly DEF FlushFails
<1>4. CASE InstallMove(FALSE)
  BY <1>4, ReferencesOnly DEF InstallMove
<1>5. CASE EndMerge(FALSE)
  BY <1>5, ReferencesOnly DEF EndMerge
<1>6. CASE StartFlush \/ StartCompaction
  BY <1>0, <1>6, ReferencesOnly DEF StartFlush, StartCompaction
<1>7. CASE BuildTable
  BY <1>7, ReferencesOnly DEF BuildTable
<1>8. CASE MergeNext
  BY <1>8, ReferencesOnly DEF MergeNext
<1>9. CASE FinishMerge
  BY <1>9, ReferencesOnly DEF FinishMerge, verVars
<1>10. CASE InstallFlush
  BY <1>0, <1>10, BgFields, VersionInstalled DEF InstallFlush
<1>11. CASE InstallMove(TRUE)
  BY <1>0, <1>11, BgFields, VersionInstalled DEF InstallMove
<1>12. CASE EndMerge(TRUE)
  BY <1>0, <1>12, BgFields, VersionInstalled DEF EndMerge
<1> QED BY <1>1, <1>2, <1>3, <1>4, <1>5, <1>6, <1>7, <1>8, <1>9, <1>10, <1>11, <1>12
        DEF Next, Caller, Background, QuietStep, ReadingStep

\* Tables stay as they are, but for the outputs of a merge.
TablesKept ==
    \A f \in DOMAIN tables :
        f \in DOMAIN tables' /\ (tables'[f] = tables[f] \/ (job # NoJob /\ f \in job.outputs))

LEMMA TablesStep ==
    ASSUME CompactionInv, RefsInv', NumbersInv, Next
    PROVE  TablesKept /\ NumbersInv' /\ flaws \subseteq flaws'
<1>0. BgInv /\ next \in Nat
  BY DEF CompactionInv, BgInv
<1>1. ASSUME QuietLevels PROVE TablesKept /\ NumbersInv' /\ flaws \subseteq flaws'
  <2>1. tables' = tables /\ next <= next' /\ next' \in Nat /\ flaws \subseteq flaws'
    BY <1>1 DEF QuietLevels
  <2>2. \A f \in DOMAIN tables' : f \in Nat /\ f < next'
    BY <1>0, <2>1 DEF NumbersInv
  <2>3. bg'.pc = "build" => bg' = bg
    BY <1>1, ThreadRecords DEF QuietLevels
  <2> QED BY <2>1, <2>2, <2>3 DEF NumbersInv, TablesKept
<1>2. CASE ReadingStep \/ QuietStep \/ FlushFails \/ InstallMove(FALSE) \/ EndMerge(FALSE)
  BY <1>1, <1>2, ReadingIsQuiet, QuietStepIsQuiet, FailuresAreQuiet
<1>3. CASE StartFlush
  <2>1. /\ tables' = tables /\ next' = next + 1 /\ flaws' = flaws
        /\ bg' = [pc |-> "build", number |-> next, base |-> current]
    BY <1>3 DEF StartFlush
  <2>2. \A f \in DOMAIN tables' : f \in Nat /\ f < next' /\ f # next
    BY <1>0, <2>1 DEF NumbersInv
  <2>3. bg'.number \notin DOMAIN tables'
    BY <2>1, <2>2
  <2> QED BY <2>1, <2>2, <2>3 DEF NumbersInv, TablesKept
<1>4. CASE BuildTable
  <2> DEFINE n == bg.number
  <2>1. /\ bg.pc = "build" /\ tables' = Put(tables, n, imm) /\ next' = next /\ flaws \subseteq flaws'
        /\ bg'.pc = "flushlog"
    BY <1>4 DEF BuildTable
  <2>2. n \in Nat /\ n < next /\ n \notin DOMAIN tables
    BY <1>0, <2>1, BgFields DEF BgInv, NumbersInv
  <2> HIDE DEF n
  <2>3. DOMAIN tables' = DOMAIN tables \cup {n} /\ \A f \in DOMAIN tables : tables'[f] = tables[f]
    BY <2>1, <2>2 DEF Put
  <2> QED BY <2>1, <2>2, <2>3 DEF NumbersInv, TablesKept
<1>5. CASE MergeNext
  <2>1. bg.pc = "merge" /\ job # NoJob /\ bg' = bg /\ flaws' = flaws
    BY <1>0, <1>5, TurnOfMerge DEF MergeNext
  <2>2. CASE UNCHANGED <<tables, next>>
    BY <2>1, <2>2 DEF NumbersInv, TablesKept
  <2>3. ASSUME NEW out \in {next} \cup job.outputs, NEW E, tables' = Put(tables, out, E),
               next' = IF out = next THEN next + 1 ELSE next
        PROVE  TablesKept /\ NumbersInv' /\ flaws \subseteq flaws'
    <3>1. out \in Nat /\ out < next' /\ next <= next' /\ next' \in Nat /\ next \notin DOMAIN tables
      BY <1>0, <2>1, <2>3 DEF BgInv, NumbersInv
    <3>2. /\ DOMAIN tables' = DOMAIN tables \cup {out}
          /\ \A f \in DOMAIN tables \ {out} : tables'[f] = tables[f]
      BY <2>3 DEF Put
    <3>3. \A f \in DOMAIN tables' : f \in Nat /\ f < next'
      BY <1>0, <3>1, <3>2 DEF NumbersInv
    <3>4. TablesKept
      BY <2>1, <2>3, <3>1, <3>2 DEF TablesKept
    <3> QED BY <2>1, <3>3, <3>4 DEF NumbersInv
  <2>4. \/ UNCHANGED <<tables, next>>
        \/ \E out \in {next} \cup job.outputs : \E E :
              /\ tables' = Put(tables, out, E) /\ next' = IF out = next THEN next + 1 ELSE next
    BY <1>0, <1>5, TurnOfMerge
  <2> QED BY <2>2, <2>3, <2>4
<1>6. CASE StartCompaction \/ FinishMerge \/ InstallMove(TRUE)
  <2>1. UNCHANGED <<tables, next>> /\ flaws \subseteq flaws' /\ bg'.pc # "build"
    BY <1>6, CallEnds, ThreadRecords
       DEF StartCompaction, StartMove, StartMerge, FinishMerge, InstallMove, fileVars
  <2> QED BY <2>1 DEF NumbersInv, TablesKept
<1>7. CASE InstallFlush
  <2>1. UNCHANGED <<tables, next, flaws>> /\ AfterFlush({}, versions', current + 1, bg_error_)
    BY <1>7 DEF InstallFlush
  <2>2. bg'.pc # "build"
    BY <2>1, FlushEnds, ThreadRecords
  <2> QED BY <2>1, <2>2 DEF NumbersInv, TablesKept
<1>8. CASE EndMerge(TRUE)
  <2>1. UNCHANGED <<tables, next, flaws>> /\ bg' \in {Idle, Queued}
    BY <1>8, CallEnds DEF EndMerge
  <2>2. bg'.pc # "build"
    BY <2>1, ThreadRecords
  <2> QED BY <2>1, <2>2 DEF NumbersInv, TablesKept
<1> QED BY <1>2, <1>3, <1>4, <1>5, <1>6, <1>7, <1>8
        DEF Next, Caller, Background, QuietStep, ReadingStep

----------------------------------------------------------------------------
(* Versions that are kept, and the readers that hold them.                 *)

LEMMA FilesStay ==
    ASSUME CompactionInv, RefsInv', NumbersInv, KeptInv, Next, NEW id \in DOMAIN versions
    PROVE  \A f \in AllFiles(Files(id)) : f \in DOMAIN tables /\ f # next /\ tables'[f] = tables[f]
<1>1. AllFiles(Files(id)) \subseteq DOMAIN tables
  BY DEF CompactionInv, EntriesInv, FilesInv
<1>2. job # NoJob => job.outputs \cap AllFiles(Files(id)) = {}
  BY DEF KeptInv
<1>3. TablesKept
  BY TablesStep
<1>4. next \notin DOMAIN tables
  BY DEF NumbersInv
<1> QED BY <1>1, <1>2, <1>3, <1>4 DEF TablesKept

LEMMA InputsStay ==
    ASSUME CompactionInv, RefsInv', NumbersInv, KeptInv, Next, job # NoJob
    PROVE  \A f \in job.in0 \cup job.in1 : f \in DOMAIN tables /\ f # next /\ tables'[f] = tables[f]
<1>1. job.in0 \cup job.in1 \subseteq AllFiles(Files(job.version)) /\ job.version \in DOMAIN versions
  BY HoldersThere DEF CompactionInv, FilesInv
<1> QED BY <1>1, FilesStay

\* The outputs of a merge have new numbers.
LEMMA OutputsStep ==
    ASSUME CompactionInv, RefsInv', Next
    PROVE  job' # NoJob => job'.outputs \subseteq (IF job = NoJob THEN {} ELSE job.outputs) \cup {next}
<1>0. BgInv
  BY DEF CompactionInv
<1>1. CASE ReadingStep \/ QuietStep \/ FlushFails \/ InstallMove(FALSE) \/ EndMerge(FALSE)
  BY <1>1, ReadingIsQuiet, QuietStepIsQuiet, FailuresAreQuiet DEF QuietLevels
<1>2. CASE StartFlush \/ BuildTable \/ InstallFlush \/ FinishMerge \/ InstallMove(TRUE)
  BY <1>2 DEF StartFlush, BuildTable, InstallFlush, FinishMerge, InstallMove
<1>3. CASE EndMerge(TRUE)
  BY <1>3 DEF EndMerge
<1>4. CASE MergeNext
  BY <1>0, <1>4, TurnOfMerge
<1>5. CASE StartCompaction
  <2>1. PICK c : StartMove(c) \/ StartMerge(c)
    BY <1>5 DEF StartCompaction
  <2>2. job' = job \/ job' = NewJob(c, manual)
    BY <2>1 DEF StartMove, StartMerge
  <2> QED BY <2>2, NewJobFields
<1> QED BY <1>1, <1>2, <1>3, <1>4, <1>5 DEF Next, Caller, Background, QuietStep, ReadingStep

LEMMA KeptStep ==
    ASSUME CompactionInv, RefsInv', OrderInv', NumbersInv, KeptInv, Next
    PROVE  KeptInv'
<1> SUFFICES ASSUME NEW id \in DOMAIN versions'
             PROVE  /\ LevelsOK(tables', versions'[id].files, flaws')
                    /\ job' # NoJob => job'.outputs \cap AllFiles(versions'[id].files) = {}
  BY DEF KeptInv, Files
<1>1. ASSUME id \in DOMAIN versions, versions'[id].files = versions[id].files
      PROVE  /\ LevelsOK(tables', versions'[id].files, flaws')
             /\ job' # NoJob => job'.outputs \cap AllFiles(versions'[id].files) = {}
  <2> DEFINE v == versions[id].files
  <2>1. \A f \in AllFiles(v) : f # next /\ tables'[f] = tables[f]
    BY <1>1, FilesStay DEF Files
  <2>2. LevelsOK(tables, v, flaws) /\ (job # NoJob => job.outputs \cap AllFiles(v) = {})
    BY <1>1 DEF KeptInv, Files
  <2>3. flaws \subseteq flaws'
    BY TablesStep
  <2> HIDE DEF v
  <2>4. LevelsOK(tables', v, flaws')
    BY <2>1, <2>2, <2>3, LevelsFrame
  <2>5. job' # NoJob => job'.outputs \cap AllFiles(v) = {}
    BY <2>1, <2>2, OutputsStep
  <2> QED BY <1>1, <2>4, <2>5 DEF v
<1>2. ASSUME id = current'
      PROVE  /\ LevelsOK(tables', versions'[id].files, flaws')
             /\ job' # NoJob => job'.outputs \cap AllFiles(versions'[id].files) = {}
  BY <1>2 DEF OrderInv, LevelInv, VersionOK, JobOK, CurrentFiles, Files
<1> QED BY <1>1, <1>2, VersionsStep DEF VersionsKept

\* What a view shows stays where its tables do.
LEMMA ViewFrame ==
    ASSUME NEW T, NEW U, NEW v, \A f \in AllFiles(v) : U[f] = T[f], NEW m, NEW i
    PROVE  View(m, i, U, v) = View(m, i, T, v) /\ (Ordered(m, i, T, v) => Ordered(m, i, U, v))
BY DEF View, Ordered, Entries

\* Readers hold versions.
LEMMA ReadersThereNext ==
    ASSUME RefsInv', NEW r \in Active'
    PROVE  readers'[r].version \in DOMAIN versions'
<1>1. HolderRange' /\ Counted(versions', Counts')
  BY DEF RefsInv
<1>0. PICK id : id = readers'[r].version
  OBVIOUS
<1>2. id \in Nat
  BY <1>0, <1>1 DEF HolderRange
<1>3. IsFiniteSet(Active') /\ ReadersOf(id)' \subseteq Active'
  BY <1>1 DEF HolderRange, ReadersOf
<1>4. IsFiniteSet(ReadersOf(id)') /\ r \in ReadersOf(id)'
  BY <1>0, <1>3, FS_Subset DEF ReadersOf
<1>5. Cardinality(ReadersOf(id)') \in Nat /\ Cardinality(ReadersOf(id)') # 0
  BY <1>4, FS_CardinalityType, FS_EmptySet
<1>6. HoldersOf(id)' > 0
  BY <1>5 DEF HoldersOf, One
<1>7. Counts'[id] = HoldersOf(id)'
  BY <1>2 DEF Counts
<1> QED BY <1>0, <1>1, <1>2, <1>6, <1>7 DEF Counted

\* A reader goes on with what it has, or starts with what there is.
LEMMA ReaderSteps ==
    ASSUME CompactionInv, Next, NEW r \in Active'
    PROVE  \/ r \in Active /\ readers'[r] = readers[r]
           \/ /\ \E key, s : /\ s \in snapshots \cup {LastSequence}
                             /\ readers'[r] = [key |-> key, s |-> s, mem |-> mem, imm |-> imm,
                                               version |-> current]
              /\ UNCHANGED <<current, hist, tables, flaws>> /\ current \in DOMAIN versions
              /\ versions' = Ref(versions, current)
<1>0. BgInv /\ HolderRange /\ current \in DOMAIN versions
  BY HoldersThere DEF CompactionInv, RefsInv
<1>1. CASE UNCHANGED readers
  BY <1>1 DEF Active
<1>2. CASE ReadingStep
  <2>1. PICK q \in Readers :
          \/ \E key \in Keys \cup {Iterator}, s \in snapshots \cup {LastSequence} :
                StartReading(q, key, s)
          \/ EndGet(q) \/ CleanupIterator(q)
          \/ \E i \in 1..LastSequence : RecordReadSample(q, hist[i])
    BY <1>2 DEF ReadingStep
  <2>2. ASSUME NEW key, NEW s, s \in snapshots \cup {LastSequence}, StartReading(q, key, s)
        PROVE  \/ r \in Active /\ readers'[r] = readers[r]
               \/ /\ \E k, t : /\ t \in snapshots \cup {LastSequence}
                               /\ readers'[r] = [key |-> k, s |-> t, mem |-> mem, imm |-> imm,
                                                 version |-> current]
                  /\ UNCHANGED <<current, hist, tables, flaws>> /\ current \in DOMAIN versions
                  /\ versions' = Ref(versions, current)
    <3>1. /\ readers' = [readers EXCEPT ![q] = [key |-> key, s |-> s, mem |-> mem, imm |-> imm,
                                                version |-> current]]
          /\ UNCHANGED <<current, hist, tables, flaws>> /\ versions' = Ref(versions, current)
      BY <2>2 DEF StartReading, TakeReferences, memVars, fileVars, bgVars
    <3>2. r \in Readers /\ DOMAIN readers = Readers
      BY <1>0 DEF Active, HolderRange
    <3>3. CASE r = q
      BY <1>0, <2>2, <3>1, <3>2, <3>3
    <3>4. CASE r # q
      BY <3>1, <3>2, <3>4 DEF Active
    <3> QED BY <3>3, <3>4
  <2>3. CASE EndGet(q) \/ CleanupIterator(q)
    <3>1. readers' = [readers EXCEPT ![q] = NoReader]
      BY <2>3 DEF EndGet, CleanupIterator
    <3> QED BY <1>0, <3>1 DEF Active, HolderRange
  <2>4. CASE \E i \in 1..LastSequence : RecordReadSample(q, hist[i])
    BY <1>1, <2>4 DEF RecordReadSample
  <2> QED BY <2>1, <2>2, <2>3, <2>4
<1>3. CASE QuietStep
  BY <1>0, <1>1, <1>3, QuietSchedules
<1>4. CASE StartFlush \/ BuildTable \/ InstallFlush \/ FlushFails
  BY <1>1, <1>4 DEF StartFlush, BuildTable, InstallFlush, FlushFails
<1>5. CASE StartCompaction \/ MergeNext \/ FinishMerge
  BY <1>1, <1>5 DEF StartCompaction, MergeNext, FinishMerge
<1>6. ASSUME NEW ok \in BOOLEAN, InstallMove(ok) \/ EndMerge(ok) PROVE UNCHANGED readers
  BY <1>6 DEF InstallMove, EndMerge
<1> QED BY <1>1, <1>2, <1>3, <1>4, <1>5, <1>6 DEF Next, Caller, Background, QuietStep, ReadingStep

\* What is written is never changed, and later writes are not seen.
LEMMA WrittenStep ==
    ASSUME CompactionInv, Next
    PROVE  /\ Written \subseteq Written' /\ LastSequence \in Nat /\ LastSequence' \in Nat
           /\ LastSequence <= LastSequence'
           /\ \A e \in Written' \ Written : e.s = LastSequence + 1
<1>0. hist \in Seq(Entry) /\ Len(hist) \in Nat /\ BgInv
  BY DEF CompactionInv, EntriesInv
<1>1. ASSUME NEW k, NEW del, Write(k, del)
      PROVE  /\ Written \subseteq Written' /\ LastSequence' = LastSequence + 1
             /\ \A e \in Written' \ Written : e.s = LastSequence + 1
  <2> DEFINE e == [k |-> k, s |-> LastSequence + 1, del |-> del]
  <2>1. hist' = Append(hist, e) /\ e.s = LastSequence + 1
    BY <1>1 DEF Write
  <2> HIDE DEF e
  <2>2. /\ Len(hist') = Len(hist) + 1 /\ hist'[Len(hist) + 1] = e
        /\ \A i \in 1..Len(hist) : hist'[i] = hist[i]
    BY <1>0, <2>1
  <2>3. 1..Len(hist') = 1..Len(hist) \cup {Len(hist) + 1}
    BY <1>0, <2>2
  <2>4. Written' = Written \cup {e}
    BY <2>2, <2>3 DEF Written
  <2> QED BY <2>1, <2>2, <2>4 DEF LastSequence
<1>2. CASE UNCHANGED hist
  BY <1>0, <1>2 DEF Written, LastSequence
<1>3. CASE ReadingStep \/ QuietCall \/ QuietWork
  BY <1>2, <1>3, DataStays DEF memVars
<1>4. CASE GetSnapshot \/ (\E s \in snapshots : ReleaseSnapshot(s)) \/ CallSwitches
  BY <1>2, <1>4 DEF GetSnapshot, ReleaseSnapshot, CallSwitches
<1>5. CASE BuildTable \/ InstallFlush \/ MergeNext
  BY <1>2, <1>5 DEF BuildTable, InstallFlush, MergeNext, memVars
<1>6. ASSUME NEW ok \in BOOLEAN, EndMerge(ok) PROVE UNCHANGED hist
  BY <1>6 DEF EndMerge, memVars
<1>7. ASSUME NEW k, NEW del, Write(k, del)
      PROVE  /\ LastSequence \in Nat /\ LastSequence' \in Nat /\ LastSequence <= LastSequence'
  BY <1>0, <1>1, <1>7 DEF LastSequence
<1> QED BY <1>0, <1>1, <1>2, <1>3, <1>4, <1>5, <1>6, <1>7
        DEF Next, Caller, Background, ReadingStep, QuietCall, QuietWork, LastSequence

----------------------------------------------------------------------------
(* One turn of a merge, with the order in which it takes and drops.        *)

MoreFields == {"last", "smallestSnapshot", "ptrs"}

LEMMA JobTurned ==
    ASSUME NEW j, JobFields \cup MoreFields \subseteq DOMAIN j, NEW rest, NEW last, NEW gindex,
           NEW overlapped, NEW ptrs, NEW outputs, NEW builder
    PROVE  LET k == [j EXCEPT !.rest = rest, !.last = last, !.gindex = gindex,
                              !.overlapped = overlapped, !.ptrs = ptrs, !.outputs = outputs,
                              !.builder = builder]
           IN  /\ DOMAIN k = DOMAIN j /\ k.rest = rest /\ k.last = last /\ k.ptrs = ptrs
               /\ k.outputs = outputs /\ k.smallestSnapshot = j.smallestSnapshot
BY DEF JobFields, MoreFields

LEMMA TurnTaken ==
    ASSUME BgInv, MarksInv, MergeNext
    PROVE  /\ job # NoJob /\ job' # NoJob /\ DOMAIN job' = DOMAIN job
           /\ job'.version = job.version /\ job'.level = job.level
           /\ job'.in0 = job.in0 /\ job'.in1 = job.in1
           /\ job'.smallestSnapshot = job.smallestSnapshot
           /\ \E e \in InputAt : \E look :
                 /\ look = IsBaseLevelForKey(tables, Files(job.version), job.level, job.ptrs, e.k)
                 /\ job'.rest = job.rest \ {e} /\ job'.last = {e}
                 /\ job'.ptrs = IF Asks(e) THEN look.ptrs ELSE job.ptrs
                 /\ \/ Drops(e, look.base) /\ UNCHANGED tables /\ job'.outputs = job.outputs
                    \/ \E out \in {next} \cup job.outputs :
                          /\ ~Drops(e, look.base)
                          /\ tables' = Put(tables, out, IF out = next THEN {e} ELSE tables[out] \cup {e})
                          /\ job'.outputs = job.outputs \cup {out}
<1>1. bg.pc = "merge" /\ job # NoJob /\ JobFields \cup MoreFields \subseteq DOMAIN job
  BY DEF MergeNext, BgInv, MarksInv, MoreFields
<1> DEFINE Turn(e, stop, look, open, out, drop) ==
              /\ IF drop THEN UNCHANGED <<tables, disk, pending, next, seeks>> ELSE AddEntry(e, out)
              /\ job' = [job EXCEPT !.rest = @ \ {e}, !.last = {e},
                           !.gindex = stop.gindex, !.overlapped = stop.overlapped,
                           !.ptrs = IF Asks(e) THEN look.ptrs ELSE @,
                           !.outputs = IF drop THEN @ ELSE @ \cup {out},
                           !.builder = IF drop THEN open ELSE CloseOutput(out)]
           Look(e) == IsBaseLevelForKey(tables, Files(job.version), job.level, job.ptrs, e.k)
<1>b. PICK e \in InputAt : \E stop : \E look \in {Look(e)} :
         \E open \in {IF stop.stop THEN 0 ELSE job.builder} :
         \E out \in {OpenOutput(open)}, drop \in {Drops(e, look.base)} :
            Turn(e, stop, look, open, out, drop)
  BY Zenon DEF MergeNext
<1> HIDE DEF Turn, Look
<1>c. PICK stop, look : /\ look = Look(e)
                        /\ \E open \in {IF stop.stop THEN 0 ELSE job.builder} :
                           \E out \in {OpenOutput(open)}, drop \in {Drops(e, look.base)} :
                              Turn(e, stop, look, open, out, drop)
  BY <1>b, Zenon
<1>2. PICK open, out, drop : /\ open = (IF stop.stop THEN 0 ELSE job.builder) /\ out = OpenOutput(open)
                             /\ drop = Drops(e, look.base)
                             /\ Turn(e, stop, look, open, out, drop)
  BY <1>c, Zenon
<1> USE DEF Turn
<1>3. /\ DOMAIN job' = DOMAIN job /\ job'.rest = job.rest \ {e} /\ job'.last = {e}
      /\ job'.ptrs = IF Asks(e) THEN look.ptrs ELSE job.ptrs
      /\ job'.outputs = IF drop THEN job.outputs ELSE job.outputs \cup {out}
      /\ job'.smallestSnapshot = job.smallestSnapshot
  BY <1>1, <1>2, JobTurned
<1>4. /\ job' # NoJob /\ job'.version = job.version /\ job'.level = job.level
      /\ job'.in0 = job.in0 /\ job'.in1 = job.in1
  BY TurnOfMerge
<1>6. CASE drop
  <2>1. UNCHANGED tables /\ Drops(e, look.base) /\ job'.outputs = job.outputs
    BY <1>2, <1>3, <1>6
  <2> QED BY <1>1, <1>3, <1>4, <1>c, <2>1 DEF Look
<1>7. CASE ~drop
  <2>1. out \in {next} \cup job.outputs
    BY <1>1, <1>2 DEF OpenOutput, BgInv
  <2>2. tables' = Put(tables, out, IF out = next THEN {e} ELSE tables[out] \cup {e})
    BY <1>2, <1>7, Zenon DEF AddEntry
  <2>3. job'.outputs = job.outputs \cup {out}
    BY <1>3, <1>7
  <2>4. ~Drops(e, look.base)
    BY <1>2, <1>7, Zenon
  <2> HIDE DEF Turn
  <2>5. look = Look(e) /\ e \in InputAt
    BY <1>c
  <2> USE DEF Look
  <2> QED BY <1>1, <1>3, <1>4, <2>1, <2>2, <2>3, <2>4, <2>5
<1> QED BY <1>6, <1>7

----------------------------------------------------------------------------
(* Snapshots and what a merge keeps for them.                              *)

LEMMA OldestOfSnapshots ==
    ASSUME snapshots \subseteq Nat, LastSequence \in Nat, \A s \in snapshots : s <= LastSequence
    PROVE  OldestSnapshot \in Nat /\ \A s \in snapshots \cup {LastSequence} : OldestSnapshot <= s
<1>1. CASE snapshots = {}
  BY <1>1 DEF OldestSnapshot
<1>2. CASE snapshots # {}
  <2>1. PICK m \in snapshots : \A s \in snapshots : m <= s
    BY <1>2, LeastMember
  <2>2. Min(snapshots) \in snapshots /\ \A s \in snapshots : Min(snapshots) <= s
    BY <2>1 DEF Min
  <2>3. OldestSnapshot = Min(snapshots)
    BY <1>2 DEF OldestSnapshot
  <2>4. OldestSnapshot \in Nat /\ \A s \in snapshots : OldestSnapshot <= s
    BY <2>2, <2>3
  <2>5. OldestSnapshot <= LastSequence
    BY <2>2, <2>3
  <2> QED BY <2>4, <2>5
<1> QED BY <1>1, <1>2

LEMMA SnapshotsStep ==
    ASSUME Next
    PROVE  snapshots' \subseteq snapshots \cup {LastSequence}
<1>1. CASE ReadingStep \/ QuietCall \/ QuietWork
  BY <1>1, DataStays DEF memVars
<1>2. ASSUME NEW k, NEW del, Write(k, del) PROVE snapshots' = snapshots
  BY <1>2 DEF Write
<1>3. CASE GetSnapshot \/ (\E s \in snapshots : ReleaseSnapshot(s)) \/ CallSwitches
  BY <1>3 DEF GetSnapshot, ReleaseSnapshot, CallSwitches
<1>4. CASE BuildTable \/ InstallFlush \/ MergeNext
  BY <1>4 DEF BuildTable, InstallFlush, MergeNext, memVars
<1>5. ASSUME NEW ok \in BOOLEAN, EndMerge(ok) PROVE snapshots' = snapshots
  BY <1>5 DEF EndMerge, memVars
<1> QED BY <1>1, <1>2, <1>3, <1>4, <1>5
        DEF Next, Caller, Background, ReadingStep, QuietCall, QuietWork

LEMMA MarksStep ==
    ASSUME CompactionInv, RefsInv', MarksInv, Next
    PROVE  MarksInv'
<1>0. /\ BgInv /\ LastSequence \in Nat /\ LastSequence' \in Nat /\ LastSequence <= LastSequence'
      /\ \A s \in snapshots : s \in Nat /\ s <= LastSequence
  BY WrittenStep DEF CompactionInv, MarksInv
<1>1. snapshots' \subseteq snapshots \cup {LastSequence}
  BY SnapshotsStep
<1>2. \A s \in snapshots' : s \in Nat /\ s <= LastSequence'
  BY <1>0, <1>1
<1> DEFINE Kept(j) == /\ MoreFields \subseteq DOMAIN j /\ j.smallestSnapshot \in Nat
                      /\ \A s \in snapshots \cup {LastSequence} : j.smallestSnapshot <= s
<1>3. job # NoJob => Kept(job)
  BY DEF MarksInv, MoreFields
<1>4. job' # NoJob => Kept(job')
  <2>1. CASE ReadingStep \/ QuietStep \/ FlushFails \/ InstallMove(FALSE) \/ EndMerge(FALSE)
    BY <1>3, <2>1, ReadingIsQuiet, QuietStepIsQuiet, FailuresAreQuiet DEF QuietLevels
  <2>2. CASE StartFlush \/ BuildTable \/ InstallFlush \/ FinishMerge \/ InstallMove(TRUE)
    BY <1>3, <2>2 DEF StartFlush, BuildTable, InstallFlush, FinishMerge, InstallMove
  <2>3. CASE EndMerge(TRUE)
    BY <2>3 DEF EndMerge
  <2>4. CASE MergeNext
    BY <1>0, <1>3, <2>4, TurnTaken
  <2>5. CASE StartCompaction
    <3>1. PICK c : StartMove(c) \/ StartMerge(c)
      BY <2>5 DEF StartCompaction
    <3>2. job' = job \/ job' = NewJob(c, manual)
      BY <3>1 DEF StartMove, StartMerge
    <3>3. CASE job' = NewJob(c, manual)
      <4>1. MoreFields \subseteq DOMAIN job' /\ job'.smallestSnapshot = OldestSnapshot
        BY <3>3 DEF NewJob, MoreFields
      <4> QED BY <1>0, <4>1, OldestOfSnapshots
    <3> QED BY <1>3, <3>2, <3>3
  <2> QED BY <2>1, <2>2, <2>3, <2>4, <2>5 DEF Next, Caller, Background, QuietStep, ReadingStep
<1>5. ASSUME job' # NoJob PROVE \A s \in snapshots' \cup {LastSequence'} : job'.smallestSnapshot <= s
  BY <1>0, <1>1, <1>4, <1>5
<1> QED BY <1>2, <1>4, <1>5 DEF MarksInv, MoreFields

----------------------------------------------------------------------------
(* What readers find.                                                      *)

\* Finds() after the step
FindsNext(E, s) == \A key \in Keys : Answer(Newest(E, key, s)) = Answer(Newest(Written', key, s))

\* Later writes are not seen.
LEMMA FindsStay ==
    ASSUME CompactionInv, Next, NEW s \in Nat, s <= LastSequence, NEW E, Finds(E, s)
    PROVE  FindsNext(E, s)
<1> SUFFICES ASSUME NEW key \in Keys PROVE Newest(Written', key, s) = Newest(Written, key, s)
  BY DEF Finds, FindsNext
<1>1. /\ Written \subseteq Written' /\ LastSequence \in Nat
      /\ \A e \in Written' \ Written : e.s = LastSequence + 1
  BY WrittenStep
<1>2. \A e \in Written' \ Written : ~(e.s <= s)
  BY <1>1
<1>3. {e \in Written' : e.k = key /\ e.s <= s} = {e \in Written : e.k = key /\ e.s <= s}
  BY <1>1, <1>2
<1> QED BY <1>3 DEF Newest

\* A version that was there, and is kept
LEMMA VersionIsKept ==
    ASSUME CompactionInv, Next, NEW id \in 1..current, id \in DOMAIN versions'
    PROVE  id \in DOMAIN versions /\ versions'[id].files = versions[id].files
<1>1. id # current + 1
  BY DEF CompactionInv, RefsInv, HolderRange
<1> QED BY <1>1, VersionsStep DEF VersionsKept

LEMMA ReaderStep ==
    ASSUME CompactionInv, RefsInv', NumbersInv, KeptInv, Next, NEW id \in 1..current,
           id \in DOMAIN versions', NEW m, NEW i, NEW s \in Nat,
           m \subseteq Written, i \subseteq Written, s <= LastSequence,
           Ordered(m, i, tables, Files(id)),
           flaws = {} => Finds(View(m, i, tables, Files(id)), s)
    PROVE  /\ m \subseteq Written' /\ i \subseteq Written' /\ s <= LastSequence'
           /\ Ordered(m, i, tables', versions'[id].files)
           /\ flaws' = {} => FindsNext(View(m, i, tables', versions'[id].files), s)
<1> DEFINE v == Files(id)
<1>1. id \in DOMAIN versions /\ versions'[id].files = v
  BY VersionIsKept DEF Files
<1>2. \A f \in AllFiles(v) : tables'[f] = tables[f]
  BY <1>1, FilesStay
<1> HIDE DEF v
<1>3. View(m, i, tables', v) = View(m, i, tables, v) /\ Ordered(m, i, tables', v)
  BY <1>2, ViewFrame DEF v
<1>4. m \subseteq Written' /\ i \subseteq Written' /\ s <= LastSequence'
  BY WrittenStep
<1>5. flaws \subseteq flaws'
  BY TablesStep
<1>6. ASSUME flaws' = {}
      PROVE  FindsNext(View(m, i, tables', v), s)
  <2>1. Finds(View(m, i, tables, v), s)
    BY <1>5, <1>6 DEF v
  <2> QED BY <1>3, <2>1, FindsStay
<1> QED BY <1>1, <1>3, <1>4, <1>6

LEMMA ReadersStep ==
    ASSUME CompactionInv, RefsInv', OrderInv, NumbersInv, MarksInv, KeptInv, ReadersInv, ViewInv, Next
    PROVE  ReadersInv'
<1> SUFFICES ASSUME NEW r \in Active'
             PROVE  LET t == readers'[r]
                        v == versions'[t.version].files
                    IN  /\ t.mem \subseteq Written' /\ t.imm \subseteq Written'
                        /\ t.s \in Nat /\ t.s <= LastSequence'
                        /\ Ordered(t.mem, t.imm, tables', v)
                        /\ flaws' = {} => FindsNext(View(t.mem, t.imm, tables', v), t.s)
  BY DEF ReadersInv, Files, Finds, FindsNext
<1>1. readers'[r].version \in DOMAIN versions'
  BY ReadersThereNext
<1>2. EntriesInv /\ HolderRange /\ current \in 1..current
  BY DEF CompactionInv, RefsInv, HolderRange
<1>3. CASE r \in Active /\ readers'[r] = readers[r]
  <2> DEFINE t == readers[r]
  <2>1. /\ t.mem \subseteq Written /\ t.imm \subseteq Written
        /\ t.s \in Nat /\ t.s <= LastSequence /\ t.version \in 1..current
        /\ Ordered(t.mem, t.imm, tables, Files(t.version))
        /\ flaws = {} => Finds(View(t.mem, t.imm, tables, Files(t.version)), t.s)
    BY <1>2, <1>3 DEF ReadersInv, HolderRange
  <2> QED BY <1>1, <1>3, <2>1, ReaderStep
<1>4. ASSUME NEW of, NEW s, s \in snapshots \cup {LastSequence},
             readers'[r] = [key |-> of, s |-> s, mem |-> mem, imm |-> imm, version |-> current]
      PROVE  LET t == readers'[r]
                 v == versions'[t.version].files
             IN  /\ t.mem \subseteq Written' /\ t.imm \subseteq Written'
                 /\ t.s \in Nat /\ t.s <= LastSequence'
                 /\ Ordered(t.mem, t.imm, tables', v)
                 /\ flaws' = {} => FindsNext(View(t.mem, t.imm, tables', v), t.s)
  <2> DEFINE t == readers'[r]
  <2>1. t.mem = mem /\ t.imm = imm /\ t.s = s /\ t.version = current
    BY <1>4
  <2>2. s \in Nat /\ s <= LastSequence
    BY <1>4, WrittenStep DEF MarksInv
  <2>3. Ordered(mem, imm, tables, Files(current))
    BY DEF OrderInv, TimeInv, Older, Ordered, Predates, CurrentFiles
  <2>4. flaws = {} => Finds(View(mem, imm, tables, Files(current)), s)
    BY <1>4 DEF ViewInv, CurrentFiles
  <2>5. t.mem \subseteq Written /\ t.imm \subseteq Written
    BY <1>2, <2>1 DEF EntriesInv
  <2>6. /\ t.s \in Nat /\ t.s <= LastSequence /\ t.version \in 1..current
        /\ Ordered(t.mem, t.imm, tables, Files(t.version))
        /\ flaws = {} => Finds(View(t.mem, t.imm, tables, Files(t.version)), t.s)
    BY <1>2, <2>1, <2>2, <2>3, <2>4
  <2>7. t.version \in DOMAIN versions'
    BY <1>1
  <2> HIDE DEF t
  <2>8. /\ t.mem \subseteq Written' /\ t.imm \subseteq Written' /\ t.s <= LastSequence'
        /\ Ordered(t.mem, t.imm, tables', versions'[t.version].files)
        /\ flaws' = {} => FindsNext(View(t.mem, t.imm, tables', versions'[t.version].files), t.s)
    BY <2>5, <2>6, <2>7, ReaderStep
  <2> QED BY <2>6, <2>8 DEF t
<1> QED BY <1>3, <1>4, ReaderSteps

----------------------------------------------------------------------------
(* What the edits on their way change.                                     *)

LEMMA SavedAll ==
    ASSUME NEW deleted, NEW level \in Levels, NEW added
    PROVE  AllFiles(SaveTo(deleted, level, added)) = (AllFiles(CurrentFiles) \ deleted) \cup added
<1> DEFINE v == SaveTo(deleted, level, added)
<1>1. \A l \in Levels : v[l] = (CurrentFiles[l] \ deleted) \cup IF l = level THEN added ELSE {}
  BY DEF SaveTo
<1> HIDE DEF v
<1>2. ASSUME NEW f \in AllFiles(v) PROVE f \in (AllFiles(CurrentFiles) \ deleted) \cup added
  BY <1>1 DEF AllFiles
<1>3. ASSUME NEW f \in (AllFiles(CurrentFiles) \ deleted) \cup added PROVE f \in AllFiles(v)
  BY <1>1 DEF AllFiles
<1> QED BY <1>2, <1>3 DEF v

LEMMA EntriesFrame ==
    ASSUME NEW T, NEW U, NEW F, \A f \in F : U[f] = T[f]
    PROVE  Entries(U, F) = Entries(T, F)
BY DEF Entries

LEMMA CurrentStaysThere ==
    ASSUME CompactionInv, RefsInv', NumbersInv, KeptInv, Next
    PROVE  \A f \in AllFiles(CurrentFiles) : f \in DOMAIN tables /\ f # next /\ tables'[f] = tables[f]
BY HoldersThere, FilesStay DEF CompactionInv, CurrentFiles

LEMMA EditStep ==
    ASSUME CompactionInv, RefsInv', OrderInv, NumbersInv, KeptInv, EditInv, Next
    PROVE  EditInv'
<1>0. /\ BgInv /\ CurrentFiles \in FileMaps
      /\ \A f \in AllFiles(CurrentFiles) : tables'[f] = tables[f]
  BY CurrentIsThere, CurrentStaysThere DEF CompactionInv
<1>1. ASSUME bg'.pc \notin {"flushlog", "movelog", "mergelog"} PROVE EditInv'
  BY <1>1 DEF EditInv
<1>2. ASSUME QuietLevels PROVE EditInv'
  <2>1. CASE bg' = bg /\ job' = job /\ (imm' = imm \/ bg.pc # "flushlog")
    <3>1. tables' = tables /\ CurrentFiles' = CurrentFiles
      BY <1>2 DEF QuietLevels
    <3> QED BY <2>1, <3>1 DEF EditInv
  <2>2. CASE bg' \in {Idle, Queued, [pc |-> "merge"]}
    BY <1>1, <2>2, ThreadRecords
  <2> QED BY <1>2, <2>1, <2>2 DEF QuietLevels
<1>3. CASE ReadingStep \/ QuietStep \/ FlushFails \/ InstallMove(FALSE) \/ EndMerge(FALSE)
  BY <1>2, <1>3, ReadingIsQuiet, QuietStepIsQuiet, FailuresAreQuiet
<1>4. CASE StartFlush \/ MergeNext
  <2>1. bg'.pc \in {"build", "merge"}
    BY <1>0, <1>4, TurnOfMerge DEF StartFlush
  <2> QED BY <1>1, <2>1
<1>5. CASE InstallFlush
  BY <1>1, <1>5, FlushEnds, ThreadRecords DEF InstallFlush
<1>6. CASE InstallMove(TRUE)
  BY <1>1, <1>6, CallEnds, ThreadRecords DEF InstallMove
<1>7. CASE EndMerge(TRUE)
  BY <1>1, <1>7, CallEnds, ThreadRecords DEF EndMerge
<1>8. CASE BuildTable
  <2> DEFINE n == bg.number
             T == Put(tables, n, imm)
             L == LevelFor(T, n)
  <2>1. /\ bg.pc = "build" /\ tables' = T /\ bg' = [pc |-> "flushlog", files |-> SaveTo({}, L, {n})]
        /\ versions' = Unref(versions, bg.base) /\ UNCHANGED <<imm, current>>
    BY <1>8 DEF BuildTable, PlaceTable, memVars
  <2>2. n \in Nat /\ Holds(imm) /\ bg.base = current /\ \A f \in AllFiles(CurrentFiles) : f < n
    <3>1. n \in Nat /\ imm # {} /\ imm \subseteq Written
      BY <1>0, <2>1, BgFields DEF BgInv, EntriesInv, CompactionInv
    <3>2. bg.base = current /\ \A f \in AllFiles(CurrentFiles) : f < n
      BY <2>1 DEF OrderInv, LevelInv
    <3> QED BY <3>1, <3>2 DEF Holds
  <2> HIDE DEF n, T, L
  <2>3. T = Put(tables, n, imm) /\ L = LevelFor(T, n) /\ T[n] = imm
    BY DEF T, L, Put
  <2>4. L \in Levels
    <3>1. L = PickLevelForMemTableOutput(T, CurrentFiles, FirstKey(imm).k, LastKey(imm).k)
      BY <2>2, <2>3 DEF LevelFor, Smallest, Largest, CurrentFiles
    <3> QED BY <2>2, <2>3, <3>1, TablePlaced
  <2>5. CurrentFiles' = CurrentFiles
    <3>1. \A x \in DOMAIN versions : DOMAIN versions[x] = VersionFields
      BY DEF CompactionInv, RefsInv, Counted
    <3>2. Keeps(versions', versions)
      BY <2>1, <3>1, UnrefKeeps
    <3> QED BY <2>1, <3>2, CurrentStays
  <2>6. AllFiles(bg'.files) = AllFiles(CurrentFiles) \cup {n}
    BY <2>1, <2>4, SavedAll
  <2>7. Entries(tables', AllFiles(bg'.files)) = Entries(tables', AllFiles(CurrentFiles)) \cup imm
    BY <2>1, <2>3, <2>6 DEF Entries
  <2>8. bg'.pc = "flushlog"
    BY <2>1
  <2> QED BY <2>1, <2>5, <2>7, <2>8 DEF EditInv
<1>9. CASE StartCompaction
  <2>1. PICK c \in Candidates : StartMove(c) \/ StartMerge(c)
    BY <1>9 DEF StartCompaction
  <2>2. CASE StartMerge(c)
    BY <1>1, <2>2 DEF StartMerge
  <2>3. CASE StartMove(c)
    <3>1. bg' = [pc |-> "movelog", base |-> current, files |-> SaveTo(c.in0, c.level + 1, c.in0)]
      BY <2>3 DEF StartMove
    <3>2. c.level \in 0..NumLevels - 2 /\ c.in0 \subseteq AllFiles(CurrentFiles)
      BY CandidatesAreFiles DEF CompactionInv
    <3>3. c.level + 1 \in Levels
      BY <3>2, VersionsAssumption DEF Levels
    <3>4. AllFiles(bg'.files) = AllFiles(CurrentFiles)
      <4>1. PICK level \in Levels : level = c.level + 1
        BY <3>3
      <4>2. AllFiles(SaveTo(c.in0, level, c.in0)) = (AllFiles(CurrentFiles) \ c.in0) \cup c.in0
        BY SavedAll
      <4> QED BY <3>1, <3>2, <4>1, <4>2
    <3>5. CurrentFiles' = CurrentFiles
      <4>1. Counted(versions, Counts) /\ Counts \in [Nat -> Nat] /\ current \in DOMAIN versions
        BY CountsNat, HoldersThere DEF CompactionInv, RefsInv
      <4>2. versions' = Ref(versions, current) /\ current' = current
        BY <1>9 DEF StartCompaction
      <4>3. Keeps(versions', versions)
        BY <4>1, <4>2, RefCounted
      <4> QED BY <4>2, <4>3, CurrentStays
    <3>6. bg'.pc = "movelog"
      BY <3>1
    <3> QED BY <3>4, <3>5, <3>6 DEF EditInv
  <2> QED BY <2>1, <2>2, <2>3
<1>10. CASE FinishMerge
  <2>1. /\ bg' = [pc |-> "mergelog", files |-> InstallCompactionResults]
        /\ UNCHANGED <<versions, current, job>> /\ job.rest = {} /\ job # NoJob
    BY <1>0, <1>10 DEF FinishMerge, verVars, BgInv
  <2>2. job.level + 1 \in Levels
    BY <2>1, InputsInVersion DEF OrderInv, LevelInv
  <2>3. AllFiles(bg'.files) = (AllFiles(CurrentFiles) \ (job.in0 \cup job.in1)) \cup job.outputs
    BY <2>1, <2>2, SavedAll DEF InstallCompactionResults
  <2>4. CurrentFiles' = CurrentFiles /\ bg'.pc = "mergelog"
    BY <2>1 DEF CurrentFiles, Files
  <2> QED BY <2>1, <2>3, <2>4 DEF EditInv
<1> QED BY <1>3, <1>4, <1>5, <1>6, <1>7, <1>8, <1>9, <1>10
        DEF Next, Caller, Background, QuietStep, ReadingStep

----------------------------------------------------------------------------
(* What is to be found now.                                                *)

\* A step that changes the place of entries only.
LEMMA ViewBy ==
    ASSUME CompactionInv, RefsInv', NumbersInv, MarksInv, ViewInv, Next, UNCHANGED hist,
           View(mem', imm', tables', CurrentFiles') = View(mem, imm, tables, CurrentFiles)
    PROVE  ViewInv'
<1>1. Written' = Written /\ LastSequence' = LastSequence
  BY DEF Written, LastSequence
<1>2. flaws \subseteq flaws' /\ snapshots' \subseteq snapshots \cup {LastSequence}
  BY TablesStep, SnapshotsStep
<1>3. ASSUME flaws' = {}, NEW s \in snapshots' \cup {LastSequence'}
      PROVE  FindsNext(View(mem', imm', tables', CurrentFiles'), s)
  <2>1. flaws = {} /\ s \in snapshots \cup {LastSequence}
    BY <1>1, <1>2, <1>3
  <2>2. Finds(View(mem, imm, tables, CurrentFiles), s)
    BY <2>1 DEF ViewInv
  <2>3. FindsNext(View(mem, imm, tables, CurrentFiles), s)
    BY <1>1, <2>2 DEF Finds, FindsNext
  <2> QED BY <2>3
<1> QED BY <1>3 DEF ViewInv, Finds, FindsNext

LEMMA CurrentKept ==
    ASSUME CompactionInv, RefsInv', Next, current' = current
    PROVE  CurrentFiles' = CurrentFiles
<1>1. current \in 1..current /\ current \in DOMAIN versions'
  BY CurrentThereNext DEF CompactionInv, RefsInv, HolderRange
<1>2. versions'[current].files = versions[current].files
  BY <1>1, VersionIsKept
<1> QED BY <1>2 DEF CurrentFiles, Files

LEMMA ViewStays ==
    ASSUME CompactionInv, RefsInv', NumbersInv, MarksInv, KeptInv, ViewInv, Next,
           UNCHANGED <<hist, current>>, mem' \cup imm' = mem \cup imm
    PROVE  ViewInv'
<1>1. CurrentFiles' = CurrentFiles
  BY CurrentKept
<1>2. \A f \in AllFiles(CurrentFiles) : tables'[f] = tables[f]
  BY CurrentStaysThere
<1>3. Entries(tables', AllFiles(CurrentFiles)) = Entries(tables, AllFiles(CurrentFiles))
  BY <1>2, EntriesFrame
<1>4. View(mem', imm', tables', CurrentFiles') = View(mem, imm, tables, CurrentFiles)
  BY <1>1, <1>3 DEF View
<1> QED BY <1>4, ViewBy

\* A later entry is the newest for those who see it, and not there for others.
Under(E, e) == e.s \in Nat /\ \A x \in E : x.s \in Nat /\ x.s < e.s
SeenSame(E, s, t) == \A x \in E : (x.s <= s) <=> (x.s <= t)

LEMMA NewestUnseen ==
    ASSUME NEW E, NEW e, NEW key, NEW s, ~(e.k = key /\ e.s <= s)
    PROVE  Newest(E \cup {e}, key, s) = Newest(E, key, s)
<1>1. {x \in E \cup {e} : x.k = key /\ x.s <= s} = {x \in E : x.k = key /\ x.s <= s}
  OBVIOUS
<1> QED BY <1>1 DEF Newest

LEMMA NewestSeen ==
    ASSUME NEW E, NEW e, Under(E, e)
    PROVE  Newest(E \cup {e}, e.k, e.s) = {e}
<1> DEFINE seen == {x \in E \cup {e} : x.k = e.k /\ x.s <= e.s}
<1>1. e \in seen /\ (\A x \in seen : x.s <= e.s) /\ \A x \in seen \ {e} : ~(e.s <= x.s)
  BY DEF Under
<1>2. {y \in seen : \A x \in seen : x.s <= y.s} = {e}
  BY <1>1
<1> QED BY <1>2 DEF Newest

LEMMA NewestSame ==
    ASSUME NEW E, NEW key, NEW s, NEW t, SeenSame(E, s, t)
    PROVE  Newest(E, key, s) = Newest(E, key, t)
<1>1. {x \in E : x.k = key /\ x.s <= s} = {x \in E : x.k = key /\ x.s <= t}
  BY DEF SeenSame
<1> QED BY <1>1 DEF Newest

LEMMA ViewOfWrite ==
    ASSUME CompactionInv, MarksInv, ViewInv, NEW k \in Keys, NEW del \in BOOLEAN, Write(k, del)
    PROVE  ViewInv'
<1> DEFINE e == [k |-> k, s |-> LastSequence + 1, del |-> del]
           E == View(mem, imm, tables, CurrentFiles)
           n == LastSequence
<1>1. /\ UNCHANGED <<tables, versions, current, snapshots, flaws>> /\ hist' = Append(hist, e)
      /\ mem' \cup imm' = mem \cup imm \cup {e}
  BY DEF Write, fileVars, verVars
<1>2. n \in Nat /\ (\A x \in E : x.s \in Nat /\ x.s <= n) /\ e.s = n + 1
  <2>1. /\ LastSequence \in Nat
        /\ \A x \in mem \cup imm : x.s \in Nat /\ x.s <= LastSequence
        /\ \A f \in AllFiles(CurrentFiles) : \A x \in tables[f] : x.s \in Nat /\ x.s <= LastSequence
    BY WrittenBefore
  <2> QED BY <2>1 DEF View, Entries
<1> HIDE DEF e
<1>3. Written' = Written \cup {e} /\ Len(hist') = Len(hist) + 1
  <2>1. hist \in Seq(Entry) /\ Len(hist) \in Nat
    BY DEF CompactionInv, EntriesInv
  <2>2. /\ Len(hist') = Len(hist) + 1 /\ hist'[Len(hist) + 1] = e
        /\ \A i \in 1..Len(hist) : hist'[i] = hist[i]
    BY <1>1, <2>1
  <2>3. 1..Len(hist') = 1..Len(hist) \cup {Len(hist) + 1}
    BY <2>1, <2>2
  <2> QED BY <2>2, <2>3 DEF Written
<1>4. \A x \in Written : x.s \in Nat /\ x.s <= n
  BY WrittenOrdered DEF CompactionInv, LastSequence
<1>5. View(mem', imm', tables', CurrentFiles') = E \cup {e}
  <2>1. CurrentFiles' = CurrentFiles
    BY <1>1 DEF CurrentFiles, Files
  <2> QED BY <1>1, <2>1 DEF View
<1>6. LastSequence' = n + 1
  BY <1>3 DEF LastSequence
<1>a. \A s \in snapshots : s \in Nat /\ s <= n
  BY DEF MarksInv
<1>b. flaws = {} => Finds(E, n) /\ \A s \in snapshots : Finds(E, s)
  BY DEF ViewInv
<1> HIDE DEF E, n
<1>7. ASSUME flaws' = {}, NEW s \in snapshots' \cup {LastSequence'}, NEW key \in Keys
      PROVE  Answer(Newest(E \cup {e}, key, s)) = Answer(Newest(Written \cup {e}, key, s))
  <2>1. CASE s \in snapshots
    <3>1. ~(e.s <= s)
      BY <1>2, <1>a, <2>1
    <3>2. /\ Newest(E \cup {e}, key, s) = Newest(E, key, s)
          /\ Newest(Written \cup {e}, key, s) = Newest(Written, key, s)
      BY <3>1, NewestUnseen
    <3> QED BY <1>1, <1>b, <1>7, <2>1, <3>2 DEF Finds
  <2>2. CASE s = n + 1 /\ key = e.k
    <3>1. Under(E, e) /\ Under(Written, e)
      BY <1>2, <1>4 DEF Under
    <3>2. Newest(E \cup {e}, e.k, e.s) = {e} /\ Newest(Written \cup {e}, e.k, e.s) = {e}
      BY <3>1, NewestSeen
    <3> QED BY <1>2, <2>2, <3>2
  <2>3. CASE s = n + 1 /\ key # e.k
    <3>1. /\ Newest(E \cup {e}, key, s) = Newest(E, key, s)
          /\ Newest(Written \cup {e}, key, s) = Newest(Written, key, s)
      BY <2>3, NewestUnseen
    <3>2. SeenSame(E, s, n) /\ SeenSame(Written, s, n)
      BY <1>2, <1>4, <2>3 DEF SeenSame
    <3>3. Newest(E, key, s) = Newest(E, key, n) /\ Newest(Written, key, s) = Newest(Written, key, n)
      BY <3>2, NewestSame
    <3> QED BY <1>1, <1>b, <1>7, <3>1, <3>3 DEF Finds
  <2> QED BY <1>1, <1>6, <1>7, <2>1, <2>2, <2>3
<1> QED BY <1>3, <1>5, <1>7 DEF ViewInv, Finds

LEMMA ViewOfFlush ==
    ASSUME CompactionInv, RefsInv', NumbersInv, MarksInv, ViewInv, EditInv, Next,
           InstallFlush \/ InstallMove(TRUE)
    PROVE  ViewInv'
<1>1. bg.pc \in {"flushlog", "movelog"} /\ bg.files \in FileMaps
  BY BgFields DEF CompactionInv, InstallFlush, InstallMove
<1>2. CASE InstallFlush
  <2>1. /\ versions' = AppendVersion(versions, bg.files) /\ current' = current + 1 /\ imm' = {}
        /\ UNCHANGED <<hist, mem, tables>> /\ bg.pc = "flushlog"
    BY <1>2 DEF InstallFlush
  <2>2. CurrentFiles' = bg.files
    BY <1>1, <2>1, CurrentIsNew
  <2>3. Entries(tables, AllFiles(bg.files)) = Entries(tables, AllFiles(CurrentFiles)) \cup imm
    BY <2>1 DEF EditInv
  <2>4. View(mem', imm', tables', CurrentFiles') = View(mem, imm, tables, CurrentFiles)
    BY <2>1, <2>2, <2>3 DEF View
  <2> QED BY <2>1, <2>4, ViewBy
<1>3. CASE InstallMove(TRUE)
  <2>1. /\ versions' = Unref(AppendVersion(versions, bg.files), bg.base) /\ current' = current + 1
        /\ UNCHANGED <<hist, mem, imm, tables>> /\ bg.pc = "movelog"
    BY <1>3 DEF InstallMove, memVars, fileVars
  <2>2. CurrentFiles' = bg.files
    BY <1>1, <2>1, CurrentIsNew
  <2>3. AllFiles(bg.files) = AllFiles(CurrentFiles)
    BY <2>1 DEF EditInv
  <2>4. View(mem', imm', tables', CurrentFiles') = View(mem, imm, tables, CurrentFiles)
    BY <2>1, <2>2, <2>3 DEF View
  <2> QED BY <2>1, <2>4, ViewBy
<1> QED BY <1>2, <1>3

----------------------------------------------------------------------------
(* A merge that is installed.                                              *)

\* K is what a merge of M has kept, X is what lies beside it: what is missing
\* is hidden from those who see small, or marks the deletion of what is
\* nowhere else.
Passes(X, M, K, small) ==
    \A e \in M \ K :
        \/ \E x \in M : x.k = e.k /\ e.s < x.s /\ x.s <= small
        \/ e.del /\ \A y \in X \cup K : y.k = e.k => e.s < y.s

LEMMA MergeHides ==
    ASSUME EntriesInv, NEW X \in SUBSET Written, NEW M \in SUBSET Written, NEW K \in SUBSET M,
           NEW small \in Nat, NEW s \in Nat, small <= s, Passes(X, M, K, small), NEW key
    PROVE  Answer(Newest(X \cup K, key, s)) = Answer(Newest(X \cup M, key, s))
<1>0. /\ \A x \in X \cup M : x.s \in Nat
      /\ X \cup M \in SUBSET Written /\ X \cup K \in SUBSET Written
  BY WrittenOrdered
<1>1. CASE \A x \in X \cup M : ~(x.k = key /\ x.s <= s)
  <2>1. Newest(X \cup M, key, s) = {} /\ Newest(X \cup K, key, s) = {}
    BY <1>1, NewestNone
  <2> QED BY <2>1
<1>2. ASSUME NEW e \in X \cup M, Newest(X \cup M, key, s) = {e}, e.k = key, e.s <= s,
             \A y \in X \cup M : y.k = key /\ y.s <= s => y.s <= e.s
      PROVE  Answer(Newest(X \cup K, key, s)) = Answer(Newest(X \cup M, key, s))
  <2>1. CASE e \in X \cup K
    <3>1. \A y \in X \cup K : y.k = key /\ y.s <= s => y.s <= e.s
      BY <1>2
    <3>2. Newest(X \cup K, key, s) = {e}
      BY <1>0, <1>2, <2>1, <3>1, NewestIs
    <3> QED BY <1>2, <3>2
  <2>2. CASE e \notin X \cup K
    <3>1. e \in M \ K
      BY <2>2
    <3>2. ~\E x \in M : x.k = e.k /\ e.s < x.s /\ x.s <= small
      BY <1>0, <1>2
    <3>3. e.del /\ \A y \in X \cup K : y.k = e.k => e.s < y.s
      BY <3>1, <3>2 DEF Passes
    <3>4. \A y \in X \cup K : ~(y.k = key /\ y.s <= s)
      BY <1>0, <1>2, <3>3
    <3>5. Newest(X \cup K, key, s) = {}
      BY <3>4, NewestNone
    <3>6. Answer({e}) = {} /\ Answer({}) = {}
      BY <3>3 DEF Answer
    <3> QED BY <1>2, <3>5, <3>6
  <2> QED BY <2>1, <2>2
<1>3. CASE Newest(X \cup M, key, s) = {} /\ \A x \in X \cup M : ~(x.k = key /\ x.s <= s)
  BY <1>1, <1>3
<1>4. CASE \E e \in X \cup M : /\ Newest(X \cup M, key, s) = {e} /\ e.k = key /\ e.s <= s
                        /\ \A y \in X \cup M : y.k = key /\ y.s <= s => y.s <= e.s
  BY <1>2, <1>4
<1> QED BY <1>0, <1>3, <1>4, NewestEither

\* What a merge drops hides nothing that lies beside it.
LEMMA MergePasses ==
    ASSUME CompactionInv, OrderInv, MarksInv, KeptInv, DropInv, flaws = {}, job # NoJob, job.rest = {},
           NEW X, X = mem \cup imm \cup Entries(tables, AllFiles(CurrentFiles) \ (job.in0 \cup job.in1))
    PROVE  Passes(X, Merged(tables, job), Entries(tables, job.outputs), job.smallestSnapshot)
<1> DEFINE M == Merged(tables, job)
           K == Entries(tables, job.outputs)
<1>0. /\ EntriesInv /\ job.in0 \cup job.in1 \subseteq AllFiles(CurrentFiles)
      /\ AllFiles(CurrentFiles) \subseteq DOMAIN tables
      /\ DropsOK(tables, Files(job.version), job) /\ OthersOK(tables, CurrentFiles, Files(job.version), job)
  BY InputsInVersion, CurrentIsThere DEF CompactionInv, OrderInv, LevelInv, DropInv, TurnsOK, EntriesInv
<1>1. \A e \in M : \A y \in mem \cup imm : e.s < y.s
  <2>1. \A f \in AllFiles(CurrentFiles) : Older(tables[f])
    BY DEF OrderInv, TimeInv
  <2> QED BY <1>0, <2>1 DEF Merged, Entries, Older
<1>2. ASSUME NEW e \in M \ K PROVE Gone(tables, Files(job.version), job, e)
  BY <1>0, <1>2 DEF DropsOK, Entries
<1>3. ASSUME NEW e \in M \ K, ~Deeper(tables, Files(job.version), job, e.k),
             NEW y \in Entries(tables, AllFiles(CurrentFiles) \ (job.in0 \cup job.in1)), y.k = e.k
      PROVE  e.s < y.s
  <2>1. PICK f \in AllFiles(CurrentFiles) \ (job.in0 \cup job.in1) : y \in tables[f]
    BY <1>3 DEF Entries
  <2>2. PICK l \in Levels : f \in CurrentFiles[l]
    BY <2>1 DEF AllFiles
  <2>3. ~(l >= job.level + 2 /\ f \in Files(job.version)[l])
    BY <1>3, <2>1 DEF Deeper
  <2>4. Newer(tables[f], M)
    BY <1>0, <2>1, <2>2, <2>3 DEF OthersOK
  <2>5. y.s > e.s
    BY <1>3, <2>1, <2>4 DEF Newer
  <2>6. e \in Written /\ y \in Written
    BY <1>0, <2>1 DEF EntriesInv, Holds, Merged, Entries
  <2>7. e.s \in Nat /\ y.s \in Nat
    BY <1>0, <2>6, WrittenOrdered
  <2> QED BY <2>5, <2>7
<1>4. ASSUME NEW e \in M \ K
      PROVE  \/ \E x \in M : x.k = e.k /\ e.s < x.s /\ x.s <= job.smallestSnapshot
             \/ e.del /\ \A y \in X \cup K : y.k = e.k => e.s < y.s
  <2>1. CASE \E x \in M : x.k = e.k /\ e.s < x.s /\ x.s <= job.smallestSnapshot
    BY <2>1
  <2>2. CASE /\ e.del /\ ~Deeper(tables, Files(job.version), job, e.k)
             /\ \A o \in job.outputs : \A y \in tables[o] : y.k = e.k => e.s < y.s
    <3>1. \A y \in K : y.k = e.k => e.s < y.s
      BY <2>2 DEF Entries
    <3>2. \A y \in X : y.k = e.k => e.s < y.s
      BY <1>1, <1>3, <1>4, <2>2
    <3> QED BY <2>2, <3>1, <3>2
  <2> QED BY <1>2, <1>4, <2>1, <2>2 DEF Gone
<1> QED BY <1>4 DEF Passes

LEMMA EntriesOfTwo ==
    ASSUME NEW T, NEW F, NEW G
    PROVE  Entries(T, F \cup G) = Entries(T, F) \cup Entries(T, G)
BY DEF Entries

LEMMA ViewOfEnd ==
    ASSUME CompactionInv, RefsInv', OrderInv, MarksInv, KeptInv, ViewInv, EditInv, DropInv,
           EndMerge(TRUE)
    PROVE  ViewInv'
<1> DEFINE I == job.in0 \cup job.in1
           X == mem \cup imm \cup Entries(tables, AllFiles(CurrentFiles) \ I)
           M == Merged(tables, job)
           K == Entries(tables, job.outputs)
<1>0. /\ BgInv /\ EntriesInv /\ bg.pc = "mergelog" /\ bg.files \in FileMaps /\ job # NoJob
      /\ I \subseteq AllFiles(CurrentFiles) /\ AllFiles(CurrentFiles) \subseteq DOMAIN tables
      /\ mem \cup imm \subseteq Written /\ \A f \in DOMAIN tables : tables[f] \subseteq Written
  BY BgFields, InputsInVersion, CurrentIsThere
     DEF CompactionInv, EndMerge, BgInv, OrderInv, LevelInv, EntriesInv, Holds
<1>1. /\ versions' = Unref(AppendVersion(versions, bg.files), job.version) /\ current' = current + 1
      /\ UNCHANGED <<hist, mem, imm, snapshots, tables, flaws>>
  BY DEF EndMerge, memVars
<1>2. CurrentFiles' = bg.files
  BY <1>0, <1>1, CurrentIsNew
<1>3. job.rest = {} /\ AllFiles(bg.files) = (AllFiles(CurrentFiles) \ I) \cup job.outputs
  BY <1>0 DEF EditInv
<1>4. X \in SUBSET Written /\ M \in SUBSET Written /\ K \in SUBSET M
  <2>1. X \subseteq Written
    BY <1>0 DEF Entries
  <2>2. M \subseteq Written
    BY <1>0 DEF Merged, Entries
  <2>3. K \subseteq M
    BY <1>0 DEF OrderInv, LevelInv, MergeInv, Merged, Entries
  <2> QED BY <2>1, <2>2, <2>3
<1>5. View(mem, imm, tables, CurrentFiles) = X \cup M
  <2>1. AllFiles(CurrentFiles) = (AllFiles(CurrentFiles) \ I) \cup I
    BY <1>0
  <2>2. Entries(tables, AllFiles(CurrentFiles))
           = Entries(tables, AllFiles(CurrentFiles) \ I) \cup Entries(tables, I)
    BY <2>1, EntriesOfTwo
  <2> QED BY <2>2 DEF View, Merged
<1>6. View(mem', imm', tables', CurrentFiles') = X \cup K
  <2>1. Entries(tables, AllFiles(bg.files))
           = Entries(tables, AllFiles(CurrentFiles) \ I) \cup K
    BY <1>3, EntriesOfTwo
  <2> QED BY <1>1, <1>2, <2>1 DEF View
<1>7. flaws = {} => Passes(X, M, K, job.smallestSnapshot)
  BY <1>0, <1>3, MergePasses
<1>8. /\ job.smallestSnapshot \in Nat
      /\ \A s \in snapshots \cup {LastSequence} : s \in Nat /\ job.smallestSnapshot <= s
  BY <1>0 DEF MarksInv, LastSequence, EntriesInv
<1>9. Written' = Written /\ LastSequence' = LastSequence
  BY <1>1 DEF Written, LastSequence
<1> HIDE DEF X, M, K
<1>10. ASSUME flaws = {}, NEW s \in snapshots \cup {LastSequence}, NEW key \in Keys
       PROVE  Answer(Newest(X \cup K, key, s)) = Answer(Newest(Written, key, s))
  <2>1. Answer(Newest(X \cup K, key, s)) = Answer(Newest(X \cup M, key, s))
    BY <1>0, <1>4, <1>7, <1>8, <1>10, MergeHides
  <2>2. Finds(X \cup M, s)
    BY <1>5, <1>10 DEF ViewInv
  <2> QED BY <2>1, <2>2 DEF Finds
<1> QED BY <1>1, <1>6, <1>9, <1>10 DEF ViewInv, Finds

LEMMA ViewStep ==
    ASSUME CompactionInv, RefsInv', OrderInv, NumbersInv, MarksInv, KeptInv, ViewInv, EditInv,
           DropInv, Next
    PROVE  ViewInv'
<1>1. ASSUME UNCHANGED <<memVars, current>> PROVE ViewInv'
  BY <1>1, ViewStays DEF memVars
<1>2. CASE ReadingStep
  BY <1>1, <1>2, DataStays, ReadingIsQuiet DEF QuietLevels
<1>3. CASE QuietCall \/ NothingToCompact \/ SkipBackgroundWork \/ SyncFails
  <2>1. UNCHANGED current
    BY <1>3 DEF QuietCall, CompactRange, CallFlushed, CallSchedules, CallAdvances, NothingToCompact,
                SkipBackgroundWork, SyncFails, verVars
  <2> QED BY <1>1, <1>3, <2>1, DataStays DEF QuietWork
<1>4. CASE StartFlush \/ FlushFails \/ StartCompaction \/ FinishMerge
  <2>1. UNCHANGED current
    BY <1>4 DEF StartFlush, FlushFails, StartCompaction, FinishMerge, verVars
  <2> QED BY <1>1, <1>4, <2>1, DataStays DEF QuietWork
<1>5. CASE InstallMove(FALSE) \/ EndMerge(FALSE)
  <2>1. UNCHANGED <<memVars, current>>
    BY <1>5 DEF InstallMove, EndMerge
  <2> QED BY <1>1, <2>1
<1>6. CASE BuildTable \/ MergeNext
  <2>1. UNCHANGED <<memVars, current>>
    BY <1>6 DEF BuildTable, MergeNext
  <2> QED BY <1>1, <2>1
<1>7. ASSUME NEW k \in Keys, NEW del \in BOOLEAN, Write(k, del) PROVE ViewInv'
  BY <1>7, ViewOfWrite
<1>8. CASE GetSnapshot \/ (\E s \in snapshots : ReleaseSnapshot(s)) \/ CallSwitches
  <2>1. UNCHANGED <<hist, current>> /\ mem' \cup imm' = mem \cup imm
    <3>1. CASE GetSnapshot \/ \E s \in snapshots : ReleaseSnapshot(s)
      BY <3>1 DEF GetSnapshot, ReleaseSnapshot, verVars
    <3>2. CASE CallSwitches
      <4>1. CASE mem = {} \/ bg_error_
        BY <3>2, <4>1 DEF CallSwitches, verVars
      <4>2. CASE ~(mem = {} \/ bg_error_)
        BY <3>2, <4>2 DEF CallSwitches, verVars
      <4> QED BY <4>1, <4>2
    <3> QED BY <1>8, <3>1, <3>2
  <2> QED BY <2>1, ViewStays
<1>9. CASE InstallFlush \/ InstallMove(TRUE)
  BY <1>9, ViewOfFlush
<1>10. CASE EndMerge(TRUE)
  BY <1>10, ViewOfEnd
<1> QED BY <1>2, <1>3, <1>4, <1>5, <1>6, <1>7, <1>8, <1>9, <1>10
        DEF Next, Caller, Background, QuietCall, ReadingStep

----------------------------------------------------------------------------
(* The files of a level in their order.                                    *)

LEMMA StartsBeforeOrder ==
    ASSUME EntriesInv, NEW f \in DOMAIN tables \cap Nat, NEW g \in DOMAIN tables \cap Nat
    PROVE  /\ ~StartsBefore(tables, f, f)
           /\ f = g \/ StartsBefore(tables, f, g) \/ StartsBefore(tables, g, f)
           /\ \A h \in DOMAIN tables \cap Nat :
                 StartsBefore(tables, f, g) /\ StartsBefore(tables, g, h) => StartsBefore(tables, f, h)
<1>1. \A x \in DOMAIN tables : Smallest(tables, x) \in Written
  BY FirstKeyIn DEF EntriesInv, Holds, Smallest
<1>2. /\ \A x \in DOMAIN tables : Smallest(tables, x).k \in Nat /\ Smallest(tables, x).s \in Nat
      /\ \A x, y \in DOMAIN tables :
            Smallest(tables, x).s = Smallest(tables, y).s => Smallest(tables, x) = Smallest(tables, y)
  BY <1>1, WrittenOrdered
<1> QED BY <1>2 DEF StartsBefore, Before

Ranked(F) == IsFiniteSet(F) /\ F \subseteq DOMAIN tables \cap Nat

LEMMA RankRange ==
    ASSUME EntriesInv, NEW F, Ranked(F), NEW f \in F
    PROVE  /\ Cardinality(F) \in Nat /\ Rank(tables, F, f) \in Nat
           /\ Rank(tables, F, f) + 1 <= Cardinality(F)
<1> DEFINE P == {g \in F : StartsBefore(tables, g, f)}
<1>1. P \in SUBSET F /\ f \notin P
  BY StartsBeforeOrder DEF Ranked
<1>2. IsFiniteSet(F) /\ IsFiniteSet(P) /\ Cardinality(P) <= Cardinality(F)
      /\ (Cardinality(F) = Cardinality(P) => F = P)
  BY <1>1, FS_Subset DEF Ranked
<1>3. Cardinality(P) # Cardinality(F) /\ Cardinality(P) \in Nat /\ Cardinality(F) \in Nat
  BY <1>1, <1>2, FS_CardinalityType
<1>4. Rank(tables, F, f) = Cardinality(P)
  BY DEF Rank
<1> QED BY <1>2, <1>3, <1>4

LEMMA RankGrows ==
    ASSUME EntriesInv, NEW F, Ranked(F), NEW f \in F, NEW g \in F, StartsBefore(tables, f, g)
    PROVE  Rank(tables, F, f) < Rank(tables, F, g)
<1> DEFINE P(x) == {h \in F : StartsBefore(tables, h, x)}
<1>1. P(f) \in SUBSET P(g) /\ f \notin P(f) /\ f \in P(g)
  BY StartsBeforeOrder DEF Ranked
<1>2. IsFiniteSet(P(g))
  BY FS_Subset DEF Ranked
<1>3. Rank(tables, F, f) = Cardinality(P(f)) /\ Rank(tables, F, g) = Cardinality(P(g))
  BY DEF Rank
<1> HIDE DEF P
<1>4. /\ Cardinality(P(f)) <= Cardinality(P(g)) /\ IsFiniteSet(P(f))
      /\ (Cardinality(P(g)) = Cardinality(P(f)) => P(g) = P(f))
  BY <1>1, <1>2, FS_Subset
<1>5. Cardinality(P(f)) \in Nat /\ Cardinality(P(g)) \in Nat
  BY <1>2, <1>4, FS_CardinalityType
<1> QED BY <1>1, <1>3, <1>4, <1>5

LEMMA RankOrder ==
    ASSUME EntriesInv, NEW F, Ranked(F), NEW f \in F, NEW g \in F,
           Rank(tables, F, f) <= Rank(tables, F, g)
    PROVE  f = g \/ StartsBefore(tables, f, g)
<1>1. f = g \/ StartsBefore(tables, f, g) \/ StartsBefore(tables, g, f)
  BY StartsBeforeOrder DEF Ranked
<1>2. CASE StartsBefore(tables, g, f)
  <2>1. Rank(tables, F, g) < Rank(tables, F, f)
    BY <1>2, RankGrows
  <2>2. Rank(tables, F, g) \in Nat /\ Rank(tables, F, f) \in Nat
    BY RankRange
  <2> QED BY <2>1, <2>2
<1> QED BY <1>1, <1>2

\* Each place in the order has its file.
LEMMA FilesSorted ==
    ASSUME EntriesInv, NEW F, Ranked(F)
    PROVE  LET q == BySmallestKey(tables, F) IN
              /\ Len(q) = Cardinality(F) /\ Cardinality(F) \in Nat
              /\ \A f \in F : q[Rank(tables, F, f) + 1] = f
              /\ \A i \in 1..Cardinality(F) : q[i] \in F /\ Rank(tables, F, q[i]) + 1 = i
<1> DEFINE n == Cardinality(F)
           place == [f \in F |-> Rank(tables, F, f) + 1]
           q == BySmallestKey(tables, F)
<1>1. n \in Nat
  BY FS_CardinalityType DEF Ranked
<1>2. \A f \in F : place[f] \in 1..n /\ Rank(tables, F, f) \in Nat
  BY <1>1, RankRange
<1>3. ASSUME NEW f \in F, NEW g \in F, Rank(tables, F, f) = Rank(tables, F, g) PROVE f = g
  <2>1. Rank(tables, F, f) \in Nat /\ Rank(tables, F, g) \in Nat
    BY RankRange
  <2>2. f = g \/ StartsBefore(tables, f, g)
    BY <1>3, <2>1, RankOrder
  <2>3. StartsBefore(tables, f, g) => Rank(tables, F, f) < Rank(tables, F, g)
    BY RankGrows
  <2> QED BY <1>3, <2>1, <2>2, <2>3
<1>4. place \in Injection(F, 1..n)
  <2>1. place \in [F -> 1..n]
    BY <1>2
  <2>2. \A f, g \in F : place[f] = place[g] => f = g
    BY <1>2, <1>3
  <2> QED BY <2>1, <2>2 DEF Injection, IsInjective
<1>5. IsFiniteSet(1..n) /\ Cardinality(1..n) = n
  BY <1>1, FS_Interval
<1>6. place \in Surjection(F, 1..n)
  BY <1>4, <1>5, FS_Injection
<1>7. \A i \in 1..n : \E f \in F : place[f] = i
  BY <1>6 DEF Surjection
<1>8. q = [i \in 1..n |-> CHOOSE f \in F : Rank(tables, F, f) + 1 = i]
  BY DEF BySmallestKey
<1>9. Len(q) = n
  BY <1>1, <1>8
<1>10. \A i \in 1..n : q[i] \in F /\ Rank(tables, F, q[i]) + 1 = i
  BY <1>7, <1>8
<1>11. ASSUME NEW f \in F PROVE q[Rank(tables, F, f) + 1] = f
  <2> DEFINE i == Rank(tables, F, f) + 1
  <2>1. i \in 1..n
    BY <1>2
  <2>2. q[i] \in F /\ Rank(tables, F, q[i]) + 1 = i
    BY <1>10, <2>1
  <2>3. Rank(tables, F, q[i]) = Rank(tables, F, f)
    BY <1>2, <2>2
  <2> QED BY <1>3, <2>2, <2>3
<1> QED BY <1>1, <1>9, <1>10, <1>11

----------------------------------------------------------------------------
(* level_ptrs_ and IsBaseLevelForKey().                                    *)

LEMMA AheadOf ==
    ASSUME NEW T, NEW q, Len(q) \in Nat, NEW p \in Nat \ {0}, NEW key
    PROVE  LET a == Ahead(T, q, p, key) IN
              a \in Nat \ {0} /\ \A i \in p..Len(q) : key <= Largest(T, q[i]).k => a <= i
<1> DEFINE S == {i \in p..Len(q) : key <= Largest(T, q[i]).k} \cup {Len(q) + 1}
<1>1. S \in SUBSET Nat /\ S # {} /\ 0 \notin S
  OBVIOUS
<1>2. PICK m \in S : \A i \in S : m <= i
  BY <1>1, LeastMember
<1>3. Min(S) \in S /\ \A i \in S : Min(S) <= i
  BY <1>2 DEF Min
<1>4. Ahead(T, q, p, key) = Min(S)
  BY DEF Ahead
<1> QED BY <1>1, <1>3, <1>4

\* A cursor that moves up to the key of the next entry, and stands behind the
\* level or at a file that starts after the key: no file has the key.
LEMMA CursorMoves ==
    ASSUME EntriesInv, NEW e \in job.rest, job.rest \subseteq Written, \A x \in job.rest : e.k <= x.k,
           NEW l \in Levels, Ranked(Files(job.version)[l]), NEW p, Behind(tables, Files(job.version)[l], job, p)
    PROVE  LET F == Files(job.version)[l]
               q == BySmallestKey(tables, F)
               a == Ahead(tables, q, p, e.k)
           IN  /\ Behind(tables, Files(job.version)[l], job, a)
               /\ \/ a <= Cardinality(F) /\ Smallest(tables, q[a]).k <= e.k
                  \/ \A f \in F : \A y \in tables[f] : y.k # e.k
<1> DEFINE F == Files(job.version)[l]
           q == BySmallestKey(tables, F)
           a == Ahead(tables, q, p, e.k)
           At(f) == Rank(tables, F, f) + 1
<1>1. /\ Len(q) = Cardinality(F) /\ Cardinality(F) \in Nat
      /\ \A f \in F : q[At(f)] = f
      /\ \A i \in 1..Cardinality(F) : q[i] \in F /\ At(q[i]) = i
  BY FilesSorted
<1>2. p \in Nat \ {0} /\ \A f \in F : At(f) < p => \A x \in job.rest : Largest(tables, f).k < x.k
  BY DEF Behind
<1>3. a \in Nat \ {0} /\ \A i \in p..Len(q) : e.k <= Largest(tables, q[i]).k => a <= i
  BY <1>1, <1>2, AheadOf
<1>4. \A f \in F : At(f) \in Nat \ {0} /\ At(f) <= Cardinality(F) /\ Rank(tables, F, f) \in Nat
  BY RankRange
<1>5. /\ \A f \in F : Holds(tables[f])
      /\ \A x \in job.rest : x.k \in Nat
  BY WrittenOrdered DEF EntriesInv, Ranked
<1>6. \A f \in F : Largest(tables, f).k \in Nat /\ Smallest(tables, f).k \in Nat
  BY <1>5, NumbersOfKeys DEF Largest, Smallest
<1>7. ASSUME NEW f \in F, At(f) < a PROVE Largest(tables, f).k < e.k
  <2>1. CASE At(f) < p
    BY <1>2, <2>1
  <2>2. CASE ~(At(f) < p)
    <3>1. At(f) \in p..Len(q) /\ q[At(f)] = f
      BY <1>1, <1>2, <1>4, <2>2
    <3>2. ~(a <= At(f))
      BY <1>3, <1>4, <1>7
    <3>3. ~(e.k <= Largest(tables, f).k)
      BY <1>3, <3>1, <3>2
    <3> QED BY <1>5, <1>6, <3>3
  <2> QED BY <2>1, <2>2
<1>8. Behind(tables, Files(job.version)[l], job, a)
  <2>1. ASSUME NEW f \in F, At(f) < a, NEW x \in job.rest PROVE Largest(tables, f).k < x.k
    BY <1>5, <1>6, <1>7, <2>1
  <2> QED BY <1>3, <2>1 DEF Behind
<1>9. ASSUME NEW f \in F, NEW y \in tables[f], y.k = e.k
      PROVE  a <= Cardinality(F) /\ Smallest(tables, q[a]).k <= e.k
  <2>1. Smallest(tables, f).k <= e.k /\ e.k <= Largest(tables, f).k
    BY <1>5, <1>9, KeyRange DEF Smallest, Largest
  <2>2. ~(At(f) < a)
    BY <1>5, <1>6, <1>7, <2>1
  <2>3. a <= At(f) /\ a \in 1..Cardinality(F)
    BY <1>1, <1>3, <1>4, <2>2
  <2>4. q[a] \in F /\ At(q[a]) = a
    BY <1>1, <2>3
  <2>5. Rank(tables, F, q[a]) <= Rank(tables, F, f)
    BY <1>4, <2>3, <2>4
  <2>6. q[a] = f \/ StartsBefore(tables, q[a], f)
    BY <2>4, <2>5, RankOrder
  <2>7. Smallest(tables, q[a]).k <= Smallest(tables, f).k
    BY <1>6, <2>4, <2>6 DEF StartsBefore, Before
  <2> QED BY <1>5, <1>6, <2>1, <2>3, <2>4, <2>7
<1> QED BY <1>8, <1>9

LEMMA CursorsMove ==
    ASSUME EntriesInv, NEW e \in job.rest, job.rest \subseteq Written, \A x \in job.rest : e.k <= x.k,
           \A l \in Levels : Ranked(Files(job.version)[l]), PtrsOK(tables, Files(job.version), job), job.level \in Levels
    PROVE  LET look == IsBaseLevelForKey(tables, Files(job.version), job.level, job.ptrs, e.k) IN
              /\ look.base => ~Deeper(tables, Files(job.version), job, e.k)
              /\ \A l \in Levels : Behind(tables, Files(job.version)[l], job, look.ptrs[l])
<1> DEFINE v == Files(job.version)
           a(l) == Ahead(tables, BySmallestKey(tables, v[l]), job.ptrs[l], e.k)
           moved == MovedPtrs(tables, v, job.level, job.ptrs, e.k)
           holding == Holding(tables, v, job.level, moved, e.k)
           look == IsBaseLevelForKey(tables, v, job.level, job.ptrs, e.k)
<1>1. \A l \in Levels : Behind(tables, v[l], job, job.ptrs[l])
  BY DEF PtrsOK
<1>2. \A l \in Levels : moved[l] = IF l < job.level + 2 THEN job.ptrs[l] ELSE a(l)
  BY DEF MovedPtrs
<1>3. \A l \in Levels : l \in holding <=> /\ l >= job.level + 2
                                          /\ moved[l] <= Cardinality(v[l])
                                          /\ Smallest(tables, BySmallestKey(tables, v[l])[moved[l]]).k <= e.k
  BY VersionsAssumption DEF Holding, Levels
<1>4. /\ look.base = (holding = {})
      /\ \A l \in Levels : look.ptrs[l] \in {moved[l], job.ptrs[l]}
  BY DEF IsBaseLevelForKey
<1>5. ASSUME NEW l \in Levels
      PROVE  /\ Behind(tables, v[l], job, a(l))
             /\ \/ a(l) <= Cardinality(v[l]) /\ Smallest(tables, BySmallestKey(tables, v[l])[a(l)]).k <= e.k
                \/ \A f \in v[l] : \A y \in tables[f] : y.k # e.k
  BY <1>1, CursorMoves
<1> HIDE DEF v, a, moved, holding, look
<1>6. \A l \in Levels : Behind(tables, v[l], job, look.ptrs[l])
  BY <1>1, <1>2, <1>4, <1>5
<1>7. ASSUME look.base, NEW l \in Levels, l >= job.level + 2 PROVE \A f \in v[l] : \A y \in tables[f] : y.k # e.k
  <2>0. ~(l < job.level + 2)
    BY <1>7, VersionsAssumption DEF Levels
  <2>1. moved[l] = a(l) /\ l \notin holding
    BY <1>2, <1>4, <1>7, <2>0
  <2> QED BY <1>3, <1>5, <1>7, <2>1
<1>8. look.base => ~Deeper(tables, Files(job.version), job, e.k)
  BY <1>7 DEF Deeper, v
<1> QED BY <1>6, <1>8 DEF look, v

----------------------------------------------------------------------------
(* What a merge has dropped.                                               *)

LEMMA BeforeOrder ==
    ASSUME EntriesInv, NEW a \in Written, NEW b \in Written, Before(a, b)
    PROVE  /\ a.k <= b.k /\ (a.k = b.k => b.s < a.s)
           /\ \A c \in Written : Before(b, c) => /\ Before(a, c)
                                                 /\ a.k = c.k => b.k = c.k /\ b.s < a.s
BY WrittenOrdered DEF Before

LEMMA RankFrame ==
    ASSUME NEW T, NEW U, NEW F, \A f \in F : U[f] = T[f], NEW f \in F
    PROVE  Rank(U, F, f) = Rank(T, F, f) /\ Largest(U, f) = Largest(T, f)
<1>1. \A g \in F : StartsBefore(U, g, f) <=> StartsBefore(T, g, f)
  BY DEF StartsBefore, Smallest
<1>2. {g \in F : StartsBefore(U, g, f)} = {g \in F : StartsBefore(T, g, f)}
  BY <1>1
<1> QED BY <1>2 DEF Rank, Largest

LEMMA BehindFrame ==
    ASSUME NEW T, NEW U, NEW F, \A f \in F : U[f] = T[f], NEW j, NEW k, k.rest \subseteq j.rest,
           NEW p, Behind(T, F, j, p)
    PROVE  Behind(U, F, k, p)
BY RankFrame DEF Behind

LEMMA MergedFrame ==
    ASSUME NEW T, NEW U, NEW j, \A f \in j.in0 \cup j.in1 : U[f] = T[f]
    PROVE  Merged(U, j) = Merged(T, j)
BY DEF Merged, Entries

LEMMA TurnsFrame ==
    ASSUME NEW T, NEW U, NEW w, NEW j, \A f \in j.in0 \cup j.in1 \cup j.outputs : U[f] = T[f],
           \A f \in AllFiles(w) : U[f] = T[f], TurnsOK(T, w, j)
    PROVE  TurnsOK(U, w, j)
<1>1. Merged(U, j) = Merged(T, j)
  BY MergedFrame
<1>2. LastOK(U, j)
  BY <1>1 DEF TurnsOK, LastOK
<1>3. PtrsOK(U, w, j)
  <2>1. ASSUME NEW l \in Levels PROVE Behind(U, w[l], j, j.ptrs[l])
    <3>1. \A f \in w[l] : U[f] = T[f]
      BY DEF AllFiles
    <3>2. Behind(T, w[l], j, j.ptrs[l])
      BY DEF TurnsOK, PtrsOK
    <3> QED BY <3>1, <3>2, BehindFrame
  <2> QED BY <2>1 DEF PtrsOK
<1>4. \A k : Deeper(U, w, j, k) <=> Deeper(T, w, j, k)
  BY DEF Deeper, AllFiles
<1>5. ASSUME NEW e \in Merged(T, j) \ j.rest
      PROVE  (\E o \in j.outputs : e \in U[o]) \/ Gone(U, w, j, e)
  <2>1. CASE \E o \in j.outputs : e \in T[o]
    BY <2>1
  <2>2. CASE Gone(T, w, j, e)
    BY <1>1, <1>4, <2>2 DEF Gone
  <2> QED BY <2>1, <2>2 DEF TurnsOK, DropsOK
<1> QED BY <1>1, <1>2, <1>3, <1>5 DEF TurnsOK, DropsOK

LEMMA OthersFrame ==
    ASSUME NEW T, NEW U, NEW v, NEW w, NEW j, \A f \in j.in0 \cup j.in1 : U[f] = T[f],
           \A f \in AllFiles(v) : U[f] = T[f], OthersOK(T, v, w, j)
    PROVE  OthersOK(U, v, w, j)
<1>1. Merged(U, j) = Merged(T, j)
  BY MergedFrame
<1>2. \A l \in Levels : \A f \in v[l] : U[f] = T[f]
  BY DEF AllFiles
<1> QED BY <1>1, <1>2 DEF OthersOK

\* The version that a merge began with stays for as long as the merge goes on.
LEMMA JobKept ==
    ASSUME CompactionInv, RefsInv', NumbersInv, KeptInv, Next, job # NoJob, job' # NoJob,
           job'.version = job.version
    PROVE  LET w == Files(job.version) IN
              /\ Files(job.version)' = w
              /\ \A f \in AllFiles(w) : f \in DOMAIN tables /\ f # next /\ tables'[f] = tables[f]
              /\ \A f \in job.in0 \cup job.in1 : tables'[f] = tables[f]
<1>1. job.version \in 1..current /\ job.version \in DOMAIN versions
  BY HoldersThere DEF CompactionInv, RefsInv, HolderRange
<1>2. job.version \in DOMAIN versions'
  BY JobThereNext
<1>3. versions'[job.version].files = versions[job.version].files
  BY <1>1, <1>2, VersionIsKept
<1>4. Files(job.version)' = Files(job.version)
  BY <1>3 DEF Files
<1> QED BY <1>1, <1>4, FilesStay, InputsStay

\* DropInv without its last conjunct, which is about a flush
DropsStay ==
    /\ TurnsOK(tables, Files(job.version), job)'
    /\ flaws' = {} => OthersOK(tables, CurrentFiles, Files(job.version), job)'

\* A step that leaves the merge and its outputs as they are.
LEMMA DropsFrame ==
    ASSUME CompactionInv, RefsInv', NumbersInv, KeptInv, DropInv, Next, job # NoJob, job' = job,
           \A o \in job.outputs : tables'[o] = tables[o]
    PROVE  /\ TurnsOK(tables, Files(job.version), job)'
           /\ Files(job.version)' = Files(job.version)
           /\ CurrentFiles' = CurrentFiles => DropsStay
<1> DEFINE w == Files(job.version)
<1>1. /\ Files(job.version)' = w
      /\ \A f \in AllFiles(w) : tables'[f] = tables[f]
      /\ \A f \in job.in0 \cup job.in1 : tables'[f] = tables[f]
  BY JobKept
<1>2. /\ TurnsOK(tables, w, job)
      /\ flaws = {} => OthersOK(tables, CurrentFiles, w, job)
  BY DEF DropInv
<1>3. flaws \subseteq flaws' /\ \A f \in AllFiles(CurrentFiles) : tables'[f] = tables[f]
  BY TablesStep, CurrentStaysThere
<1> HIDE DEF w
<1>4. TurnsOK(tables', w, job)
  BY <1>1, <1>2, TurnsFrame
<1>5. flaws' = {} => OthersOK(tables', CurrentFiles, w, job)
  BY <1>1, <1>2, <1>3, OthersFrame
<1>6. TurnsOK(tables, Files(job.version), job)'
  BY <1>1, <1>4
<1> QED BY <1>1, <1>5, <1>6 DEF DropsStay, w

\* One turn of the merge: what is known of the entry that is taken.
LEMMA EntryTaken ==
    ASSUME CompactionInv, OrderInv, DropInv, job # NoJob, NEW e \in InputAt
    PROVE  /\ e \in job.rest /\ job.rest \subseteq Merged(tables, job)
           /\ Merged(tables, job) \subseteq Written
           /\ \A x \in job.rest : e.k <= x.k /\ (x # e => Before(e, x))
           /\ \A p \in Merged(tables, job) \ job.rest :
                 Before(p, e) /\ (p.k = e.k => \E z \in job.last : z.k = e.k /\ z.s <= p.s)
<1>0. EntriesInv /\ LastOK(tables, job)
  BY DEF CompactionInv, DropInv, TurnsOK
<1>1. e \in job.rest /\ \A y \in job.rest \ {e} : Before(e, y)
  BY Zenon DEF InputAt, FirstOf
<1>2. job.rest \subseteq Merged(tables, job)
  BY DEF OrderInv, LevelInv, MergeInv, Merged
<1>3. Merged(tables, job) \subseteq Written
  <2>1. job.in0 \cup job.in1 \subseteq DOMAIN tables
    BY HoldersThere DEF CompactionInv, FilesInv, EntriesInv
  <2> QED BY <1>0, <2>1 DEF EntriesInv, Holds, Merged, Entries
<1>4. \A x \in job.rest : e.k <= x.k /\ (x # e => Before(e, x))
  <2>1. \A x \in Written : x.k \in Nat
    BY <1>0, WrittenOrdered
  <2> QED BY <1>1, <1>2, <1>3, <2>1 DEF Before
<1>5. ASSUME NEW p \in Merged(tables, job) \ job.rest
      PROVE  Before(p, e) /\ (p.k = e.k => \E z \in job.last : z.k = e.k /\ z.s <= p.s)
  <2>1. PICK z \in job.last : p = z \/ Before(p, z)
    BY <1>0 DEF LastOK
  <2>2. z \in Written /\ p \in Written /\ e \in Written /\ Before(z, e)
    BY <1>0, <1>1, <1>2, <1>3 DEF LastOK
  <2>3. CASE p = z
    <3>1. z.s \in Nat
      BY <1>0, <2>2, WrittenOrdered
    <3> QED BY <2>2, <2>3, <3>1
  <2>4. CASE Before(p, z)
    <3>1. Before(p, e) /\ (p.k = e.k => z.k = e.k /\ z.s < p.s)
      BY <1>0, <2>2, <2>4, BeforeOrder
    <3>2. z.s \in Nat /\ p.s \in Nat
      BY <1>0, <2>2, WrittenOrdered
    <3> QED BY <3>1, <3>2
  <2> QED BY <2>1, <2>3, <2>4
<1> QED BY <1>1, <1>2, <1>3, <1>4, <1>5

\* An entry that is dropped is gone for good.
LEMMA DroppedIsGone ==
    ASSUME CompactionInv, OrderInv, MarksInv, DropInv, job # NoJob, NEW e \in InputAt, NEW base,
           base => ~Deeper(tables, Files(job.version), job, e.k), Drops(e, base)
    PROVE  Gone(tables, Files(job.version), job, e)
<1>0. /\ EntriesInv /\ e \in job.rest /\ e \in Written /\ job.rest \subseteq Merged(tables, job)
      /\ Merged(tables, job) \subseteq Written
  BY EntryTaken DEF CompactionInv
<1>1. CASE Hidden(e)
  <2>1. PICK x \in job.last : x.k = e.k /\ x.s <= job.smallestSnapshot
    BY <1>1 DEF Hidden
  <2>2. x \in Merged(tables, job) \ job.rest
    BY DEF DropInv, TurnsOK, LastOK
  <2>3. Before(x, e)
    BY <2>2, EntryTaken
  <2>4. e.s < x.s
    BY <1>0, <2>1, <2>2, <2>3, BeforeOrder
  <2> QED BY <2>1, <2>2, <2>4 DEF Gone
<1>2. CASE Asks(e) /\ base
  <2>1. e.del /\ e.s <= job.smallestSnapshot /\ ~Deeper(tables, Files(job.version), job, e.k)
    BY <1>2 DEF Asks
  <2>2. ASSUME NEW o \in job.outputs, NEW y \in tables[o], y.k = e.k PROVE e.s < y.s
    <3>1. tables[o] \subseteq Merged(tables, job) /\ Precedes(tables[o], job.rest)
      BY DEF OrderInv, LevelInv, MergeInv, Merged
    <3>2. y \in Written /\ Before(y, e)
      BY <1>0, <3>1 DEF Precedes
    <3> QED BY <1>0, <2>2, <3>2, BeforeOrder
  <2> QED BY <2>1, <2>2 DEF Gone
<1> QED BY <1>1, <1>2 DEF Drops

\* What is gone stays gone when another entry goes into an output.
LEMMA GoneStays ==
    ASSUME CompactionInv, OrderInv, MarksInv, DropInv, job # NoJob, NEW e \in InputAt, NEW base,
           ~Drops(e, base), NEW p \in Merged(tables, job) \ job.rest,
           Gone(tables, Files(job.version), job, p)
    PROVE  \/ \E x \in Merged(tables, job) : x.k = p.k /\ p.s < x.s /\ x.s <= job.smallestSnapshot
           \/ /\ p.del /\ p.s <= job.smallestSnapshot
              /\ ~Deeper(tables, Files(job.version), job, p.k)
              /\ \A o \in job.outputs : \A y \in tables[o] : y.k = p.k => p.s < y.s
              /\ p.k # e.k
<1>1. ASSUME p.s <= job.smallestSnapshot, p.k = e.k PROVE FALSE
  <2>1. PICK z \in job.last : z.k = e.k /\ z.s <= p.s
    BY <1>1, EntryTaken
  <2>2. z \in Written /\ p \in Written
    BY EntryTaken DEF DropInv, TurnsOK, LastOK
  <2>3. z.s \in Nat /\ p.s \in Nat /\ job.smallestSnapshot \in Nat
    BY <2>2, WrittenOrdered DEF CompactionInv, MarksInv
  <2>4. Hidden(e)
    BY <1>1, <2>1, <2>3 DEF Hidden
  <2> QED BY <2>4 DEF Drops
<1> QED BY <1>1 DEF Gone

LEMMA LastOfTurn ==
    ASSUME CompactionInv, OrderInv, DropInv, job # NoJob, NEW e \in InputAt,
           Merged(tables', job') = Merged(tables, job), job'.rest = job.rest \ {e}, job'.last = {e}
    PROVE  LastOK(tables', job')
<1>1. /\ e \in job.rest /\ job.rest \subseteq Merged(tables, job)
      /\ \A x \in job.rest : x # e => Before(e, x)
      /\ \A p \in Merged(tables, job) \ job.rest : Before(p, e)
  BY EntryTaken
<1>2. \A p \in Merged(tables, job) \ job'.rest : p = e \/ p \in Merged(tables, job) \ job.rest
  OBVIOUS
<1>3. \A p \in Merged(tables, job) \ job'.rest : p = e \/ Before(p, e)
  BY <1>1, <1>2
<1> QED BY <1>1, <1>3 DEF LastOK

LEMMA LevelsRanked ==
    ASSUME CompactionInv, NumbersInv, NEW id \in DOMAIN versions, NEW l \in Levels
    PROVE  Ranked(Files(id)[l])
<1>1. Files(id) \in FileMaps /\ AllFiles(Files(id)) \subseteq DOMAIN tables
  BY DEF CompactionInv, FilesInv, EntriesInv, Files
<1>2. next \in Nat /\ \A f \in AllFiles(Files(id)) : f \in Nat /\ f < next
  BY <1>1 DEF NumbersInv, CompactionInv, BgInv
<1>3. IsFiniteSet(Files(id)[l])
  BY <1>1, <1>2, FinitelyMany
<1> QED BY <1>1, <1>2, <1>3 DEF Ranked, AllFiles

LEMMA DropsOfTurn ==
    ASSUME CompactionInv, RefsInv', OrderInv, NumbersInv, MarksInv, KeptInv, DropInv, Next, MergeNext
    PROVE  DropInv'
<1> DEFINE w == Files(job.version)
           M == Merged(tables, job)
<1>0. EntriesInv /\ BgInv
  BY DEF CompactionInv
<1>1. /\ job # NoJob /\ job' # NoJob /\ job'.version = job.version /\ job'.level = job.level
      /\ job'.in0 = job.in0 /\ job'.in1 = job.in1 /\ job'.smallestSnapshot = job.smallestSnapshot
  BY <1>0, TurnTaken
<1>2. /\ Files(job.version)' = w
      /\ \A f \in AllFiles(w) : f \in DOMAIN tables /\ f # next /\ tables'[f] = tables[f]
      /\ \A f \in job.in0 \cup job.in1 : tables'[f] = tables[f]
  BY <1>1, JobKept
<1>3. PICK e \in InputAt : \E look :
         /\ look = IsBaseLevelForKey(tables, Files(job.version), job.level, job.ptrs, e.k)
         /\ job'.rest = job.rest \ {e} /\ job'.last = {e}
         /\ job'.ptrs = IF Asks(e) THEN look.ptrs ELSE job.ptrs
         /\ \/ Drops(e, look.base) /\ UNCHANGED tables /\ job'.outputs = job.outputs
            \/ \E out \in {next} \cup job.outputs :
                  /\ ~Drops(e, look.base)
                  /\ tables' = Put(tables, out, IF out = next THEN {e} ELSE tables[out] \cup {e})
                  /\ job'.outputs = job.outputs \cup {out}
  BY <1>0, TurnTaken
<1>4. PICK look :
         /\ look = IsBaseLevelForKey(tables, Files(job.version), job.level, job.ptrs, e.k)
         /\ job'.rest = job.rest \ {e} /\ job'.last = {e}
         /\ job'.ptrs = IF Asks(e) THEN look.ptrs ELSE job.ptrs
         /\ \/ Drops(e, look.base) /\ UNCHANGED tables /\ job'.outputs = job.outputs
            \/ \E out \in {next} \cup job.outputs :
                  /\ ~Drops(e, look.base)
                  /\ tables' = Put(tables, out, IF out = next THEN {e} ELSE tables[out] \cup {e})
                  /\ job'.outputs = job.outputs \cup {out}
  BY <1>3
<1>5. /\ e \in job.rest /\ job.rest \subseteq M /\ M \subseteq Written
      /\ \A x \in job.rest : e.k <= x.k
  BY <1>1, EntryTaken
<1>6. M = Merged(tables', job')
  BY <1>1, <1>2 DEF Merged, Entries
<1>7. LastOK(tables', job')
  BY <1>1, <1>4, <1>6, LastOfTurn
<1>8. /\ look.base => ~Deeper(tables, w, job, e.k)
      /\ \A l \in Levels : Behind(tables, w[l], job, look.ptrs[l])
  <2>1. \A l \in Levels : Ranked(Files(job.version)[l])
    BY <1>1, HoldersThere, LevelsRanked DEF CompactionInv
  <2>2. PtrsOK(tables, Files(job.version), job)
    BY <1>1 DEF DropInv, TurnsOK
  <2>3. job.level \in Levels
    BY <1>1, InputsInVersion DEF OrderInv, LevelInv
  <2>4. job.rest \subseteq Written
    BY <1>5
  <2> QED BY <1>0, <1>4, <1>5, <2>1, <2>2, <2>3, <2>4, CursorsMove
<1>9. PtrsOK(tables', w, job')
  <2>1. ASSUME NEW l \in Levels PROVE Behind(tables', w[l], job', job'.ptrs[l])
    <3>1. Behind(tables, w[l], job, job'.ptrs[l])
      BY <1>1, <1>4, <1>8 DEF DropInv, TurnsOK, PtrsOK
    <3>2. job'.rest \subseteq job.rest /\ \A f \in w[l] : tables'[f] = tables[f]
      BY <1>2, <1>4 DEF AllFiles
    <3> QED BY <3>1, <3>2, BehindFrame
  <2> QED BY <2>1 DEF PtrsOK
<1>10. \A k : Deeper(tables', w, job', k) <=> Deeper(tables, w, job, k)
  BY <1>1, <1>2 DEF Deeper, AllFiles
<1>11. DropsOK(tables, w, job)
  BY <1>1 DEF DropInv, TurnsOK
<1>12. \A p \in M \ job'.rest : p = e \/ p \in M \ job.rest
  BY <1>4
<1> HIDE DEF w, M
<1>13. DropsOK(tables', w, job')
  <2>1. CASE Drops(e, look.base) /\ UNCHANGED tables /\ job'.outputs = job.outputs
    <3>1. Gone(tables, w, job, e)
      BY <1>1, <1>8, <2>1, DroppedIsGone DEF w
    <3>2. ASSUME NEW p \in M, Gone(tables, w, job, p) PROVE Gone(tables', w, job', p)
      BY <1>1, <1>6, <1>10, <2>1, <3>2 DEF Gone, M
    <3>3. e \in M
      BY <1>5
    <3>4. ASSUME NEW p \in M \ job'.rest
          PROVE  (\E o \in job'.outputs : p \in tables'[o]) \/ Gone(tables', w, job', p)
      <4>1. CASE p = e
        BY <3>1, <3>2, <3>3, <4>1
      <4>2. CASE p \in M \ job.rest
        <5>1. (\E o \in job.outputs : p \in tables[o]) \/ Gone(tables, w, job, p)
          BY <1>11, <4>2 DEF DropsOK, M
        <5> QED BY <2>1, <3>2, <4>2, <5>1
      <4> QED BY <1>12, <4>1, <4>2
    <3> QED BY <1>6, <3>4 DEF DropsOK
  <2>2. ASSUME NEW out \in {next} \cup job.outputs, ~Drops(e, look.base),
               tables' = Put(tables, out, IF out = next THEN {e} ELSE tables[out] \cup {e}),
               job'.outputs = job.outputs \cup {out}
        PROVE  DropsOK(tables', w, job')
    <3>1. /\ \A o \in job.outputs : o # next /\ o \in DOMAIN tables
      <4>1. next \in Nat /\ \A o \in job.outputs : o \in Nat /\ o < next /\ o \in disk
        BY <1>0, <1>1 DEF BgInv
      <4>2. disk \subseteq DOMAIN tables
        BY <1>0 DEF EntriesInv
      <4> QED BY <4>1, <4>2
    <3>2. /\ e \in tables'[out]
          /\ \A o \in job.outputs : tables[o] \subseteq tables'[o]
          /\ \A o \in job'.outputs : \A y \in tables'[o] : y = e \/ (o \in job.outputs /\ y \in tables[o])
      BY <2>2, <3>1 DEF Put
    <3>3. ASSUME NEW p \in M \ job.rest, Gone(tables, w, job, p) PROVE Gone(tables', w, job', p)
      <4>1. \/ \E x \in M : x.k = p.k /\ p.s < x.s /\ x.s <= job.smallestSnapshot
            \/ /\ p.del /\ p.s <= job.smallestSnapshot /\ ~Deeper(tables, w, job, p.k)
               /\ \A o \in job.outputs : \A y \in tables[o] : y.k = p.k => p.s < y.s
               /\ p.k # e.k
        BY <1>1, <2>2, <3>3, GoneStays DEF w, M
      <4> QED BY <1>1, <1>6, <1>10, <3>2, <4>1 DEF Gone
    <3>4. ASSUME NEW p \in M \ job'.rest
          PROVE  (\E o \in job'.outputs : p \in tables'[o]) \/ Gone(tables', w, job', p)
      <4>1. CASE p = e
        BY <2>2, <3>2, <4>1
      <4>2. CASE p \in M \ job.rest
        <5>1. (\E o \in job.outputs : p \in tables[o]) \/ Gone(tables, w, job, p)
          BY <1>11, <4>2 DEF DropsOK, M
        <5>2. CASE \E o \in job.outputs : p \in tables[o]
          BY <2>2, <3>2, <5>2
        <5> QED BY <3>3, <4>2, <5>1, <5>2
      <4> QED BY <1>12, <4>1, <4>2
    <3> QED BY <1>6, <3>4 DEF DropsOK
  <2> QED BY <1>4, <2>1, <2>2
<1>14. flaws' = {} => OthersOK(tables', CurrentFiles', w, job')
  <2>1. flaws' = flaws /\ current' = current
    BY DEF MergeNext
  <2>2. CurrentFiles' = CurrentFiles
    BY <2>1, CurrentKept
  <2>3. \A f \in AllFiles(CurrentFiles) : tables'[f] = tables[f]
    BY CurrentStaysThere
  <2>4. flaws = {} => OthersOK(tables, CurrentFiles, w, job)
    BY <1>1 DEF DropInv, w
  <2>5. flaws = {} => OthersOK(tables', CurrentFiles, w, job)
    BY <1>2, <2>3, <2>4, OthersFrame
  <2>6. OthersOK(tables', CurrentFiles, w, job) => OthersOK(tables', CurrentFiles, w, job')
    BY <1>1 DEF OthersOK, Merged
  <2> QED BY <2>1, <2>2, <2>5, <2>6
<1>15. bg'.pc # "flushlog"
  BY DEF MergeNext
<1> QED BY <1>1, <1>2, <1>7, <1>9, <1>13, <1>14, <1>15 DEF DropInv, TurnsOK

\* Below the level that is merged into, the inputs of that level are the files
\* that overlap the others.
LEMMA OthersShareNoKey ==
    ASSUME EntriesInv, NEW v \in FileMaps, AllFiles(v) \subseteq DOMAIN tables,
           NEW level \in 0..NumLevels - 2, NEW in0 \in SUBSET v[level], in0 # {},
           NEW g \in v[level + 1] \ Over(tables, v, level + 1, in0)
    PROVE  Newer(tables[g], Entries(tables, in0))
<1>1. level \in Levels /\ level + 1 \in Levels /\ level + 1 # 0
  BY VersionsAssumption DEF Levels
<1> DEFINE E == Entries(tables, in0)
<1>2. in0 \subseteq DOMAIN tables /\ g \in DOMAIN tables
  BY <1>1 DEF AllFiles
<1>3. Holds(E) /\ Holds(tables[g])
  BY <1>2, EntriesHold DEF EntriesInv
<1>4. ~Overlaps(tables, g, FirstKey(E).k, LastKey(E).k)
  BY <1>1 DEF Over, GetOverlappingInputs
<1>5. ~(FirstKey(tables[g]).k <= LastKey(E).k /\ FirstKey(E).k <= LastKey(tables[g]).k)
  BY <1>4 DEF Overlaps, Smallest, Largest
<1> HIDE DEF E
<1>6. Newer(tables[g], E)
  BY <1>3, <1>5, ApartByKeys
<1> QED BY <1>6 DEF E

LEMMA OthersAtStart ==
    ASSUME CompactionInv, OrderInv, NEW c \in Candidates, flaws = {}, ~Parts(c),
           NEW j, j.in0 = c.in0, j.in1 = c.in1, j.level = c.level
    PROVE  OthersOK(tables, CurrentFiles, CurrentFiles, j)
<1> DEFINE v == CurrentFiles
<1>0. EntriesInv /\ v \in FileMaps /\ AllFiles(v) \subseteq DOMAIN tables /\ NewerAbove(tables, v)
  BY CurrentIsThere DEF CompactionInv, EntriesInv, OrderInv, LevelInv, VersionOK, LevelsOK
<1>1. /\ c.level \in 0..NumLevels - 2
      /\ c.in0 \subseteq v[c.level] /\ c.in0 # {}
      /\ c.in1 = Over(tables, v, c.level + 1, c.in0)
  BY CandidateInputs DEF OrderInv, LevelInv, VersionOK
<1>2. c.level \in Levels /\ c.level + 1 \in Levels /\ c.level \in Nat
      /\ \A l \in Levels : l \in Nat
  BY <1>1, VersionsAssumption DEF Levels
<1>3. c.in1 \subseteq v[c.level + 1]
  BY <1>1, OverAreFiles
<1>4. \A f \in v[c.level] \ c.in0, g \in c.in0 : Newer(tables[f], tables[g])
  BY <1>0, CandidatesInOrder
<1>5. \A f \in v[c.level + 1] \ c.in1, g \in c.in1 : Newer(tables[f], tables[g])
  <2>1. \A f \in v[c.level + 1] \ c.in1, g \in c.in1 : \A x \in tables[g], y \in tables[f] : x.k # y.k
    BY DEF Parts, SharesKey
  <2> QED BY <2>1 DEF Newer
<1>6. \A f \in v[c.level + 1] \ c.in1 : Newer(tables[f], Entries(tables, c.in0))
  BY <1>0, <1>1, OthersShareNoKey
<1>7. \A l \in Levels : l < c.level => \A f \in v[l], g \in c.in0 : Newer(tables[f], tables[g])
  BY <1>0, <1>1, <1>2 DEF NewerAbove
<1>8. \A l \in Levels : l < c.level + 1 => \A f \in v[l], g \in c.in1 : Newer(tables[f], tables[g])
  BY <1>0, <1>2, <1>3 DEF NewerAbove
<1> HIDE DEF v
<1>9. ASSUME NEW l \in Levels, NEW f \in v[l] \ (c.in0 \cup c.in1), ~(l >= c.level + 2)
      PROVE  Newer(tables[f], Entries(tables, c.in0 \cup c.in1))
  <2>1. l < c.level \/ l = c.level \/ l = c.level + 1
    BY <1>2, <1>9
  <2>2. CASE l < c.level
    <3>1. l < c.level + 1
      BY <1>2, <2>2
    <3>2. \A g \in c.in0 \cup c.in1 : Newer(tables[f], tables[g])
      BY <1>7, <1>8, <1>9, <2>2, <3>1
    <3> QED BY <3>2 DEF Newer, Entries
  <2>3. CASE l = c.level
    <3>1. l < c.level + 1
      BY <1>2, <2>3
    <3>2. \A g \in c.in0 \cup c.in1 : Newer(tables[f], tables[g])
      BY <1>4, <1>8, <1>9, <2>3, <3>1
    <3> QED BY <3>2 DEF Newer, Entries
  <2>4. CASE l = c.level + 1
    <3>1. \A g \in c.in1 : Newer(tables[f], tables[g])
      BY <1>5, <1>9, <2>4
    <3>2. Newer(tables[f], Entries(tables, c.in0))
      BY <1>6, <1>9, <2>4
    <3> QED BY <3>1, <3>2 DEF Newer, Entries
  <2> QED BY <2>1, <2>2, <2>3, <2>4
<1> QED BY <1>9 DEF OthersOK, Merged, v

LEMMA DropsOfStart ==
    ASSUME CompactionInv, RefsInv', OrderInv, NumbersInv, DropInv, Next, StartCompaction
    PROVE  DropInv'
<1>0. BgInv /\ current \in DOMAIN versions
  BY HoldersThere DEF CompactionInv
<1>1. job = NoJob /\ UNCHANGED <<tables, current>>
  BY <1>0 DEF StartCompaction, MayStart, BgInv, fileVars
<1>2. PICK c \in Candidates : /\ StartMove(c) \/ StartMerge(c)
                              /\ flaws' = flaws \cup IF Parts(c) THEN {"parted"} ELSE {}
  BY DEF StartCompaction
<1>3. CASE StartMove(c)
  BY <1>1, <1>3 DEF StartMove, DropInv
<1>4. CASE StartMerge(c)
  <2> DEFINE j == job'
             w == CurrentFiles
  <2>1. job' = NewJob(c, manual) /\ bg' = [pc |-> "merge"]
    BY <1>4 DEF StartMerge
  <2>2. /\ j.level = c.level /\ j.in0 = c.in0 /\ j.in1 = c.in1 /\ j.version = current
        /\ j.rest = Entries(tables, c.in0 \cup c.in1) /\ j.last = {} /\ j.outputs = {}
        /\ \A l \in Levels : j.ptrs[l] = 1
    BY <2>1 DEF NewJob
  <2>3. CurrentFiles' = w
    BY <1>1, CurrentKept
  <2>4. Files(job.version)' = w
    BY <1>1, <2>2, <2>3 DEF CurrentFiles
  <2>5. Merged(tables, j) = j.rest
    BY <2>2 DEF Merged
  <2>6. LastOK(tables, j) /\ DropsOK(tables, w, j)
    BY <2>2, <2>5 DEF LastOK, DropsOK
  <2>7. PtrsOK(tables, w, j)
    <3>1. ASSUME NEW l \in Levels, NEW f \in w[l] PROVE Rank(tables, w[l], f) \in Nat
      <4>1. Ranked(w[l])
        BY <1>0, LevelsRanked DEF CurrentFiles
      <4> QED BY <3>1, <4>1, RankRange DEF CompactionInv
    <3>2. \A l \in Levels : \A f \in w[l] : ~(Rank(tables, w[l], f) + 1 < 1)
      BY <3>1
    <3> QED BY <2>2, <3>2 DEF PtrsOK, Behind
  <2>8. flaws' = {} => OthersOK(tables, w, w, j)
    <3>1. flaws' = {} => flaws = {} /\ ~Parts(c)
      BY <1>2
    <3> QED BY <2>2, <3>1, OthersAtStart
  <2>9. bg'.pc # "flushlog"
    BY <2>1
  <2> HIDE DEF j, w
  <2>10. TurnsOK(tables', w, j)
    BY <1>1, <2>6, <2>7 DEF TurnsOK
  <2> QED BY <1>1, <2>3, <2>4, <2>8, <2>9, <2>10 DEF DropInv, j
<1> QED BY <1>2, <1>3, <1>4

\* The table of a flush has the newer versions of all keys that are merged.
LEMMA OthersWithTable ==
    ASSUME EntriesInv, NEW T, NEW v, NEW u, NEW w, NEW j, NEW n, NEW E,
           \A x \in Merged(T, j), y \in E : x.s < y.s,
           Merged(T, j) \subseteq Written, E \subseteq Written, T[n] = E,
           \A l \in Levels : \A f \in u[l] : f \in v[l] \/ f = n,
           OthersOK(T, v, w, j)
    PROVE  OthersOK(T, u, w, j)
<1>1. \A x \in Written : x.s \in Nat
  BY WrittenOrdered
<1>2. Newer(T[n], Merged(T, j))
  BY <1>1 DEF Newer
<1> QED BY <1>2 DEF OthersOK

LEMMA DropsOfBuild ==
    ASSUME CompactionInv, RefsInv', OrderInv, NumbersInv, KeptInv, DropInv, Next, BuildTable
    PROVE  DropInv'
<1> DEFINE n == bg.number
           L == LevelFor(Put(tables, n, imm), n)
           w == Files(job.version)
<1>0. EntriesInv /\ BgInv /\ imm \subseteq Written
  BY DEF CompactionInv, EntriesInv
<1>1. /\ bg.pc = "build" /\ tables' = Put(tables, n, imm) /\ job' = job /\ current' = current
      /\ bg' = [pc |-> "flushlog", files |-> SaveTo({}, L, {n})]
  BY DEF BuildTable, PlaceTable
<1>2. CASE job = NoJob
  BY <1>1, <1>2 DEF DropInv
<1>3. CASE job # NoJob
  <2>1. n \notin job.outputs /\ job.outputs \subseteq DOMAIN tables /\ n \notin DOMAIN tables
    BY <1>0, <1>1, <1>3 DEF BgInv, EntriesInv, NumbersInv
  <2> HIDE DEF n, L
  <2>2. \A o \in job.outputs : tables'[o] = tables[o]
    BY <1>1, <2>1 DEF Put
  <2>3. tables'[n] = imm
    BY <1>1 DEF Put
  <2>4. CurrentFiles' = CurrentFiles
    BY <1>1, CurrentKept
  <2>5. DropsStay /\ Files(job.version)' = w
    BY <1>1, <1>3, <2>2, <2>4, DropsFrame
  <2>6. \A l \in Levels : \A f \in SaveTo({}, L, {n})[l] : f \in CurrentFiles[l] \/ f = n
    BY DEF SaveTo
  <2>7. /\ job.in0 \cup job.in1 \subseteq AllFiles(CurrentFiles)
        /\ Merged(tables, job) \subseteq Written /\ \A x \in Merged(tables, job), y \in imm : x.s < y.s
    <3>1. job.in0 \cup job.in1 \subseteq AllFiles(CurrentFiles)
      BY <1>3, InputsInVersion DEF OrderInv, LevelInv
    <3>2. AllFiles(CurrentFiles) \subseteq DOMAIN tables
      BY CurrentIsThere DEF CompactionInv, EntriesInv
    <3>3. Merged(tables, job) \subseteq Written
      BY <1>0, <3>1, <3>2 DEF Merged, Entries, EntriesInv, Holds
    <3>4. \A x \in Merged(tables, job), y \in imm : x.s < y.s
      BY <3>1 DEF Merged, Entries, OrderInv, TimeInv, Older
    <3> QED BY <3>1, <3>3, <3>4
  <2>8. Merged(tables', job) = Merged(tables, job)
    BY <1>1, <1>3, JobKept, MergedFrame
  <2>9. flaws' = {} => OthersOK(tables', CurrentFiles, w, job)
    BY <1>1, <2>4, <2>5 DEF DropsStay
  <2>10. OthersOK(tables', CurrentFiles, w, job) => OthersOK(tables', SaveTo({}, L, {n}), w, job)
    <3> HIDE DEF w
    <3> QED BY <1>0, <2>3, <2>6, <2>7, <2>8, OthersWithTable
  <2>11. flaws' = {} => OthersOK(tables', bg'.files, Files(job.version)', job')
    BY <1>1, <2>5, <2>9, <2>10
  <2> QED BY <2>5, <2>11 DEF DropInv, DropsStay
<1> QED BY <1>2, <1>3

LEMMA DropsOfInstallFlush ==
    ASSUME CompactionInv, RefsInv', NumbersInv, KeptInv, DropInv, Next, InstallFlush
    PROVE  DropInv'
<1>1. bg.pc = "flushlog" /\ bg.files \in FileMaps
  BY BgFields DEF CompactionInv, InstallFlush
<1>2. /\ versions' = AppendVersion(versions, bg.files) /\ current' = current + 1
      /\ AfterFlush({}, versions', current + 1, bg_error_) /\ UNCHANGED <<tables, job, flaws>>
  BY DEF InstallFlush
<1>3. CurrentFiles' = bg.files
  BY <1>1, <1>2, CurrentIsNew
<1>4. bg'.pc # "flushlog"
  BY <1>2, FlushEnds, ThreadRecords
<1>5. CASE job # NoJob
  <2>1. TurnsOK(tables, Files(job.version), job)' /\ Files(job.version)' = Files(job.version)
    BY <1>2, <1>5, DropsFrame
  <2>2. flaws = {} => OthersOK(tables, bg.files, Files(job.version), job)
    BY <1>1, <1>5 DEF DropInv
  <2>3. flaws' = {} => OthersOK(tables, CurrentFiles, Files(job.version), job)'
    BY <1>2, <1>3, <2>1, <2>2
  <2> QED BY <1>4, <2>1, <2>3 DEF DropInv
<1> QED BY <1>2, <1>5 DEF DropInv

LEMMA DropsOfQuiet ==
    ASSUME CompactionInv, RefsInv', NumbersInv, KeptInv, DropInv, Next,
           UNCHANGED tables, CurrentFiles' = CurrentFiles, job' \in {job, NoJob},
           bg' = bg \/ bg'.pc # "flushlog"
    PROVE  DropInv'
<1>1. CASE job' = NoJob
  BY <1>1 DEF DropInv
<1>2. CASE job' = job /\ job # NoJob
  <2>1. DropsStay /\ Files(job.version)' = Files(job.version)
    BY <1>2, DropsFrame
  <2>2. flaws \subseteq flaws'
    BY TablesStep
  <2>3. flaws = {} /\ bg.pc = "flushlog" => OthersOK(tables, bg.files, Files(job.version), job)
    BY <1>2 DEF DropInv
  <2>4. flaws' = {} /\ bg'.pc = "flushlog" => OthersOK(tables, bg.files, Files(job.version), job)'
    BY <1>2, <2>1, <2>2, <2>3
  <2> QED BY <2>1, <2>4 DEF DropInv, DropsStay
<1> QED BY <1>1, <1>2

LEMMA DropStep ==
    ASSUME CompactionInv, RefsInv', OrderInv, NumbersInv, MarksInv, KeptInv, DropInv, Next
    PROVE  DropInv'
<1>0. BgInv
  BY DEF CompactionInv
<1>1. ASSUME QuietLevels PROVE DropInv'
  <2>1. bg' = bg \/ bg'.pc # "flushlog"
    BY <1>1, ThreadRecords DEF QuietLevels
  <2> QED BY <1>1, <2>1, DropsOfQuiet DEF QuietLevels
<1>2. CASE ReadingStep \/ QuietStep \/ FlushFails \/ InstallMove(FALSE) \/ EndMerge(FALSE)
  BY <1>1, <1>2, ReadingIsQuiet, QuietStepIsQuiet, FailuresAreQuiet
<1>3. CASE StartFlush \/ FinishMerge
  <2>1. UNCHANGED <<tables, current, job>> /\ bg'.pc # "flushlog"
    BY <1>3 DEF StartFlush, FinishMerge, fileVars, verVars
  <2>2. CurrentFiles' = CurrentFiles
    BY <2>1, CurrentKept
  <2> QED BY <2>1, <2>2, DropsOfQuiet
<1>4. CASE BuildTable \/ InstallFlush \/ StartCompaction \/ MergeNext
  BY <1>4, DropsOfBuild, DropsOfInstallFlush, DropsOfStart, DropsOfTurn
<1>5. CASE InstallMove(TRUE)
  <2>1. job' = NoJob
    BY <1>0, <1>5 DEF InstallMove, BgInv
  <2> QED BY <2>1 DEF DropInv
<1>6. CASE EndMerge(TRUE)
  BY <1>6 DEF EndMerge, DropInv
<1> QED BY <1>2, <1>3, <1>4, <1>5, <1>6 DEF Next, Caller, Background, QuietStep, ReadingStep

----------------------------------------------------------------------------
(* The theorem.                                                            *)

LEMMA ReadStep ==
    ASSUME CompactionInv, CompactionInv', OrderInv, OrderInv', ReadInv, Next
    PROVE  ReadInv'
<1>0. RefsInv' /\ NumbersInv /\ MarksInv /\ KeptInv /\ ReadersInv /\ ViewInv /\ EditInv /\ DropInv
  BY DEF CompactionInv, ReadInv
<1>1. NumbersInv' /\ MarksInv' /\ KeptInv'
  BY <1>0, TablesStep, MarksStep, KeptStep
<1>2. ReadersInv' /\ ViewInv'
  BY <1>0, ReadersStep, ViewStep
<1>3. EditInv' /\ DropInv'
  BY <1>0, EditStep, DropStep
<1> QED BY <1>1, <1>2, <1>3 DEF ReadInv

LEMMA ReadStutters ==
    ASSUME ReadInv, UNCHANGED vars
    PROVE  ReadInv'
<1>1. /\ UNCHANGED <<hist, mem, imm, snapshots, readers, tables, next, versions, current>>
      /\ UNCHANGED <<bg, job, flaws>>
  BY DEF vars, memVars, fileVars, verVars, bgVars
<1>2. /\ Written' = Written /\ LastSequence' = LastSequence /\ CurrentFiles' = CurrentFiles
      /\ Active' = Active /\ \A id : Files(id)' = Files(id)
  BY <1>1 DEF Written, LastSequence, CurrentFiles, Files, Active
<1>3. \A E, s : Finds(E, s) <=> FindsNext(E, s)
  BY <1>2 DEF Finds, FindsNext
<1>4. NumbersInv' /\ MarksInv' /\ KeptInv' /\ EditInv' /\ DropInv'
  BY <1>1, <1>2 DEF ReadInv, NumbersInv, MarksInv, KeptInv, EditInv, DropInv, Files
<1>5. ViewInv'
  BY <1>1, <1>2 DEF ReadInv, ViewInv, Finds
<1>6. ReadersInv'
  BY <1>1, <1>2 DEF ReadInv, ReadersInv, Finds, Files
<1> QED BY <1>4, <1>5, <1>6 DEF ReadInv

LEMMA ReadInit ==
    ASSUME Init
    PROVE  ReadInv
<1>1. /\ CurrentFiles = NoFiles /\ AllFiles(NoFiles) = {} /\ DOMAIN versions = {1} /\ Files(1) = NoFiles
      /\ \A l \in Levels : NoFiles[l] = {}
  BY DEF Init, CurrentFiles, Files, NoFiles, AllFiles
<1>2. hist = <<>> /\ Len(hist) = 0 /\ Written = {} /\ LastSequence = 0 /\ snapshots = {} /\ job = NoJob
  BY DEF Init, Written, LastSequence
<1>3. bg.pc = "idle" /\ DOMAIN tables = {}
  BY ThreadRecords DEF Init
<1>4. Active = {}
  BY DEF Init, Active
<1>5. View(mem, imm, tables, CurrentFiles) = {}
  BY <1>1 DEF Init, View, Entries
<1>6. NumbersInv /\ MarksInv /\ ReadersInv /\ EditInv /\ DropInv
  BY <1>2, <1>3, <1>4 DEF NumbersInv, MarksInv, ReadersInv, EditInv, DropInv
<1>7. KeptInv
  <2>1. LevelsOK(tables, NoFiles, flaws)
    <3>1. 0 \in Levels
      BY VersionsAssumption DEF Levels
    <3> QED BY <1>1, <3>1 DEF LevelsOK, Disjoint, NewestFirst, NewerAbove
  <2> QED BY <1>1, <1>2, <2>1 DEF KeptInv
<1>8. ViewInv
  BY <1>2, <1>5 DEF ViewInv, Finds
<1> QED BY <1>6, <1>7, <1>8 DEF ReadInv

(* As of any snapshot or the last write, Get() and an iterator find what was
   written, and so do those under way, whatever was flushed, moved, merged,
   dropped or deleted in between: unless a compaction has parted the versions
   of a key, or a flush has slipped between the inputs of a merge. *)
THEOREM ReadsStayRight == Spec => []ReadsAreRightUnlessFlawed
<1>1. Init => OrderInv /\ ReadInv
  BY OrderInit, ReadInit
<1>2. CompactionInv /\ CompactionInv' /\ OrderInv /\ [Next]_vars => OrderInv'
  BY OrderStep, OrderStutters DEF CompactionInv
<1>3. CompactionInv /\ CompactionInv' /\ OrderInv /\ OrderInv' /\ ReadInv /\ [Next]_vars => ReadInv'
  BY ReadStep, ReadStutters
<1>4. CompactionInv /\ OrderInv /\ ReadInv => ReadsAreRightUnlessFlawed
  BY ReadsFollow
<1> QED BY <1>1, <1>2, <1>3, <1>4, CompactionInvariant, PTL DEF Spec

=============================================================================
