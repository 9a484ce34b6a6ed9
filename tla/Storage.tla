------------------------------- MODULE Storage ------------------------------
(* From a batch to an iterator: batches are appended to a log and put in a *)
(* memtable; a process that ends leaves the log cut off anywhere, and the  *)
(* next one reads it back; memtables become tables of level 0, and these   *)
(* files of level 1; an iterator at a snapshot merges them all.            *)
(*                                                                         *)
(* An update is known by its sequence number, which is also its value.     *)
(* When flushes, merges and recovery may run, and what else the directory  *)
(* holds, is in DBImpl, Compaction and WorldFiles: here they are steps.    *)
EXTENDS DBIter

CONSTANTS LogBlock, LogHeader,  \* of the log, scaled down
          SequenceBytes, CountBytes,  \* of the header of a WriteBatch
          kNumLevels,
          Groups,               \* what may be written at once: lists of updates
          Targets,              \* user keys an iterator may seek
          FileEntries,          \* entries that fill a file of level 1
          Budgets,              \* what a behaviour may do, see below
          None

VARIABLES
    updates,   \* history: what was written and not lost, by sequence number
    log,       \* the log of the memtable
    ends,      \* history: where each batch of the log ends
    mem,       \* the memtable: its sequence numbers
    version,   \* the VersionSet: its numbers, and the files of each level
    tables,    \* the tables in the directory, open in the table cache
    manifest,  \* the records of the MANIFEST
    recovered, \* what the last recovery read, and what it should have
    iter,      \* the iterator that is open, None before
    cursor,    \* history: the key that iterator should be at
    budget     \* how many updates, bytes of values, crashes, flushes, merges, reads

db == <<updates, log, ends, mem, version, tables, manifest>>
vars == <<db, recovered, iter, cursor, budget>>

Log == INSTANCE LogFormat WITH BlockSize <- LogBlock, HeaderSize <- LogHeader
Batch == INSTANCE WriteBatch
Edit == INSTANCE VersionEdit

Spend(field) == budget[field] > 0 /\ budget' = [budget EXCEPT ![field] = @ - 1]

---------------------------------------------------------------------------
(* Batches *)

\* An update of a list as a call on a WriteBatch.  A value has pad bytes.
Called(rep, u, pad) ==
    IF u.type = kTypeValue THEN Batch!Put(rep, u.user, Zeros(pad)) ELSE Batch!Delete(rep, u.user)
BatchOf(us, pad) == FoldLeft(LAMBDA rep, u : Called(rep, u, pad), Batch!Clear, us)

\* BuildBatchGroup(): the batches of the writers that wait, as one
GroupOf(group, pad) ==
    FoldLeft(LAMBDA rep, us : Batch!AppendTo(rep, BatchOf(us, pad)),
             BatchOf(Head(group), pad), Tail(group))

Insert(rep) ==
    /\ log' = Log!AddRecord(log, rep)
    /\ mem' = mem \cup DOMAIN Batch!InsertInto(rep)
    /\ ends' = Append(ends, [rep |-> rep, at |-> log'.size])
Write(group, pad) ==
    /\ iter = None /\ Len(updates) + Len(FlattenSeq(group)) <= budget.updates
    /\ Insert(Batch!SetSequence(GroupOf(group, pad), Len(updates) + 1))
    /\ updates' = updates \o FlattenSeq(group)
    /\ recovered' = None
    /\ UNCHANGED <<version, tables, manifest, iter, cursor, budget>>

---------------------------------------------------------------------------
(* The VersionSet: what is in an edit, a version and the MANIFEST *)

NewVersion == [next |-> 2, log |-> 0, prev |-> 0, last |-> 0, pointer |-> <<>>,
               files |-> [level \in {0, 1} |-> {}]]

\* Builder::Apply() and SaveTo()
Pointer(v, e) == IF e.compact_pointers = <<>> THEN v.pointer ELSE Last(e.compact_pointers)[2]
Left(v, e, level) == {f \in v.files[level] : <<level, f.number>> \notin e.deleted_files}
Added(e, level) == {a[2] : a \in {n \in ToSet(e.new_files) : n[1] = level}}
Apply(v, e) ==
    [v EXCEPT !.pointer = Pointer(v, e),
              !.files = [level \in {0, 1} |-> Left(v, e, level) \cup Added(e, level)]]

\* The files of a level in the order of BySmallestKey
Level(v, level) == InOrder(v.files[level], LAMBDA f, g : KeyLess(f.smallest, g.smallest))
At(level, files) == [i \in DOMAIN files |-> <<level, files[i]>>]

\* WriteSnapshot(): the record a new MANIFEST starts with
WriteSnapshot(v) ==
    [Edit!NewEdit EXCEPT
        !.comparator = <<1>>,
        !.compact_pointers = IF v.pointer = <<>> THEN <<>> ELSE <<<<0, v.pointer>>>>,
        !.new_files = At(0, Level(v, 0)) \o At(1, Level(v, 1))]

\* LogAndApply(): the edit gets the numbers, which v has already.
Numbered(e, v) ==
    [e EXCEPT !.numbers = Edit!kLogNumber :> v.log @@ Edit!kPrevLogNumber :> v.prev
                          @@ Edit!kNextFileNumber :> v.next @@ Edit!kLastSequence :> v.last]
LogAndApply(records, v, e) ==
    /\ version' = Apply(v, e)
    /\ manifest' = Append(records, Edit!EncodeTo(Numbered(e, v)))

\* Recover(): the records applied one by one, and their last numbers
LastNumber(edits, tag) ==
    Last(SelectSeq(edits, LAMBDA e : tag \in DOMAIN e.numbers)).numbers[tag]
Applied(edits) ==
    [FoldLeft(Apply, NewVersion, edits) EXCEPT
        !.log = LastNumber(edits, Edit!kLogNumber),
        !.prev = LastNumber(edits, Edit!kPrevLogNumber),
        !.next = LastNumber(edits, Edit!kNextFileNumber),
        !.last = LastNumber(edits, Edit!kLastSequence)]
Recover(records) == Applied([i \in DOMAIN records |-> Edit!DecodeFrom(records[i]).edit])

\* A new database, and its first Open()
NewDB == [Edit!NewEdit EXCEPT !.comparator = <<1>>]
Opened1 == [Recover(<<Edit!EncodeTo(Numbered(NewDB, NewVersion))>>) EXCEPT !.next = 4, !.log = 3]

Init == /\ updates = <<>> /\ log = Log!NewLog /\ ends = <<>> /\ mem = {}
        /\ version = Opened1 /\ tables = <<>>
        /\ manifest = <<Edit!EncodeTo(WriteSnapshot(NewVersion)),
                         Edit!EncodeTo(Numbered(Edit!NewEdit, Opened1))>>
        /\ recovered = None /\ iter = None /\ cursor = None
        /\ budget \in Budgets

---------------------------------------------------------------------------
(* Files *)

Key(n) == InternalKey(updates[n].user, n, updates[n].type)
Sorted(S) == InOrder(S, LAMBDA m, n : KeyLess(Key(m), Key(n)))
Items(ns) == [i \in DOMAIN ns |-> <<Key(ns[i]), ns[i]>>]
TableOf(ns) == BuildTable(Items(ns))
MetaOf(number, ns, size) == [number |-> number, file_size |-> size,
                             smallest |-> Key(Head(ns)), largest |-> Key(Last(ns))]
Open(ns, file) == [table |-> OpenTable(file), holds |-> ToSet(ns), file_size |-> file.size]

\* Tables numbered from first on, the i-th with the entries parts[i], and the
\* edit's entries for them
Built(first, parts) ==
    [n \in first .. first + Len(parts) - 1 |->
        Open(parts[n - first + 1], TableOf(parts[n - first + 1]))]
Adding(level, first, parts, built) ==
    [i \in DOMAIN parts |->
        <<level, MetaOf(first + i - 1, parts[i], built[first + i - 1].file_size)>>]

\* WriteLevel0Table(), with the table's number, and what its callers do then.
\* The level PickLevelForMemTableOutput() may choose is in Compaction; here it is 0.
WriteLevel0Table(records, v, number, parts) ==
    /\ tables' = Built(number, parts) @@ tables
    /\ LogAndApply(records, v, [Edit!NewEdit EXCEPT !.new_files = Adding(0, number, parts, tables')])
ToTable(records, v, number, S) ==
    /\ WriteLevel0Table(records, v, number, IF S = {} THEN <<>> ELSE <<Sorted(S)>>)
    /\ mem' = {} /\ log' = Log!NewLog /\ ends' = <<>>

\* The memtable gets a new log and then becomes a table.
CompactMemTable ==
    /\ iter = None /\ mem # {} /\ Spend("flushes")
    /\ ToTable(manifest, [version EXCEPT !.last = Len(updates), !.log = version.next, !.next = @ + 2],
               version.next + 1, mem)
    /\ recovered' = None /\ UNCHANGED <<updates, iter, cursor>>

\* DoCompactionWork() with a snapshot held that is older than all: every entry
\* is kept, in files of FileEntries entries.
Files == version.files[0] \cup version.files[1]
Held(files) == UNION {tables[f.number].holds : f \in files}
Parts(ns) == [i \in 1 .. (Len(ns) + FileEntries - 1) \div FileEntries |->
                 SubSeq(ns, (i - 1) * FileEntries + 1, Min({i * FileEntries, Len(ns)}))]
Inputs == {<<0, f.number>> : f \in version.files[0]} \cup {<<1, f.number>> : f \in version.files[1]}
InstallCompactionResults(parts) ==
    /\ tables' = Built(version.next, parts)
    /\ LogAndApply(manifest, [version EXCEPT !.next = @ + Len(parts), !.last = Len(updates)],
          [Edit!NewEdit EXCEPT
              !.compact_pointers = <<<<0, Key(Last(Sorted(Held(version.files[0]))))>>>>,
              !.deleted_files = Inputs,
              !.new_files = Adding(1, version.next, parts, tables')])
Compact ==
    /\ iter = None /\ version.files[0] # {} /\ Spend("merges")
    /\ InstallCompactionResults(Parts(Sorted(Held(Files))))
    /\ recovered' = None /\ UNCHANGED <<updates, log, ends, mem, iter, cursor>>

\* The process ends when cut bytes of the log are in the file, and Open() reads
\* the MANIFEST and the log back: RecoverLogFile() puts the batches into a
\* memtable, and that into a table.
Lost == [user |-> <<>>, type |-> None]
Kept(read, n) == IF n \in DOMAIN read THEN read[n]
                 ELSE IF n \in Held(Files) THEN updates[n] ELSE Lost
ReadBack(records) == FoldLeft(LAMBDA f, rep : Batch!InsertInto(rep) @@ f, <<>>, records)
\* The new MANIFEST gets the number v.next, the table the one after it if there
\* is one (files is 0 or 1), and the log the next.
Reopen(v, read, last, files) ==
    /\ updates' = [n \in 1 .. last |-> Kept(read, n)]
    /\ ToTable(<<Edit!EncodeTo(WriteSnapshot(v))>>,
               [v EXCEPT !.log = v.next + 1 + files, !.next = @ + 2 + files, !.last = last],
               v.next + 1, DOMAIN read)
RecoverFrom(cut, got, v, read) ==
    /\ recovered' = [records |-> got.records, drops |-> got.drops, cut |-> cut, ends |-> ends,
                     read |-> read, updates |-> updates, version |-> v, was |-> version]
    /\ Reopen(v, read, Max(DOMAIN read \cup {v.last}), Min({1, Cardinality(DOMAIN read)}))
ReadBoth(cut, got) == RecoverFrom(cut, got, Recover(manifest), ReadBack(got.records))
Crash(cut) ==
    /\ iter = None /\ Spend("crashes")
    /\ ReadBoth(cut, Log!ReadLog(log, cut))
    /\ UNCHANGED <<iter, cursor>>

---------------------------------------------------------------------------
(* An iterator *)

MemIter == ItemIter(Items(Sorted(mem)))

\* NewInternalIterator() and AddIterators()
OpenFile(f) == [largest |-> f.largest, table |-> tables[f.number].table]
TableIters(files) == [i \in DOMAIN files |-> TableIter(OpenFile(files[i]).table)]
LevelIters(files) == IF files = <<>> THEN <<>>
                     ELSE <<LevelIter([i \in DOMAIN files |-> OpenFile(files[i])])>>
InternalIterator ==
    MergingIter(<<MemIter>> \o TableIters(Level(version, 0)) \o LevelIters(Level(version, 1)))

NewIterator(s) ==
    /\ iter = None /\ Spend("reads")
    /\ iter' = NewDBIter(InternalIterator, s) /\ recovered' = None
    /\ UNCHANGED <<db, cursor>>

\* The user keys that snapshot s shows: the newest update it sees is a value.
Newest(u, s) == Max({0} \cup {n \in DOMAIN updates : n <= s /\ updates[n].user = u})
View(s) == {u \in {updates[n].user : n \in DOMAIN updates} :
               Newest(u, s) > 0 /\ updates[Newest(u, s)].type = kTypeValue}
Least(K)    == IF K = {} THEN None ELSE CHOOSE k \in K : \A j \in K : ~BytewiseLess(j, k)
Greatest(K) == IF K = {} THEN None ELSE CHOOSE k \in K : \A j \in K : ~BytewiseLess(k, j)
Shows == View(iter.sequence)

GoTo(it, u) == iter' = it /\ cursor' = u /\ UNCHANGED <<db, recovered, budget>>
Seek(u)     == iter # None /\ GoTo(DBSeek(iter, u), Least({k \in Shows : ~BytewiseLess(k, u)}))
SeekToFirst == iter # None /\ GoTo(DBFirst(iter), Least(Shows))
SeekToLast  == iter # None /\ GoTo(DBLast(iter), Greatest(Shows))
NextKey     == /\ iter # None /\ iter.valid
               /\ GoTo(DBNext(iter), Least({k \in Shows : BytewiseLess(cursor, k)}))
PrevKey     == /\ iter # None /\ iter.valid
               /\ GoTo(DBPrev(iter), Greatest({k \in Shows : BytewiseLess(k, cursor)}))

\* Where the log is cut off: anywhere, or between batches
Cuts == IF budget.tears THEN 0 .. log.size ELSE {0} \cup {e.at : e \in ToSet(ends)}

Next == \/ \E group \in Groups, pad \in 0 .. budget.pads : Write(group, pad)
        \/ CompactMemTable \/ Compact
        \/ \E cut \in Cuts : Crash(cut)
        \/ \E s \in 0 .. Len(updates) : NewIterator(s)
        \/ \E u \in Targets : Seek(u)
        \/ SeekToFirst \/ SeekToLast \/ NextKey \/ PrevKey
Spec == Init /\ [][Next]_vars

---------------------------------------------------------------------------
(* Properties *)

\* A log that is cut off anywhere reads as the batches that are whole in it, in
\* order and each with all of its bytes, which are the updates that were written;
\* no corruption is reported; and the MANIFEST reads as the version that was there.
RecoveredIsWhole ==
    recovered # None =>
       LET whole == SelectSeq(recovered.ends, LAMBDA e : e.at <= recovered.cut)
       IN  /\ recovered.drops = 0
           /\ recovered.records = [i \in DOMAIN whole |-> whole[i].rep]
           /\ \A i \in DOMAIN whole : Batch!Iterate(whole[i].rep).ok
           /\ \A n \in DOMAIN recovered.read : recovered.read[n] = recovered.updates[n]
           /\ recovered.version = recovered.was

\* Every table opens with its filters, and Table::InternalGet() finds the newest
\* entry of a user key that a snapshot sees, if the table has one: footer, index,
\* filters and restart points agree.
TablesFindTheirKeys ==
    iter = None =>
       \A t \in {tables[f.number] : f \in Files}, u \in Targets, s \in 0 .. Len(updates) :
          /\ t.table.ok /\ t.table.filter # <<>>
          /\ LET n   == Max({0} \cup {m \in t.holds : m <= s /\ updates[m].user = u})
                 got == InternalGet(t.table, InternalKey(u, s, kTypeValue))
             IN  IF n > 0 THEN got = <<Key(n), n>> ELSE got = <<>> \/ UserKey(got[1]) # u

\* However an iterator is moved, it finds no block it cannot read and is a
\* cursor over what its snapshot shows.
IteratorIsACursor ==
    iter # None =>
       /\ Healthy(iter.iter)
       /\ iter.valid <=> cursor # None
       /\ iter.valid => DBKey(iter) = cursor /\ DBValue(iter) = Newest(cursor, iter.sequence)
=============================================================================
