# MapPaintingEditor in TLA+

MapPaintingEditor is an Android app that turns pictures into map items of
Minecraft: it lists the worlds of the game, lets the user choose a picture, and
writes map records and a changed player record into the LevelDB database of a
world. It bundles that database: Mojang's fork of LevelDB, with JNI bindings and
Java wrappers. This directory models the parts of both where the order of
things matters, model-checks them with TLC, and proves the most important
results with TLAPS.

Short paths: `db/...`, `util/...`, `table/...` are under
`src/android-leveldb-master/library/src/main/jni/leveldb/`; `*.java` of the
bindings under `.../src/main/java/com/litl/leveldb/`; the activities under
`src/app/src/main/java/com/tmsstudio/mappaintingeditor/`.

## 1. Inventory

| Component | State | Operations | Talks to | What makes it correct |
|---|---|---|---|---|
| **Write path of the engine** (`db/db_impl.cc`) | queue of writers, `mem_`, `imm_`, logs, MANIFEST, sequence numbers, background thread, `bg_error_`, suspend and shutdown flags | `Write`, `MakeRoomForWrite`, `BuildBatchGroup`, `CompactMemTable`, `BackgroundCall`, `SuspendCompaction`, `Open`/`Recover`, destructor | Env (files), VersionSet; threads share `mutex_`, `bg_cv_` | an acknowledged write is never lost by a crash of the process, a synced one by no crash; one leader; calls return |
| **Compaction, snapshots, reads** (`db/db_impl.cc`, `db/version_set.cc`) | versions, level files, `pending_outputs_`, list of snapshots, `level_ptrs_` | `DoCompactionWork`, `PickCompaction`, `Get`, `NewIterator`, `DeleteObsoleteFiles` | write path, table cache | a reader sees the value of its snapshot whatever is merged or deleted meanwhile |
| **VersionSet** (`db/version_set.cc`, `db/version_edit.cc`) | current version, MANIFEST-n, CURRENT, file numbers | `LogAndApply`, `Recover`, `WriteSnapshot` | write path, Env | after a crash CURRENT names a MANIFEST whose files all exist |
| **Log format** (`db/log_writer.cc`, `db/log_reader.cc`) | block offset; the reader's buffer | `AddRecord`, `ReadRecord` | write path, VersionSet | what was written is read back; a torn tail is an end, a torn middle an error |
| **Memtable, skip list** (`db/skiplist.h`, `db/memtable.cc`) | nodes, `max_height_` | `Insert`, `Seek`, `Next` by readers without a lock | write path, reads | readers see a sorted list with everything inserted before they began |
| **Tables, filters** (`table/`) | immutable blocks | build, seek, get | caches | a key is found exactly if it was added |
| **Encoding** (`util/coding.cc`, `db/write_batch.cc`, `db/version_edit.cc`) | none | encode, decode, append | log, VersionSet | what is decoded is what was encoded |
| **Caches** (`util/cache.cc`, `db/table_cache.cc`) | entries with references, two lists, usage | insert, lookup, release, erase, evict | tables, reads | an entry in use is never freed; usage within the capacity otherwise |
| **Iterators** (`table/merger.cc`, `db/db_iter.cc`) | children, direction, saved key | `Next`, `Prev`, `Seek` | reads | each visible key once, in order, in both directions |
| **Env** (`util/env_posix.cc`) | descriptors, lock table, background queue | file operations, `LockFile`, `Schedule` | everything | a world is opened by one process and once |
| **Repair, destruction** (`db/repair.cc`, `db/db_impl.cc`) | the files of a world | `RepairDB`, `DestroyDB` | Env | what can be read is kept; what is deleted was closed |
| **Java bindings** (`NativeObject.java`, `DB.java`, `Iterator.java`, `com_litl_leveldb_DB.cc`) | `mPtr`, `mRefCount`, native objects | open, close, iterator, snapshot, destroy | activities, engine | no native object is used after it was freed, or leaked |
| **Edits of a world** (`ImportPicActivity.java`, `GridPicActivity.java`, `Util.java`) | the world's directory, its copy, `summon_ing`, the worker | copy, open, put, delete, copy back | bindings, files of the game | the world is not lost, "success" means that the maps are there |
| **List of worlds** (`MainActivity.java`) | `mapItemList`, `isInit`, the scan | scan, refresh | files of the game | each world once; complete when it says so |
| **Pictures to maps** (`PicFactory/`, `GridPicActivity.java`) | the picture, `bitmapArrayList`, the fields of the screen | pick, propose a grid, scale, cut, summon | edits | the maps on a wall show the picture |
| **NBT** (`nbt/`) | none | read, write | edits | a record survives reading, editing and writing |
| **Rest**: C interface, compressors, encodings, other platforms, screens, chunk parsing, tests | | | | see `PROJECT.json` |

How the parts interact. An activity opens the database of a world through
`Util.openDB()` and the Java `DB`; every `put` is a `DBImpl::Write()` with
`sync` false; closing the last wrapper deletes the `DBImpl`. The engine has one
background thread, shared by all databases of the process; writers, readers and
that thread share `mutex_` and release it around file operations. The app has a
main thread and one worker per RxJava stream, whose items and end are posted to
the main thread. On Android 11 the world cannot be opened where it lies, so it
is copied to a directory of the app and back.

What is hard: threads that leave a critical section in the middle of an
operation (the leader of a group, the flush, the merge); an end of the process
or the machine at any point of a protocol over several files; failures of
single file operations, which the app mostly swallows; reference counts over
two languages; messages of a worker that come when the screen has moved on.
`PROJECT.json` lists these hazards line by line.

## 2. Plan

In the order of importance; a tick is in place.

1. [x] `DBImpl`: the write path. `DurableStore`: what it promises.
   `DBImplProofs`: the queue, no acknowledged write is lost, numbers, waiting, and
   that `DBImpl` implements `DurableStore`.
2. [x] `NativeObject`: the wrappers over the engine. `NativeObjectProofs`.
3. [x] `WorldEdit`: the edit of a world, over a store that keeps what was put.
   `WorldEditProofs`.
4. [x] `WorldList`, `WorldListProofs`: the list of worlds.
5. [x] `Versions`, `Compaction`: versions of keys, snapshots, `Get()` without
   the mutex, what a merge drops, `pending_outputs_` and the deletion of tables.
   `CompactionProofs`.
6. [x] `WorldFiles`: MANIFEST-n, CURRENT, LOCK, two processes, `DestroyDB()` and
   `RepairDB()`, with their crash points. `WorldFilesProofs`.
7. [x] `LRUCache`, `Caches`: references, lists and usage under two threads.
   `CachesProofs`.
8. [x] `OrderedSet`, `SkipList`, `MemTable`: one writer, readers without a lock.
9. [x] `Storage` over `Coding`, `WriteBatch`, `VersionEdit`, `LogFormat`,
   `InternalKeys`, `Blocks`, `FilterBlock`, `Tables`, `Iterators`, `DBIter`: from a
   batch to an iterator, byte by byte where it matters.
10. [x] Theorems for the write path and the bindings: file and sequence numbers,
    waiters, crashes of the machine, the refinement, the reference counts.
11. [x] `MemTableProofs`: the skip list implements `OrderedSet`, `Get()` is exact.
12. [x] `Nbt`, `Pictures`, `Paintings`: from the picture that the user picks to the
    bytes of the records.
13. [x] `WorldFilesProofs`: owners, what a world keeps, CURRENT and its numbers.
14. [x] The order of the levels in `CompactionProofs`, and what reads find there.
15. [x] `CachesProofs`: the shards, the readers, the open files, the Limiters.
16. [ ] Theorems about `Storage` and `Paintings`: the format modules are recursive
    operators, which the prover cannot reach (end of section 5).

Composition. The modules of the engine look at one database from different
sides, and each takes from the others what they show: `DBImpl` has queues, logs
and recovery, and a flush or a merge as a process that takes time;
`Compaction` has what flushes, merges and readers do to versions, and `Write()`
as one step; `WorldFiles` has the directory between any two of its changes, and
the threads of an open world one after the other; `Storage` has the bytes, and
the times at which flushes, merges and recovery happen as choices. `DBImpl` is
shown to implement `DurableStore`; `WorldEdit` uses that promise as an
assumption (a put is atomic and survives the end of the process) instead of
the engine. `SkipList` is shown to implement `OrderedSet`, `MemTable` and
`Storage` are built on `SkipList` and on the operators of the format modules.
`Paintings` is `WorldEdit` seen from the data: there a tile is one step of an edit
that may fail or be cut off, here it is the bytes it puts.

## 3. The modules

### DBImpl

One action per branch of `Write()` and `MakeRoomForWrite()` and per stretch of
the background thread between two releases of `mutex_`. `wr[w].pc` is where a
writer is: `queue` (blocked on its own condition variable), `room` (in
`MakeRoomForWrite`), `bgwait` (blocked on `bg_cv_` there), `log`, `sync`, `insert`
(without the mutex), `publish`, `done`; `flushwait`/`flushblocked` are the
second half of `TEST_CompactMemTable()`. `mutex_` names a thread only where it
keeps the mutex over several actions, inside the loop of `MakeRoomForWrite`.

| Code | Model |
|---|---|
| `writers_`, `BuildBatchGroup()` | `writers_`, `group` (a prefix), `BatchGroup`, `MayJoin` |
| `mem_`, `imm_` | sets of entries (sequence number, batch); `has_imm_` for the pointer |
| log files | `walFiles` (they exist), `wal` (whole records), `durable` (synced), `torn` (partial records) |
| MANIFEST and CURRENT | `manifest`: what recovery would read; `manifestTorn` |
| `VersionEdit`, `LogAndApply()` | `edit`; `FlushTableBuilt`/`MergeDone` prepare it under the mutex, `ManifestWritten` appends and syncs it, `FlushInstalled`/`MergeInstalled` install it |
| `bg_compaction_scheduled_`, `BackgroundCall()` | `bg.pc`, `EndBackgroundCall` |
| `Open()` | `OpenRecover` (replay into tables, new log), `OpenApply` (new MANIFEST), `OpenFinish` |

A batch takes one sequence number. `result`, `acked`, `promised`, `before`
record the calls for the properties. `opens`, `faults`, `suspends` and
`bg.outputs` are bounded by constants; the theorems hold for any bound.

Abstractions: a table is a set of entries and a merge keeps them all (dropping
is in `Compaction`); of the compaction scores only level 0 is kept (no
seek-triggered or manual compaction); directory operations are ordered and
durable, and `fdatasync` makes the file's entry durable; `BuildTable()` syncs
the table before the MANIFEST names it; `InsertInto()` does not fail (it does
for a corrupt batch only); `reuse_logs` is false, `paranoid_checks` and
`create_if_missing` are true as the app's bindings set them, so that
`Recover()` reads logs from the log number on, makes one or more tables of each,
and fails at a log or MANIFEST that is torn in the middle (`Corrupt`).

`OnDisk` is what the files hold, `Recovered` what the next `Open()` gives of it to
a client: all of it, or, when the files are `Corrupt`, nothing, because there is
no DB then.

`DurableStore` is the abstract specification: batches are called, take effect
in groups, are answered; a crash may hide what it is allowed to hide. Its one
way out of that is a file operation that failed: it may leave the store broken
without a word to anybody (`Break`), later work may leave nothing of that
(`Mend`), and a store that is still broken when it is left may be refused for
ever (`Refuse`). `DBImpl` implements it with `Visible` for what readers see:
the entries of the memtables and tables up to `lastSequence` as long as there
is a `DBImpl` (until its destructor ends), and `Recovered` when there is none.
The store is broken while the files of a database in use are `Corrupt`.

### Versions, Compaction

`Versions` has the pure part of `db/version_set.cc`: `Get()` over the files of a
version, `GetOverlappingInputs()` with its growth in level 0, `Finalize()`,
`PickCompaction()`, `SetupOtherInputs()`, `IsTrivialMove()`, `ShouldStopBefore()`,
`IsBaseLevelForKey()`, `PickLevelForMemTableOutput()`, read samples. An entry is
a record of key, sequence number and deletion bit, a file the set of its
entries, its size their number.

`Compaction` has one action for each stretch of the background thread between
two releases of the mutex, and for each turn of the loop of
`DoCompactionWork()`, because a flush may come in between (`StartFlush`), and
readers come at any time. A reader holds what `Get()` or an iterator took
references to; that `Get()` finds the right value in it is evaluated at every
state, as if each of its reads could be the last.

| Code | Model |
|---|---|
| `versions_`, `Version::refs_`, `file_to_compact_` | `versions[id]`: `files`, `refs`, `seek`; `current` |
| `pending_outputs_`, the directory, `next_file_number_` | `pending`, `disk`, `next` |
| `CompactionState`, `Compaction` | `job`, with the entries that are left of the input (`rest`), and the one that was read before (`last`) |
| `manual_compaction_`, `CompactRange()` | `manual`, `call` |
| `BackgroundCall()`, `CompactMemTable()` | `bg.pc`: `queued`, `build`, `flushlog`, `merge`, `mergelog`, `movelog` |

`flaws` records two things that the code does and that break what it relies on:
a compaction that has taken some versions of a user key and left others of the same
level, in one of its two levels (`parted`), and a flush that has put its table between the inputs of the
merge under way, in the level of its outputs (`slipped`). The two violations of
section 4 are about them.

### WorldFiles

One action for each change of the directory in `Open()` (`NewDB`, recovery, the
new MANIFEST, CURRENT by way of a temporary file, deletion of obsolete files), in
flushes and merges, in `DestroyDB()` and `RepairDB()`, for two processes of which
one may try to open the world twice. A log, a MANIFEST and a table remember how
much of them was synced; `MachineCrash` keeps that and whatever else it likes.
`LockFile()` and `UnlockFile()` are taken apart: `open()` (`OpenLock`),
`locks_.Insert()` (`InsertLock`), `fcntl()` (`SetLock`, `SetLockFails`), and in the
other direction `fcntl()` with `locks_.Remove()` (`UnlockFile`), then `close()`
(`CloseLock`), then DestroyDB's `unlink()` (`DeleteLock`). Two system calls are one
step only where no other thread or process can tell, as the comments there say.
`dropped` is set when an owner's record lock goes, or turns out not to be on the
LOCK file that is there. There are three ways to that: the `close()` of a second
`LockFile()` of the same process, which `locks_` refused (`util/env_posix.cc:476`);
the `close()` at `:499`, when another thread of the process has locked the file
since `locks_.Remove()` in `:496`; the `unlink()` of `DestroyDB()`
(`db/db_impl.cc:1638`), when somebody has locked the file since, or has opened it
and not locked it yet.
`acked` are the entries written, `safe` those written with sync; `undone` marks a
world whose destruction or repair was not finished, and for which nothing is
promised until the next `Open()` says what it has found. A client does not
repair a world that it has open, as `RepairDB()` asks.
`Recover()` asks only whether there is a file with the number of each table of its
version, so the first `Open()` after a destruction or repair that was cut off may
succeed on tables of an older time. A world counts again only if its tables are
there and hold nothing later than the sequence number it goes on with (`Sound`).
The proof of section 5 asked for that condition: without it the invariant is not
inductive, and TLC finds an example, beyond the bounds of the run: a destruction is cut
off, a repair is cut off, and `NumbersAreFresh` fails in the next `Open()`.

### LRUCache, Caches

`LRUCache` has one shard of `util/cache.cc`: entries with `refs` and `in_cache`, the
lists `lru` and `in_use`, the table, `usage`; `Insert`, `Lookup`, `Unref`, `Erase`, `Prune`.
`Caches` puts two of them to use: the table cache (`FindTable()` releases
nothing between miss and insertion, so that two threads may open one file) and
the block cache of `table/table.cc`, whose key is the cache id of the open table
and an offset. The two limiters of `util/env_posix.cc` decide whether a file is
mapped, keeps a descriptor or is opened for each read. `contents` gives each
file ever written an identity of its own, numbers come back.

### OrderedSet, SkipList, MemTable

`SkipList` has a step for each load and store of a pointer that another thread
can tell apart: `BeginSearch`, the turns of `FindGreaterOrEqual()`, `LinkNode` level by
level, `max_height_` without a barrier. `OrderedSet` is its abstract
specification: an element is there at once or not, and a cursor moves to the
next one there is. `MemTable` adds sequence numbers, `LookupKey` and the arena
(blocks, fallback, alignment; sizes scaled down).

### Storage and the formats

Pure modules: `Coding` (varints and fixed numbers in a smaller base),
`WriteBatch`, `VersionEdit` (tags, decoding with its checks), `LogFormat` (fragments,
trailers, the reader's resynchronisation; a block of 10 bytes with a header of
3), `InternalKeys` (order, short separators and successors), `Blocks` (shared
prefixes, restart points), `FilterBlock` (one Bloom filter per range of
offsets), `Tables` (builder, footer, index, `InternalGet`), `Iterators` (block,
two-level, merging), `DBIter`. A byte is a number up to `MaxByte`, a checksum is
whether its bytes are whole, and the bytes of a value are a length.

`Storage` puts them in a row: groups of batches are appended to the log and put
into a memtable; it becomes a table of level 0, these become tables of level 1;
`Crash(cut)` keeps the first `cut` bytes of the log, and recovery reads MANIFEST and
log back; an iterator at any snapshot goes over everything in any order of
calls. `cursor` is where it should be, by the definition of what a snapshot
shows. A violated property here would be a fault of the formats: everything
about threads is elsewhere.

### Nbt, Pictures, Paintings

`Nbt` has NBTInputStream and NBTOutputStream as recursive operators on sequences
of bytes; a reading ends in a tag, an IOException or an exception that nobody
catches. A length is as wide as in the code, in bytes of `ByteBase` values, and
signed where the code's is (the length of a text is, the length of a name is not).
`Encodings` is the format itself, in which an empty list may be of any type.
Texts are well-formed UTF-8 and floats no NaN but the canonical one, as in the
records that the game writes: Java's `String` and `floatToIntBits()` would change
the bytes of others, here they stay as they are.
`Pictures` has PicTool, PicFactory and `clickIntelligent()`. A quotient of floats
that is truncated may lose one (`Truncated`: a picture scaled to 896 pixels, seven
maps, may get 895), one that is formatted is rounded to the nearest, at a tie
either way (`Rounded`). A pixel is known by its place in the scaled picture.

`Paintings` has the two activities as the user moves them: `cut` is
`bitmapArrayList`, the rest of the screen is in `img`, `picture` and `fields`, and
`worker` is the stream of GridPicActivity, a tile per step. `SummonMapItem` is the
whole method: read the player's record, edit it, put it, put the map. A new uuid
is the next number: the choice is in `WorldEdit`. What the code gets wrong
harmlessly is in the model: a file that cannot be read leaves the last
picture's grid (`SelectFails`), one that cannot be decoded or is so thin that a scaled
side is 0 ends the process in ImportPicActivity (`ImportPicActivity.java:218`) and
leaves the last grid in GridPicActivity. A proposed grid may have more tiles than
there are slots, when the shorter side was rounded to 0 and is made 1
(`AtLeastOne`); `loadGridPic()` then refuses it. The numbers that are typed are
so small (`MaxField`) that their product fits: in the code it is an `int`
(`GridPicActivity.java:239`), and 65536 rows of 65536 would pass as none.

`TheGameSeesThePicture` goes from one end to the other: when an activity has said
that the maps are made, the maps that the items of the slots refer to, decoded and
hung up in order, show the whole picture in its proportions and in the middle (or
stretched, if that was asked for), and the player's record is one of the
encodings of the old tag with other items in those slots and nothing else. A text of
more than 32767 bytes in the record reads as a negative length
(`NBTInputStream.java:116`); `summonMapItem()` swallows the exception, both activities
announce success, and the property says that at least nothing was changed.

### NativeObject

Threads that run methods of `DB`, `Iterator`, `Snapshot` and `WriteBatch` step by
step; `todo[t]` holds the steps left of a call, `monitor` the `synchronized` ones.
`mRefCount`, `mPtr` and `mDestroyOnClose` are the fields of the Java classes,
`native` the C++ objects. Clients call nothing on a wrapper that they have
begun to close (the app does not); they may close it again once its pointer is
0, which does nothing. A second `close()` of a DB that an open iterator keeps
alive is excluded: `NativeObject.close()` would take the iterator's reference
and free the native DB under it (`NativeObject.java:62`). A batch is not closed
while a `write()` of it is under way. A DB is opened once.

### WorldEdit

`disk` maps the world's directory and the app's copies to names that are
absent, torn or whole and to the records of the db. The db, a directory of
its own, is one name; deleting it takes two steps. `pieces` says what the files
of a torn db may hold: the tables of one db or another (`bases`), the log up to
any of its records (`cuts`: a copy stops at any byte, `GridPicActivity.java:369`),
and logs that an earlier edit left in the same directory (`stale`). A torn db does
not open, or opens with what recovery makes of that (`Recovered`): without any of
it, with all, or with the player's record of an edit and not its map. A copy over
a directory that was there before leaves a mixture (`Mixed`), and even a complete
one may open with the stale log replayed over the copied data (`EndCopy`).
ImportPicActivity names its copy after the world (`ImportPicActivity.java:313`), so
that every edit meets what the last one left; GridPicActivity names it after the
time (`CacheOf`). `flaws` records that an edit began in a copy left behind
(`stale`) and that a torn db was opened (`torn`).
An edit is a job with a stage: copy out, open, per
tile get/pick/put/put, close, delete the originals, copy back, delete the copy.
Where `scoped` is false (a world outside Android/data, or an older Android) it
works in place. ImportPicActivity runs it on the main
thread (`UIFree`), GridPicActivity on a worker whose end is an `event`.
Faults are the exceptions the code catches or not, each where it does:
`CopyFails` (swallowed), `DeleteFails` (result ignored), `CopyThrows`,
`OpenFails`, `PutFails` (swallowed per tile). Clicks do not reach an activity
while the picture chooser is in front of it; `mc_map.length <= 0` cannot happen
(the array has 65536 bytes).

### WorldList

`scans` are the streams: directories to read, items on their way, state.
`isInit`, `mapItemList` and the toast (`told`) are the activity's. `Grant` is the
first scan, in `onCreate()` or after the dialogs that ask for the permissions.
`Refresh` is `refreshData()`, which looks at no permission: after a refusal it
starts a scan whose listings come back empty or in part (`Found`).

## 4. What the runs check

Passing runs (states: distinct, as TLC counts them):

| Run | Bounds | Shows |
|---|---|---|
| `DBImpl_crash` (996k) | 2 writers, 3 batches (1 synced), memtable of 1 entry, level-0 trigger 1, 2 opens, 1 merge output | `NoAckedWriteLost`, `NewLogIsNew`, with crashes of the process at every step |
| `DBImpl_machine` (296k) | 2 writers, 2 batches (1 synced), every write sleeps once, 3 opens, crashes of the process and the machine, 2 failing file operations, 1 suspend | `SyncedWritesSurviveUnlessTorn`, `AckedReadable`, `SequenceOrder`, the refinement `ImplementsStore` |
| `DBImpl_live` (151k) | 2 writers, 3 calls, one a forced flush, one fault, fair | `OneLeader`, `WaitsForACompaction`, `CallsReturn` |
| `Compaction` (454k) | 3 keys, 3 levels, sequences of 4 and 5 puts and deletes of two keys with budgets of reads, snapshots, manual calls and faults, or of 6 puts of three keys with a manual call; memtable of 1 entry, files of 2 entries | `ReadsAreRightUnlessFlawed`, `FilesAreThere`, `LevelsAreOrdered`, `WorkIsScheduled` |
| `WorldFiles` (2039k) | 2 processes, 3 handles; 7 budgets, of up to 3 opens, 2 writes, 2 crashes, 1 fault, a destruction, 2 repairs, a damaged table | `NothingIsLost`, `CurrentIsWhole`, `NumbersAreFresh`, `OneOwnerUnlessDropped` |
| `Memory` (556k) | 1 reader, 3 updates, each a put of key 1 or a deletion of key 2, height 2; or 2 threads, 2 file numbers, 3 contents, 2 blocks per file, one compressed, 4 reads, caches of 1 table and 2 blocks, or 2 and none | `WellFormed`, `GetIsExact`, the refinement `IsAnOrderedSet`; `CachesAgree`, `GrowsWithinCapacity`, `ReadsItsBlock`, `DeletedIsClosed` |
| `Storage` (88k) | up to 4 updates in groups of 1 or 2 batches on keys `a`, `ab`, `c`; 4 budgets, of tears at every byte, flushes, merges, crashes, one iterator | `RecoveredIsWhole`, `TablesFindTheirKeys`, `IteratorIsACursor` |
| `WorldEdit` (641k) | on a copy or in place, 2 edits, 4 uuids, an inventory with the slots or without, fair; one of: GridPicActivity with up to 2 tiles and 2 ends of the process, or 1 tile, one end and a fault; both activities with up to 2 tiles and a fault, or with 1 tile and 2 ends of the process | `NothingLost`, `SuccessMeansMade`, `NoItemWithoutMap`, `MapsAreKept`, `EditEnds` |
| `Screens` (87k) | 4 worlds (1 unreadable), permissions given or refused, 3 scans, 2 refreshes, 1 error, fair; or 5 or 4 acts of a user who paints, 5 shapes of pictures, maps of 2 by 2 pixels, 4 slots, numbers up to 3, bytes of 8 values, 3 players; or 2 threads, 2 iterators, 1 snapshot, 1 batch | `NoWorldTwice`, `UndisturbedScanIsComplete`, `RefreshIsPossibleAgain`; `TheGameSeesThePicture`; the four properties of the counts: `ChildrenDieFirst`, `CallsFindTheirObject`, `AllReleased`, `FilesOutliveDb` |

Why the bounds are enough to be interesting. With a memtable of one entry and
three batches there is a switch while a flush is under way, a wait for
`imm_`, a group of two and a group cut by a sync write; two opens are a crash and
a recovery whose logs are not the first; with trigger 1 every flush makes a
merge due. `DBImpl_machine` has less traffic and more trouble: three opens let a
crash hit a recovery that follows another one, and the sleep of each write
(`L0Slowdown` 0) lets the second writer join the first one's group.
In `Compaction` five writes of two keys fill three levels: files overlap, a
file goes down by itself, a deletion reaches the base level while an older
version is below or not, a merge has more than one output, and a flush and a
reader come in its middle; the sequence of three keys makes files with a gap
between them. In `WorldFiles` three opens are a new world, a
crash, and a recovery that is cut off as well; a repair may be cut off and followed
by an open or by another repair; two handles of one process are
the least for a lock to be dropped. In `Caches` the caches hold less than two
threads use, so that eviction meets entries in use, and one number is used
for three files. In `MemTable` three nodes of height up to 2 are a list with a
node before, at and after each search, whose upper level has gaps. In
`Storage` the log's block is shorter than two records, so that trailers, empty
first fragments and records over three blocks occur; a table has several
data blocks, restart points and filters, and the iterator meets several versions
of a key, and deletions, in memory and on both levels. In
`Paintings` five acts are a picture, two numbers, the check box and a summon, or a
change after it; two shapes are so thin that a side is scaled to 0, one is smaller
than a map, one has too many tiles. `MCScreens` runs `WorldList`, `Paintings` or
`NativeObject`, never two of them, and `MCMemory` `MemTable` or `Caches`: they share no
variable. (`NativeObject` has `ObjectsInit`, `ObjectsNext` and `ObjectsSpec` for that.)
In `WorldEdit` two edits and two crashes give an
edit that starts with the remains of another, in ImportPicActivity's copy among
them; four uuids let each tile have one beside those in use. Two iterators and a
snapshot are enough for two children of one parent to close at once, and for a
parent that is itself a child.

Each property has a mutant in `PROJECT.json`, a plausible bug in a mapped
definition that makes the same run fail.

Three runs find a violation. `DBImpl_torn` is `DBImpl_machine` with one failing
operation. `AddRecord()` fails half way (a full disk, say) and the writer gets the
error, but only a failed `Sync()` sets `bg_error_` (`db/db_impl.cc:1249`). A batch
with sync is logged behind the torn record, synced and acknowledged. After a crash
the reader reports the torn record, `paranoid_checks` makes `Recover()` fail, and
`Open()` has no DB for anybody (`db/db_impl.cc:345`, `:415`): the synced batch is not
found, against `include/leveldb/options.h:198`. What does hold in `DBImpl_machine`,
with two failures, is `SyncedWritesSurviveUnlessTorn`: nothing takes a synced batch
out of the files, and `Open()` finds it there as long as nothing has failed.

`Compaction_parted` is `Compaction` with output files
of one entry. A merge that keeps two versions of a key for a snapshot may then
put them in two files: nothing but the size decides where a file ends
(`db/db_impl.cc:1022`). The next compaction picks the file with the newer one,
finds no file of the next level that overlaps, and moves it down alone. `Get()`
of the latest state finds the older version first, against "entries never
hop across levels" (`db/version_set.cc:346`). In the code an output is 2 MB, and
the versions must straddle its end. (Later versions of LevelDB add the files at the
boundary to the inputs.)

`Compaction_slipped` asks whether files "must not overlap", as an assertion of
`Builder::MaybeAddFile()` says (`db/version_set.cc:765`). `CompactRange()` merges
two files of a level, of keys 1 and 3, that no file of the next level overlaps; its
output will span 1 to 3. A memtable with key 2 is flushed in the loop of
`DoCompactionWork()` (`db/db_impl.cc:944`). `PickLevelForMemTableOutput()` sees only
the files there are, none of which it overlaps, and puts it in the level of the
outputs; when the merge is installed two files of that level overlap (or the
process aborts, where assertions are compiled in), and the binary search of
`Get()` may pass over the key. A compaction that the engine picks itself has inputs
without such a gap: `LevelsAreOrdered` and `ReadsAreRightUnlessFlawed` show that
these two are the only ways in the bounds of the run. The app never calls
`CompactRange()`.

Other disagreements between the code and what the repository says of it, which
the properties of the passing runs leave out. Each can be seen with TLC:

* `SuspendCompaction()` during a merge with `imm_` set, then `ResumeCompaction()`:
  neither schedules what was held back, and the next writer that needs room
  waits for nobody (`db/db_impl.cc:667`, `:1374`). `DBImpl_live.cfg` with
  `MaxSuspends = 1` violates `WaitsForACompaction`.
* The torn record of `DBImpl_torn` needs no crash of the machine: `options.h` says
  (`:193`) that no write is lost if only the process crashes. `DBImpl_crash.cfg` with
  `MaxFaults = 1` violates `NoAckedWriteLost`.
* `copyDir()` swallows the exception of each file and the edit goes on to
  delete the originals and to announce success (`ImportPicActivity.java:362`):
  without its `faults = 0`, `SuccessMeansMade` and `NothingLost` fail.
* The toast of success says that maps were made in slots which the player's record
  does not have: `summonMapItem()` catches the exception (`ImportPicActivity.java:146`)
  and `:262` follows. No fault is needed; the record of a player may lack slots.
  With `asked` for `made` in `SuccessMeansMade`, TLC comes to such a slot.
* ImportPicActivity's copy of a world is left behind when the process ends
  (`ImportPicActivity.java:313`). If it ended while the world was deleted or copied
  back, that copy is the only whole one, and the next edit copies what is left of the
  world over it; and a log that is in it is replayed by the next open. With
  `"stale"` left out of their conditions, `NothingLost`, `SuccessMeansMade` and
  `NoItemWithoutMap` (`flaws = {}`) fail.
* The process ends during the copy back: the world has a db with part of its files.
  The next edit opens it with what recovery makes of them (the log may end between the
  two puts), closes it and takes it back as a whole one: with `"torn"` left out of its
  condition, `NoItemWithoutMap` fails.
* An item is put before its map (`ImportPicActivity.java:119`, `:143`): an end of the
  process between the two puts leaves the item alone in a world that is edited in
  place. Without `scoped`, `NoItemWithoutMap` fails.
* After an error of its worker GridPicActivity goes on to say "生成中" and refuses
  the back key (`GridPicActivity.java:489`): without `told = "error"`, `EditEnds` fails.
* A refresh during a scan clears the list and starts nothing; the scan then
  says "扫描完成" with worlds missing (`MainActivity.java:341`): without the condition
  on refreshes, `UndisturbedScanIsComplete` fails, and without `granted`, because a
  refresh after the permissions were refused says the same.
* A second owner of a world: the app tries to open a world it has open, is
  refused, and the game can lock it (`util/env_posix.cc:476`); or it opens it while
  another of its threads is between `locks_.Remove()` and `close()` of the last use
  (`:496`, `:499`), and loses its lock; or `DestroyDB()` unlinks LOCK after it
  unlocked it (`db/db_impl.cc:1637`), while somebody has it locked or open. Without
  `dropped`, `OneOwnerUnlessDropped` fails.
* CURRENT names MANIFEST-000001 before it was synced (`db/db_impl.cc:198`,
  `db/repair.cc:410`): without `current > 1`, `CurrentIsWhole` fails.

Read, not checked: `SuspendCompaction()` does not wait for the work under way
(`db/db_impl.h:45`); the NULL batch of `TEST_CompactMemTable()` can be taken into
another writer's group, and then nothing is flushed (`db/db_impl.h:56`); what a
crash of the machine loses need not be the last updates (`doc/index.md:113`),
because a switch of logs does not sync the old one; the caller of
`CompactRange()` who leaves on an error while his range is merged makes the
background thread use a NULL pointer (`db/db_impl.cc:609`, `:782`); `RepairDB()`
archives a table before its copy is finished, never syncs it (`db/repair.cc:343`),
and puts all tables in level 0, where numbers stand for age (`:397`); the app
copies the edited world back itself, unlike `README.md:64` says.

`CHECK_DEADLOCK FALSE` everywhere: the programs stop when their users, budgets
or disks do (a closed database, no more batches to write), and
whether somebody waits for nobody is what `WaitsForACompaction`, `CallsReturn`,
`WorkIsScheduled`, `EditEnds` and `RefreshIsPossibleAgain` say. The constraint
`OneOwner` of `WorldFiles` stops where a world has two owners: nothing is
promised there. Symmetry is used for threads, writers, handles and wrappers
only in runs of safety properties.

**Fairness.** `DBImpl`: weak fairness of each writer's steps, of the
background thread, of `Open()` and of the destructor: threads that can run do.
Calls of users, suspends, crashes and faults are not fair, and budgets bound
faults, so that no operation fails for ever. Mutex and condition variables need
no strong fairness in the bounded runs, since finitely many calls compete.
`WorldEdit`, `WorldList`: weak fairness of the worker and of the delivery of
its messages by the main looper; nothing that a user does.

## 5. What is proved

All theorems hold for every value of the constants; TLC has checked the same
properties on the instances above.

* `DBImplProofs!QueueInvariant`, `OneLeaderAlways`: `Spec => []OneLeader`.
  `OneLeader` alone is not inductive, because who becomes leader depends on the
  queue: `QueueInv` adds that no writer is in the queue twice, that those
  blocked in it are exactly the ones behind its head, that the group of the
  leader is a prefix of it, and where the mutex may be held over a step. The
  proof goes by action; `Dequeue` and appending have lemmas.
* `DBImplProofs!LogInvariant`, `AckedWritesSurvive`:
  `Spec => []NoAckedWriteLost`, with `MaxFaults = 0` and `MachineCrashes = FALSE`
  (with a torn append it is false, see section 4; a crash of the machine may take
  what was not synced), for any number of
  writers, batches, crashes of the process, suspends and levels.
  `LogInv` says why: every entry of a log that recovery reads (file number at
  least the log number of the MANIFEST) is in a table of the MANIFEST, or in
  `mem_` or the group in flight if it is in the current log, or in `imm_` if it
  is in an older one (`LogCovered`). A flush may therefore move the log
  number to the current log. `NumbersInv` keeps logs apart by number,
  `FlushInv` ties the stage of the background thread to the edit it carries,
  `AnsweredInv` says that what is or will be answered with OK is on disk.
* `DBImplProofs!FileNumbersInvariant`, `NoLogIsOverwritten`: a log is created under
  a number that no log has (`NewLogIsNew`), whatever fails and crashes. In an
  open database `next_file_number_` is above all of them; in a closed one
  recovery marks as used what MANIFEST and directory name.
* `DBImplProofs!WaitersHaveACompaction`: a writer asleep in `MakeRoomForWrite()`
  because of `imm_` has a background call that will wake it
  (`WaitsForACompaction`). It assumes `MaxSuspends = 0`: with
  `SuspendCompaction()` it is false (section 4). `WakeInv` adds that whoever
  leaves `imm_` behind has scheduled the call, or is in it.
* `DBImplProofs!OrderInvariant`, `SequencesInOrder`: no two batches share a
  sequence number, and a batch called after another was acknowledged has a
  higher one, over restarts and failed writes (`SequenceOrder`, an invariant
  of every file, memtable and group). `OrderInv` needs to know where entries may
  be (`EntriesInv`), that a batch is in one place of the queue or logged
  (`CallsInv`), that numbers identify batches (`DistinctInv`), and what bounds
  the numbers in use: `lastSequence` in an open database, what MANIFEST and
  logs say in a closed one (`BoundsInv`).
* `DBImplProofs!StoreInvariant`, `AckedWritesReadable`, `TornInvariant`,
  `SyncedWritesAreSafe`, `AckedWritesStay`: with any number of failing file
  operations and of crashes of the process and the machine, an acknowledged batch
  that is on disk is readable while the database is open (`AckedReadable`); one
  written with sync stays on disk, and the next `Open()` finds it unless a file
  operation has failed (`SyncedWritesSurviveUnlessTorn`); and without crashes of the
  machine every acknowledged one is in the logs and tables, where a torn record may
  keep `Open()` from it. That it is found again after every crash is false:
  `DBImpl_torn`. `StoreInv` says: an answer is
  what the caller got (`HoldersInv`); calls with a NULL batch log nothing
  (`NullInv`); what the leader has done so far (`LeaderInv`), which is where
  sync and the end of `Write()` meet; memory has what was settled, and files
  have what is in memory (`MemoryInv`); an edit on its way to the MANIFEST holds
  what the version lacks and moves the log number no further (`EditInv`); what
  a crash must not lose is where it cannot (`LastInv`). `TornInv` says that logs and
  MANIFEST are torn by failed operations only, and that a database which is being
  opened is not `Corrupt`.
* `DBImplProofs!StoreRefined`: `Spec => ImplementsStore`, the whole of `DBImpl`
  implements `DurableStore`, without any assumption on the constants beyond
  those `DBImpl` declares. `Write` is a `Call`, `Return` and `AwaitFlush` are a
  `Reply`, `Publish` is a `Commit` of the batches of its group; the end of the
  destructor and a crash are a `Restart`, or a `Refuse` if the files are `Corrupt`
  then; a record that is logged behind a torn one is a `Break`, the new log number
  of a MANIFEST a `Mend`; all other steps, flushes, merges and
  recovery among them, change nothing that a reader could see. With `MaxFaults = 0`
  there is no `Break`, and so nothing is ever refused.
* `NativeObjectProofs!ReferencesAreCounted`, `ChildrenDie`, `CallsFind`,
  `NothingLeaks`, `FilesStay`: the four properties of `NativeObject` for any number
  of threads, iterators, snapshots and batches. The proof names the point that
  each thread has reached (a `Stage`, of which `todo[t]` is the rest of the
  call). `RefInv` says that the count of a wrapper is the number of wrappers
  that hold a reference to it, those just being made or closed according to
  the stage of their thread; that no two threads close the same one; and that
  what a thread is going to use is alive.
* `CompactionProofs!CompactionInvariant`, `FilesAreAlwaysThere`:
  `Spec => []FilesAreThere`, for any keys, levels, limits, readers and writes: no
  file goes that a version in use, the merge or an edit about to be installed
  needs, and no version stays that nobody holds. The invariant counts: `refs_` of a
  version is the number of its holders (readers, the flush, the merge, being
  current), whatever order they come and go in (`RefsInv`); then a version that is
  held is in the list, and its files are live (`FilesInv`). `EntriesInv` and `BgInv`
  keep numbers fresh, tables without holes (no table is empty, so that it has a
  smallest and a largest key) and the outputs of the merge in `pending_outputs_`,
  through a flush in its middle. That a compaction takes only files of its version
  is a chain of lemmas about `Versions` (`PicksAreFiles`, `InputsAreFiles`,
  `ManualInputsAreFiles`, `GetChargesPick`).
* `CompactionProofs!WorkIsAlwaysScheduled`: `Spec => []WorkIsScheduled`. Every step
  that makes work either schedules a call or is taken by one that will look again
  (`BackgroundCall()` ends with `MaybeScheduleCompaction()`). At the start there is
  no work, because a level without files is within every limit
  (`EmptyNeedsNothing`), which needs what the recursive function
  `MaxBytesForLevel` is for every level (`LevelLimits`: the least level up to which
  there is no such function does not exist).
* `CompactionProofs!LevelsStayOrdered`: `Spec => []LevelsAreOrdered`, for any levels,
  limits, snapshots and writes: below level 0 files are disjoint unless a flush has
  slipped between the inputs of a merge, a newer file of level 0 has the newer versions
  of a key, and without flaws so has a higher level. `OrderInv` says why: what is
  in a table is older than what is in memory (`TimeInv`); the version that an
  edit will make is as ordered as the current one, and so is what a flush in the middle
  of a merge leaves of it (`LevelInv`, `JobOK`); a merge takes its inputs in their order, each
  output ends before the next begins, and what is left lies behind them all
  (`MergeInv`). The lemmas say what the choice of inputs is for: nothing of the
  next level that is left out lies between them (`OthersLieApart`), and the files
  of level 0 that stay overlap none of them.
* `CompactionProofs!ReadsStayRight`: `Spec => []ReadsAreRightUnlessFlawed`, for any
  keys, levels, limits, readers, snapshots and writes. Its inductive invariant is
  `ReadInv`, on top of `CompactionInv` and `OrderInv`. The view of the memtables and the
  current version finds what was written, as of the last write and every snapshot
  (`ViewInv`), and so does what each reader under way has picked up (`ReadersInv`),
  because the versions that it may hold stay as they were (`KeptInv`) and what is
  newer lies in front (`Finds`, `Ordered`). A flush or a move changes no entries, a
  merge exchanges its inputs for its outputs (`EditInv`), and the oldest snapshot of
  the merge is not newer than any reader's (`MarksInv`). What a merge has dropped is
  `Gone` (`DropInv`): a newer version of its key in the inputs hides it from every
  snapshot, or it is a deletion, old enough, of a key that no file deeper down has.
  The second rests on `IsBaseLevelForKey()`, whose cursors `level_ptrs_` only move
  forward: the files that one has passed end before all that is left to merge
  (`Behind`). It also needs that no file which a flush adds in the middle of the
  merge brings an older version of the key (`OthersOK`). The files of a level
  are listed by `BySmallestKey`, which gives each the place of its `Rank`;
  that every rank is taken once is `Ranked`.
* `MemTableProofs!SkipListInvariant`, `ListFilledIn`, `ListSorted`: the skip list is
  sorted on every level and filled in wherever somebody stands, for any keys,
  height and number of readers, between any two stores of `Insert()`. What makes
  it inductive is `Gapless`: between a node and the one it points at there is no
  other node of the level. `Place` says that `prev[j]` is still the right place of
  the new node in each level that it is not linked in yet, although the list grew
  after the search.
* `MemTableProofs!ListIsAnOrderedSet`: `Spec => IsAnOrderedSet`, the skip list
  implements `OrderedSet`. An `Insert()` takes place at its store in level 0; the
  turns of a search are stutters; where a search ends is an answer
  (`SearchEndsAnswers`), because a level is part of the one below it and keys are
  never removed.
* `MemTableProofs!MemTableIsASkipList`, `MemTableIsAnOrderedSet`, `ReadsAreExact`,
  `MemTableWellFormed`: a memtable takes only steps of the list, so that all of the
  above holds for it; its sequence numbers are 1 to `Added`, each once
  (`Numbered`), and what is added while a `Get()` looks is newer than what it may see
  (`Gets`). So `GetIsExact`; `ArenaOK` is the invariant of the arena in `WellFormed`.
* `WorldEditProofs!EditInvariant`, `MapsStay`: for any files, uuids, slots, pictures
  and any number of edits, failures and ends of the process, a map that a db has is
  never written over (`MapsAreKept`). `EditInv` says that one edit runs at a
  time, in the directory that is its own, and what it has left to do at each stage
  (`JobOK`); among that, that the key chosen is still free until the map is put,
  and that a db which is being copied is torn.
* `WorldEditProofs!ItemsHaveMaps`: `Spec => []NoItemWithoutMap`, for both activities.
  The property is about worlds that are edited through a copy, up to a failed operation,
  an open of a torn db or an edit in a copy left behind; after these an item may well
  be without its map (section 4). `ItemsInv` follows the db from the world to the copy
  and back; on the copy one slot, the one in work, may be without its map.
* `WorldEditProofs!NothingIsLost`, `SuccessIsTrue`: `Spec => []NothingLost` and
  `Spec => []SuccessMeansMade`, for both activities, any number of edits and of ends of
  the process, without a hypothesis. Both properties speak of the states up to the
  first failed operation and the first edit in a copy left behind (`Trusted`), because
  behind either the code loses worlds (section 4). `CopiesInv` says in which directory
  each file is whole, stage by stage, those of earlier edits included: while the world
  is deleted or written back, they or the copy in work have all of it. A crash during the copy
  back leaves a world that the next edit may copy, find torn and open with a part of its
  records; each promised map is then in the db in work or in an older copy (`Sound`).
  `SuccessInv` accounts for each slot, item and map from the start to the toast (`Made`).
  It does so for the slots that were asked for and that the record has (`Askable`): of
  the others the toast is wrong.
* `WorldFilesProofs!OwnerInvariant`, `WorldHasOneOwner`: `Spec =>
  []OneOwnerUnlessDropped`, for any number of processes, opens, destructions,
  repairs, failures and crashes, with `LockFile()` and `UnlockFile()` in their single
  system calls. `locks_` alone keeps one process from opening
  a world twice, and the record lock keeps the others out, but only from the inode
  it was taken on: so `LockInv` says that whoever owns a world, or is between
  `locks_.Insert()` and `fcntl()`, is in `locks_` and alone in that, and that until a
  lock is dropped the owner's record lock is on the
  LOCK file that is there. `StagesInv` says at which stages a call has the lock.
* `WorldFilesProofs!WorldInvariant`, `WorldKeepsItsEntries`,
  `CurrentLeadsToTheWorld`, `NoNumberIsGivenTwice`: `NothingIsLost`,
  `CurrentIsWhole` and `NumbersAreFresh` for any number of processes, calls,
  writes, failures, ends of a process or the machine, destructions and repairs,
  in every behaviour without two owners. They are not inductive: between two of
  its steps a call relies on what it has read and on files nobody else touches.
  `WholeInv` says what that is:
  - `FilesInv`, `BoundInv`: what MANIFESTs, logs and tables look like, and that
    there is a greatest number of a file and of an entry, so that `FindFiles` and
    `RecoverLog` have a maximum to take;
  - `DiskInv`: whatever CURRENT says, the entries are in the directory (else no
    repair could find them), but for those that `RepairTable()` is copying;
  - `CurrentInv`, `WorldInv`: what the MANIFEST of CURRENT says, all of it and the part
    that was synced: its numbers are above those it uses, its tables are there,
    and it leads to everything that was written;
  - `CallsInv`: the same from the point of view of each call, stage by stage. An
    `Open()` has every entry in its version, in the tables it made or in logs it has
    not read (`OpeningInv`), and its MANIFEST says so before CURRENT names it; a
    flush or a merge deletes nothing that the table of its edit does not hold, and after
    a failed edit deletes nothing at all (`WorkingInv`); `RepairDB()` has each
    entry in a log, a table it has scanned or will scan, or in hand (`RepairInv`);
  - `AloneInv`: who repairs is alone, as `RepairDB()` asks of its callers.
  A step of one call leaves what the others rely on, since only one of them has
  the world or repairs it: what the others may still do is open, list and
  delete the LOCK file.

  Before it was proved, `WholeInv` (with bounded sets for `Nat`) was checked with TLC, on
  one handle with more calls than the run has: 3 opens, a write, 3 crashes and 2
  destructions (1.7 million states); 2 opens, 2 writes, 2 crashes and 2 repairs (456k); 3 opens, 2 writes, 2 crashes, a
  destruction and a repair (3.6 million).
* `WorldFilesProofs!WorldIsKeptUnlessDropped`: the same without a hypothesis: up to
  the first dropped lock (`~dropped`) a world has one owner by `OwnerInvariant`, so
  the three properties hold there.
* `CachesProofs!CachesInvariant`, `CachesAgreeAlways`, `ReadersHaveTheirBlocks`,
  `DeletedIsAlwaysClosed`, `CachesKeepToCapacity`: the four properties of `Caches`
  (`CachesAgree`, `ReadsItsBlock`, `DeletedIsClosed`, `GrowsWithinCapacity`) for any
  finite number of threads, any files, blocks, charges, limits and capacities. The
  first half is about one shard and any client: `ShardInv` says that the shard is in order for
  references `H` (how many the clients have to each handle), and each method
  of `LRUCache` has a lemma that takes it from one `H` to the next and says what
  it frees: nothing that somebody holds (`UnrefInv`, `EraseInv`, `InsertEntryInv`,
  `PruneInv`). While `Insert()` replaces an entry, one handle is in the cache and
  not in the table; `TableInv` has a place for it. `usage_` is a sum over the
  cache: that a member can be taken out of it first is proved by a set of least size
  for which it cannot (`ChargesWithout`), and so is the loop over `lru_` (`LoopInv`).
  The second half counts: `H` is the number of threads that hold a handle
  (`Count`). `ReadersInv` and `CachedInv` say that a cached table is that of the file
  that has its number now, because `DeleteTable` evicts it and waits for its
  readers; `OpenInv` that two open files never have the same id, whoever opens them
  and however often, and `BlocksInv` that a block has the content of the file that has its
  id, if that is still open. `LimitsInv` gives each Limiter what the open files of its kind lack.
* `WorldListProofs!ListInvariant`, `WorldsListedOnce`,
  `UndisturbedScansComplete`: what the last scan has yet to read, what it has
  queued and what is shown are disjoint (`ItemsInv`), because `isInit` is set
  as long as a scan is not over (`OneScanInv`); and together they are all
  readable worlds unless a refresh cleared the list or the permissions are missing.

Assumptions. `AckedWritesSurvive` has two (`MaxFaults = 0`, no crashes of the
machine) and `WaitersHaveACompaction` one (`MaxSuspends = 0`), each because the code
breaks the property without it. `AckedWritesStay` speaks of crashes of the
process only. Three theorems about `WorldFiles` suppose that no two calls own the
world at the same time (`[]NoTwoOwners`, the `OneOwner` of the runs): two owners
write one log and reuse each other's numbers, and nothing is promised. A world
gets two only after a dropped lock, and `WorldIsKeptUnlessDropped` needs no
hypothesis. All other theorems hold for every value of the constants that the
modules' ASSUMEs allow. Where the code breaks a promise, the property itself says up to
where it holds (`faults`, `flaws`, `dropped`, `disturbed`, the flaws of a compaction).

Only model-checked: all of `Storage` and `Paintings`, and all liveness (the
prover has neither `ENABLED` nor fairness). `NoAckedWriteLost` and
`SyncedWritesSurvive` do not hold with torn records. What the recursive operators of the format modules compute for
every input is out of the prover's reach: its induction theorems take an operator
as a parameter, and where a proof goes by the least counterexample instead, as
`LevelLimits`, `SumsExist` and `LoopExists` do, each function needs an argument of its own. No module that is proved
about, or used by one, declares a RECURSIVE operator; of `SequencesExt` and `Folds`
the proofs use `IsInjective`, `Range`, `ToSet`, `Max`, `RemoveAt`, and the definitions of the
folds and sums over a set or a list.

## 6. What is not modelled

Compressors, CRC and hash functions (libraries and arithmetic on bytes; that a
block is compressed is in `Caches`, a checksum is whether its bytes are whole);
the other platforms' Envs (not built); the C interface, the tools and the
in-memory Env (not linked by the app); the parsing of chunks (never called);
level.dat, which is only shown; the colors that Android gives to the pixels of a
scaled picture; layouts and animations; the tests and
benchmarks (read for what they promise).

Of parts that are modelled: `reuse_logs` and `ReuseManifest()` (off by default, and
the bindings do not turn them on), `GetProperty()`, the delay and the byte counts
between read samples of an iterator (a sample may be taken at any entry),
errors of reads below iterators, the level and content of repaired tables, the
buffer of a file being written, and the arrays that JNI copies. `PROJECT.json`
has this per component.
