------------------------------- MODULE Caches -------------------------------
(* How readers share open tables and blocks: db/table_cache.cc over one    *)
(* LRUCache, the blocks of table/table.cc over another, and the files of   *)
(* util/env_posix.cc, of which some are mapped, some keep a descriptor,    *)
(* and the rest is opened for each read, as two Limiters say.              *)
(*                                                                         *)
(* A file has a number and a content, which is never the same twice: a     *)
(* number may be used again when the world was closed in between, while    *)
(* the block cache, which belongs to the client, stays.                    *)
EXTENDS LRUCache

CONSTANTS
    Threads, Numbers, Offsets,
    Compressed,       \* the offsets whose blocks are compressed
    BlockCharge,      \* what a block is charged
    Capacities,       \* of the table cache and of the block cache
    MmapLimit, FdLimit,
    MaxContents,      \* bound: how many files are written
    MaxReads          \* bound: how many tables and blocks are looked for

ASSUME CachesAssumption ==
    /\ {MmapLimit, FdLimit, MaxContents, MaxReads} \subseteq Nat
    /\ IsFiniteSet(Threads)
    /\ Compressed \subseteq Offsets /\ BlockCharge \in [Offsets -> Nat \ {0}]
    /\ Capacities \subseteq [tables : Nat, blocks : Nat]

VARIABLES
    tables, blocks,   \* the two shards
    files,            \* the content of each file there is
    contents,         \* how many there have been
    mmaps, fds,       \* allowed_ of the two Limiters
    ids,              \* last_id_ of the block cache
    thread,           \* per thread: its call
    reads             \* how many more of them may be

cacheVars == <<tables, blocks>>
fileVars  == <<files, contents>>
limitVars == <<mmaps, fds, ids>>
cachesVars == <<cacheVars, fileVars, limitVars, thread, reads>>

Quiet == [pc |-> "none"]
Goes(t, to) ==
    thread' = [thread EXCEPT ![t] = [x \in DOMAIN to \cup DOMAIN @ |-> IF x \in DOMAIN to THEN to[x] ELSE @[x]]]

\* The Limiter that a file of this kind has taken from
MappedFiles(F) == Cardinality({f \in F : f.kind = "mmap"})
FdFiles(F)     == Cardinality({f \in F : f.kind = "fd"})

\* DeleteEntry() of the tables that a step has taken out of the cache, whose
\* files go back to their Limiters
Freed(c, d) == {c.handles[e].value : e \in DOMAIN c.handles \ DOMAIN d.handles}
CloseTables(d) ==
    /\ tables' = d
    /\ mmaps' = mmaps + MappedFiles(Freed(tables, d))
    /\ fds' = fds + FdFiles(Freed(tables, d))

----------------------------------------------------------------------------
(* Files                                                                   *)

\* A flush or a merge writes a table under a number that no file has.
NewTable(n) ==
    /\ n \notin DOMAIN files /\ contents < MaxContents
    /\ files' = Put(files, n, contents + 1) /\ contents' = contents + 1
    /\ UNCHANGED <<cacheVars, limitVars, thread, reads>>

InUse(n) == \E t \in Threads : thread[t].pc # "none" /\ thread[t].n = n

\* Mutant of Evicted: the table stays in the cache.
NotEvicted(n) == tables

Evicted(n) == Erase(tables, n)

\* DeleteObsoleteFiles(): a table that no version has any more
DeleteTable(n) ==
    /\ n \in DOMAIN files /\ ~InUse(n)
    /\ files' = Removed(files, n)
    /\ CloseTables(Evicted(n))
    /\ UNCHANGED <<blocks, contents, ids, thread, reads>>

----------------------------------------------------------------------------
(* Reading                                                                 *)

\* Get() or NewIterator() of a table of the version the thread has
StartRead(t, n) ==
    /\ thread[t] = Quiet /\ n \in DOMAIN files /\ reads > 0
    /\ reads' = reads - 1
    /\ thread' = [thread EXCEPT ![t] = [pc |-> "find", n |-> n, content |-> files[n]]]
    /\ UNCHANGED <<cacheVars, fileVars, limitVars>>

\* FindTable() has the table in the cache, or has to open it.
FindTable(t) ==
    LET n == thread[t].n
    IN  /\ thread[t].pc = "find"
        /\ IF Holds(tables.table, n)
           THEN /\ tables' = Lookup(tables, tables.table[n])
                /\ Goes(t, [pc |-> "read", th |-> tables.table[n]])
           ELSE Goes(t, [pc |-> "open"]) /\ UNCHANGED tables
        /\ UNCHANGED <<blocks, fileVars, limitVars, reads>>

\* Limiter::Acquire()
Acquired(limit) == IF limit > 0 THEN limit - 1 ELSE limit

\* NewRandomAccessFile(), and NewId() by Table::Open()
OpenFile(t) ==
    /\ thread[t].pc = "open"
    /\ mmaps' = Acquired(mmaps)
    /\ fds'   = IF mmaps = 0 THEN Acquired(fds) ELSE fds
    /\ ids' = ids + 1
    /\ Goes(t, [pc |-> "insert",
                file |-> [kind |-> IF mmaps > 0 THEN "mmap" ELSE IF fds > 0 THEN "fd" ELSE "temporary",
                          content |-> files[thread[t].n], id |-> ids']])
    /\ UNCHANGED <<cacheVars, fileVars, reads>>

\* Another thread may have opened it as well: the later one takes its place.
InsertTable(t) ==
    LET d == InsertEntry(tables, thread[t].n, thread[t].file, 1)
    IN  /\ thread[t].pc = "insert"
        /\ CloseTables(d)
        /\ Goes(t, [pc |-> "read", th |-> d.last])
        /\ UNCHANGED <<blocks, fileVars, ids, reads>>

\* Table::Open() fails: the file is closed.
OpenFails(t) ==
    LET F == {thread[t].file}
    IN  /\ thread[t].pc = "insert"
        /\ mmaps' = mmaps + MappedFiles(F) /\ fds' = fds + FdFiles(F)
        /\ thread' = [thread EXCEPT ![t] = Quiet]
        /\ UNCHANGED <<cacheVars, fileVars, ids, reads>>

TableOf(t) == tables.handles[thread[t].th].value

\* Mutant of BlockKey: blocks are known by the number of their file.
BlockKeyOfFile(t, off) == <<thread[t].n, off>>

BlockKey(t, off) == <<TableOf(t).id, off>>

\* BlockReader() of one block after the other
FindBlock(t, off) ==
    LET key == BlockKey(t, off)
    IN  /\ thread[t].pc = "read" /\ reads > 0
        /\ reads' = reads - 1
        /\ IF Holds(blocks.table, key)
           THEN /\ blocks' = Lookup(blocks, blocks.table[key])
                /\ Goes(t, [pc |-> "block", off |-> off, bh |-> {blocks.table[key]},
                            data |-> blocks.handles[blocks.table[key]].value])
           ELSE Goes(t, [pc |-> "load", off |-> off]) /\ UNCHANGED blocks
        /\ UNCHANGED <<tables, fileVars, limitVars>>

\* ReadBlock(): a block of a mapped file that is not compressed is read where
\* it is, any other is copied, and cached if the caller wants it.
\* A file without a descriptor of its own is opened by name for each read.
Read(t) == IF TableOf(t).kind = "temporary" THEN files[thread[t].n] ELSE TableOf(t).content
Copied(t) == TableOf(t).kind # "mmap" \/ thread[t].off \in Compressed

LoadBlock(t, fill) ==
    LET key  == BlockKey(t, thread[t].off)
        data == <<Read(t), thread[t].off>>
        d    == InsertEntry(blocks, key, data, BlockCharge[thread[t].off])
        kept == Copied(t) /\ fill
    IN  /\ thread[t].pc = "load"
        /\ blocks' = IF kept THEN d ELSE blocks
        /\ Goes(t, [pc |-> "block", data |-> data, bh |-> IF kept THEN {d.last} ELSE {}])
        /\ UNCHANGED <<tables, fileVars, limitVars, reads>>

\* The block iterator is deleted: ReleaseBlock() or DeleteBlock().
DropBlock(t) ==
    /\ thread[t].pc = "block"
    /\ blocks' = FoldSet(LAMBDA e, c : Unref(c, e), blocks, thread[t].bh)
    /\ Goes(t, [pc |-> "read", bh |-> {}])
    /\ UNCHANGED <<tables, fileVars, limitVars, reads>>

\* UnrefEntry(), or the end of Get()
EndRead(t) ==
    /\ thread[t].pc = "read"
    /\ CloseTables(Unref(tables, thread[t].th))
    /\ thread' = [thread EXCEPT ![t] = Quiet]
    /\ UNCHANGED <<blocks, fileVars, ids, reads>>

----------------------------------------------------------------------------
(* Cache::Prune() by the client, and the end of a world                    *)

PruneBlocks ==
    /\ blocks' = Prune(blocks) /\ blocks' # blocks
    /\ UNCHANGED <<tables, fileVars, limitVars, thread, reads>>

\* ~TableCache(): every iterator has been deleted.  The next Open() has a new
\* one and deletes what it finds obsolete without having opened it.
CloseWorld(F) ==
    /\ \A t \in Threads : thread[t] = Quiet
    /\ tables.last > 0
    /\ CloseTables(Shard(tables.capacity))
    /\ files' = [n \in DOMAIN files \ F |-> files[n]]
    /\ UNCHANGED <<blocks, contents, ids, thread, reads>>

CachesInit ==
    /\ \E c \in Capacities : tables = Shard(c.tables) /\ blocks = Shard(c.blocks)
    /\ files = <<>> /\ contents = 0 /\ mmaps = MmapLimit /\ fds = FdLimit /\ ids = 0
    /\ thread = [t \in Threads |-> Quiet] /\ reads = MaxReads

CachesNext ==
    \/ \E n \in Numbers : NewTable(n) \/ DeleteTable(n)
    \/ \E t \in Threads :
          \/ \E n \in Numbers : StartRead(t, n)
          \/ FindTable(t) \/ OpenFile(t) \/ InsertTable(t) \/ OpenFails(t)
          \/ \E off \in Offsets : FindBlock(t, off)
          \/ \E fill \in BOOLEAN : LoadBlock(t, fill)
          \/ DropBlock(t) \/ EndRead(t)
    \/ PruneBlocks
    \/ \E F \in SUBSET DOMAIN files : CloseWorld(F)

CachesSpec == CachesInit /\ [][CachesNext]_cachesVars

----------------------------------------------------------------------------
(* Properties                                                              *)

\* The references that threads have
TableHeld(e) == Cardinality({t \in Threads : "th" \in DOMAIN thread[t] /\ thread[t].th = e})
BlockHeld(e) == Cardinality({t \in Threads : "bh" \in DOMAIN thread[t] /\ e \in thread[t].bh})

\* In both caches the counts, the lists, the hash table and usage_ agree with
\* each other and with the references that the readers have.
CachesAgree == ShardOK(tables, TableHeld) /\ ShardOK(blocks, BlockHeld)

\* A cache grows beyond its capacity only while readers use all that is in it.
\* (What they release stays in it until the next insertion.)
GrowsWithin(c, d) == d.usage > c.usage => d.usage <= d.capacity \/ d.lru = <<>>
GrowsWithinCapacity == [][GrowsWithin(tables, tables') /\ GrowsWithin(blocks, blocks')]_cacheVars

\* A reader has the block it looked for: of the file it reads and no other one
\* that had its number, and nobody has freed the table under it.
ReadsItsBlock ==
    \A t \in Threads :
        /\ "th" \in DOMAIN thread[t] => /\ thread[t].th \in DOMAIN tables.handles
                                        /\ TableOf(t).content = thread[t].content
        /\ thread[t].pc = "block" => /\ thread[t].data = <<thread[t].content, thread[t].off>>
                                     /\ thread[t].bh \subseteq DOMAIN blocks.handles

\* What the tables that are open took from the two Limiters
OpenFiles == {[file |-> tables.handles[e].value, at |-> <<"cache", e>>] : e \in DOMAIN tables.handles}
             \cup {[file |-> thread[t].file, at |-> <<"thread", t>>] :
                      t \in {x \in Threads : thread[x].pc = "insert"}}
Taken(kind) == Cardinality({o \in OpenFiles : o.file.kind = kind})

\* A table that was deleted is not open any more, holding no descriptor, no
\* memory and no place on the disk; and what each Limiter still allows and what
\* the open tables have make up its limit, whoever released the last reference.
DeletedIsClosed ==
    /\ \A e \in DOMAIN tables.handles :
          tables.handles[e].value.content \in {files[n] : n \in DOMAIN files}
    /\ mmaps + Taken("mmap") = MmapLimit /\ fds + Taken("fd") = FdLimit
=============================================================================
