----------------------------- MODULE WorldFiles -----------------------------
(* The files of a world on the disk, and who may touch them: the LOCK file *)
(* of db/db_impl.cc and util/env_posix.cc, the steps of DB::Open() with    *)
(* NewDB(), VersionSet::Recover() and the installation of a new MANIFEST   *)
(* (db/version_set.cc, db/filename.cc), flushes and merges as far as they  *)
(* make and delete files, DestroyDB(), and RepairDB() (db/repair.cc).      *)
(*                                                                         *)
(* A table is the set of its entries, an entry its sequence number.  The   *)
(* threads of an open world are the subject of DBImpl; here its jobs come  *)
(* one after the other.  A step of Next is what happens between two        *)
(* changes of the directory, so that an end of the process finds each      *)
(* state of the disk there can be.                                         *)
EXTENDS Naturals, Sequences, FiniteSets, FiniteSetsExt, SequencesExt

CONSTANTS
    Processes, Handles,  \* a handle is a DB*, or a call of DestroyDB() or RepairDB()
    ProcessOf,           \* the process of each handle
    Budgets              \* bound: how much of everything there is

ASSUME WorldFilesAssumption ==
    /\ ProcessOf \in [Handles -> Processes]
    /\ Budgets \subseteq [{"opens", "writes", "crashes", "faults", "damages",
                           "destroys", "repairs"} -> Nat]

VARIABLES
    lock,        \* the LOCK file: is it there, and which inode
    fcntl,       \* <<process, inode>>: the record locks of the kernel
    locked,      \* the processes whose locks_ holds the name of the LOCK
    manifests, current, temps, logs, tables,   \* the other files
    db,          \* per handle: where its call is, and its VersionSet
    acked, safe, \* entries written, and those among them written with sync
    undone,      \* a DestroyDB() or RepairDB() has begun and not ended
    dropped,     \* a lock was lost: see OneOwnerUnlessDropped
    budget

lockVars  == <<lock, fcntl, locked, dropped>>
tableVars == <<logs, tables>>
nameVars  == <<manifests, current, temps>>
diskVars  == <<nameVars, tableVars>>
goalVars  == <<acked, safe, undone>>
vars == <<lockVars, diskVars, db, goalVars, budget>>

Gone     == [pc |-> "none"]
At(h, pc)  == db[h].pc = pc
Changed(f, to) == [x \in DOMAIN f \cup DOMAIN to |-> IF x \in DOMAIN to THEN to[x] ELSE f[x]]
Step(h, to) == db' = [db EXCEPT ![h] = Changed(@, to)]
Spend(what) == budget[what] > 0 /\ budget' = [budget EXCEPT ![what] = @ - 1]
Without(f, n) == [x \in DOMAIN f \ {n} |-> f[x]]
With(f, n, file) == [x \in DOMAIN f \cup {n} |-> IF x = n THEN file ELSE f[x]]
NewLog   == [ents |-> <<>>, synced |-> 0]
Whole(E) == [ents |-> E, ok |-> TRUE, synced |-> TRUE]
Torn     == [ents |-> {}, ok |-> FALSE, synced |-> FALSE]
EntriesOf(F) == UNION {tables[n].ents : n \in F}

----------------------------------------------------------------------------
(* MANIFESTs                                                               *)

\* The records: WriteSnapshot() writes only files, the others all numbers too.
Record(adds, dels) == [adds |-> adds, dels |-> dels, full |-> FALSE]
FullRecord(adds, dels, log, next, last) ==
    [adds |-> adds, dels |-> dels, full |-> TRUE, log |-> log, next |-> next, last |-> last]

\* The files of the Builder of Recover(): those that a record adds and no later
\* one deletes
LiveFiles(recs) ==
    UNION {{n \in recs[i].adds : \A j \in i + 1..Len(recs) : n \notin recs[j].dels}
             : i \in 1..Len(recs)}

\* ... and the numbers it has found, which are those of the last record with any
Replay(recs) ==
    LET full == {i \in 1..Len(recs) : recs[i].full}
    IN  IF full = {}
        THEN [files |-> LiveFiles(recs), full |-> FALSE, log |-> 0, next |-> 0, last |-> 0]
        ELSE LET r == recs[Max(full)]
             IN  [files |-> LiveFiles(recs), full |-> TRUE, log |-> r.log, next |-> r.next,
                  last |-> r.last]

Contents(ms, n) == IF n \in DOMAIN ms THEN Replay(ms[n].recs) ELSE Replay(<<>>)

\* The entries that the files hold, as Open() would find them
Recoverable(ms, cur, ls, ts) ==
    LET s == Contents(ms, cur)
    IN  IF ~s.full THEN {}
        ELSE (UNION {ts[n].ents : n \in s.files \cap DOMAIN ts})
             \cup (UNION {ToSet(ls[n].ents) : n \in {x \in DOMAIN ls : x >= s.log}})

\* What a machine that stops leaves of a file: all, if it is in kept, or the
\* part that was synced
Cut(f, part, kept) ==
    [n \in DOMAIN f |->
        LET left == IF n \in kept THEN f[n][part] ELSE SubSeq(f[n][part], 1, f[n].synced)
        IN  [f[n] EXCEPT ![part] = left, !.synced = Len(left)]]
CutTables(kept) ==
    [n \in DOMAIN tables |-> IF n \in kept \/ tables[n].synced
                             THEN [tables[n] EXCEPT !.synced = TRUE] ELSE Torn]

\* ... and what is sure to be found after a stop of the machine: the synced part
\* of the logs, and the tables that are synced and can be read to the end
SureTables == [n \in DOMAIN tables |-> IF tables[n].ok /\ tables[n].synced THEN tables[n] ELSE Torn]
OnDisk(ms) == Recoverable(ms, current, Cut(logs, "ents", {}), SureTables)

----------------------------------------------------------------------------
(* LOCK                                                                    *)

\* open() with O_CREAT
Inode == IF lock.exists THEN lock.ino ELSE lock.ino + 1

OpenLock(h, call) ==
    /\ lock' = [exists |-> TRUE, ino |-> Inode]
    /\ db' = [db EXCEPT ![h] = Changed(call, [pc |-> "insert", fd |-> Inode])]
    /\ UNCHANGED <<fcntl, locked, dropped>>

\* locks_.Insert(), which refuses a process that has the name already
InsertLock(h) ==
    LET p == ProcessOf[h]
    IN  /\ At(h, "insert")
        /\ \/ p \in locked /\ Step(h, [pc |-> "close"]) /\ UNCHANGED locked
           \/ p \notin locked /\ Step(h, [pc |-> "fcntl"]) /\ locked' = locked \cup {p}
        /\ UNCHANGED <<lock, fcntl, dropped, diskVars, goalVars, budget>>

\* Mutant of LockedByOther: relies on locks_ alone.
NotLocked(p, fd) == FALSE

LockedByOther(p, fd) == \E q \in Processes \ {p} : <<q, fd>> \in fcntl

\* fcntl(F_SETLK) of the file that was opened, which need not be the LOCK file
\* any more.  DestroyDB() goes on to delete the files it has listed.
SetLock(h) ==
    LET d == db[h]
        p == ProcessOf[h]
    IN  /\ At(h, "fcntl") /\ ~LockedByOther(p, d.fd)
        /\ fcntl' = fcntl \cup {<<p, d.fd>>}
        /\ dropped' = (dropped \/ lock # [exists |-> TRUE, ino |-> d.fd])
        /\ IF "list" \in DOMAIN d
           THEN /\ db' = [db EXCEPT ![h] = [pc |-> "destroy", ino |-> d.fd, list |-> d.list]]
                /\ acked' = {} /\ safe' = {} /\ undone' = TRUE
           ELSE db' = [db EXCEPT ![h] = [pc |-> "locked", ino |-> d.fd]] /\ UNCHANGED goalVars
        /\ UNCHANGED <<lock, locked, diskVars, budget>>

\* ... or fails: close() and locks_.Remove(), in one step, for as long as the name
\* is in locks_ no other thread of the process has a record lock to lose.
SetLockFails(h) ==
    LET p == ProcessOf[h]
    IN  /\ At(h, "fcntl") /\ LockedByOther(p, db[h].fd)
        /\ fcntl' = fcntl \ {<<p, db[h].fd>>} /\ locked' = locked \ {p}
        /\ db' = [db EXCEPT ![h] = Gone]
        /\ UNCHANGED <<lock, dropped, diskVars, goalVars, budget>>

\* fcntl() and locks_.Remove(), in one step, for in between nobody can lock but
\* another process, which does not see the difference.  The close() comes after.
UnlockFile(h, then) ==
    /\ fcntl' = fcntl \ {<<ProcessOf[h], db[h].ino>>}
    /\ locked' = locked \ {ProcessOf[h]}
    /\ db' = [db EXCEPT ![h] = [pc |-> then, fd |-> @.ino]]
    /\ UNCHANGED <<lock, dropped>>

\* The close() of a LockFile() that locks_ refused, or of UnlockFile(), takes the
\* record locks of the process on this file along, those of its other threads too.
CloseLock(h) ==
    LET l == <<ProcessOf[h], db[h].fd>>
    IN  /\ db[h].pc \in {"close", "destroyed"}
        /\ fcntl' = fcntl \ {l}
        /\ dropped' = (dropped \/ l \in fcntl)
        /\ db' = [db EXCEPT ![h] = IF @.pc = "close" THEN Gone ELSE [pc |-> "unlink"]]
        /\ UNCHANGED <<lock, locked, diskVars, goalVars, budget>>

Repairing == \E h \in Handles : "retire" \in DOMAIN db[h]

\* ~DBImpl(), of a world or of an Open() that has failed
Destruct(h) == UnlockFile(h, "close")

----------------------------------------------------------------------------
(* DB::Open()                                                              *)

Open(h) ==
    /\ db[h] = Gone /\ ~Repairing /\ Spend("opens")
    /\ OpenLock(h, Gone)
    /\ UNCHANGED <<diskVars, goalVars>>

\* The MANIFEST of NewDB() is closed but not synced.
NewDB(h) ==
    /\ At(h, "locked") /\ current = 0
    /\ manifests' = With(manifests, 1, [recs |-> <<FullRecord({}, {}, 0, 2, 0)>>, synced |-> 0])
    /\ Step(h, [pc |-> "temp", why |-> "new", mfile |-> 1])
    /\ UNCHANGED <<lockVars, current, temps, tableVars, goalVars, budget>>

Parsed == DOMAIN tables \cup DOMAIN logs \cup DOMAIN manifests \cup temps

\* VersionSet::Recover(), and what Recover() finds in the directory: any file
\* of the number of a table counts for it.  After a DestroyDB() or RepairDB()
\* that was cut off the entries are those that this Open() finds.
ReadManifest(h) ==
    LET s == Contents(manifests, current)
    IN  /\ At(h, "locked") /\ current # 0
        /\ IF s.full /\ s.files \subseteq Parsed
           THEN /\ Step(h, [mfile |-> s.next, next |-> s.next + 1,
                        pc |-> "logs", why |-> "open", files |-> s.files, log |-> s.log,
                        last |-> s.last, mem |-> {}, adds |-> {}, dels |-> {}, err |-> FALSE,
                        todo |-> {n \in DOMAIN logs : n >= s.log}])
                /\ IF undone
                   THEN /\ acked' = acked \cap Recoverable(manifests, current, logs, tables)
                        /\ safe' = safe \cap acked' \cap OnDisk(manifests)
                   ELSE UNCHANGED <<acked, safe>>
                /\ UNCHANGED lockVars
           ELSE Destruct(h) /\ UNCHANGED <<acked, safe>>
        /\ UNCHANGED <<diskVars, undone, budget>>

\* RecoverLogFile() of the oldest log: its entries become a table.
RecoverLog(h) ==
    LET d == db[h]
        n == Min(d.todo)
        E == ToSet(logs[n].ents)
        next == IF E = {} THEN d.next ELSE d.next + 1
    IN  /\ At(h, "logs") /\ d.todo # {}
        /\ tables' = IF E = {} THEN tables ELSE With(tables, d.next, Whole(E))
        /\ Step(h, [todo |-> d.todo \ {n}, last |-> Max({d.last} \cup E),
                    adds |-> IF E = {} THEN d.adds ELSE d.adds \cup {d.next},
                    next |-> Max({next, n + 1})])
        /\ UNCHANGED <<lockVars, nameVars, logs, goalVars, budget>>

NewLogFile(h, pc) ==
    /\ logs' = With(logs, db[h].next, NewLog)
    /\ Step(h, [pc |-> pc, log |-> db[h].next, next |-> db[h].next + 1])

OpenLog(h) ==
    /\ At(h, "logs") /\ db[h].todo = {}
    /\ NewLogFile(h, "snapshot")
    /\ UNCHANGED <<lockVars, nameVars, tables, goalVars, budget>>

\* LogAndApply() of a world that has just been opened begins a new MANIFEST.
WriteSnapshot(h) ==
    /\ At(h, "snapshot")
    /\ manifests' = With(manifests, db[h].mfile,
                         [recs |-> <<Record(db[h].files, {})>>, synced |-> 0])
    /\ Step(h, [pc |-> "edit"])
    /\ UNCHANGED <<lockVars, current, temps, tableVars, goalVars, budget>>

\* Mutant of LoggedEdit: the record does not reach the disk.
LoggedUnsynced(m, rec) == [m EXCEPT !.recs = Append(@, rec)]

\* AddRecord() and Sync()
LoggedEdit(m, rec) == [recs |-> Append(m.recs, rec), synced |-> Len(m.recs) + 1]

EditOf(d) == FullRecord(d.adds, d.dels, d.log, d.next, d.last)

LogEdit(h) ==
    LET d == db[h]
    IN  /\ At(h, "edit")
        /\ manifests' = [manifests EXCEPT ![d.mfile] = LoggedEdit(@, EditOf(d))]
        /\ Step(h, [pc |-> IF d.why = "open" THEN "temp" ELSE "clean",
                    files |-> (d.files \ d.dels) \cup d.adds])
        /\ UNCHANGED <<lockVars, current, temps, tableVars, goalVars, budget>>

\* Either call fails: nobody knows whether the record is in the file.  A new
\* MANIFEST goes; in an open world it is a background error.
EditFails(h) ==
    LET d == db[h]
    IN  /\ At(h, "edit") /\ Spend("faults")
        /\ IF d.why = "open"
           THEN manifests' = Without(manifests, d.mfile) /\ Destruct(h)
           ELSE /\ \/ UNCHANGED manifests
                   \/ manifests' = [manifests EXCEPT ![d.mfile].recs = Append(@, EditOf(d))]
                /\ Step(h, [pc |-> "open", err |-> TRUE])
                /\ UNCHANGED lockVars
        /\ UNCHANGED <<current, temps, tableVars, goalVars>>

\* SetCurrentFile(): a synced temporary file, which is then renamed
WriteTemp(h) ==
    /\ At(h, "temp")
    /\ temps' = temps \cup {db[h].mfile}
    /\ Step(h, [pc |-> "rename"])
    /\ UNCHANGED <<lockVars, manifests, current, tableVars, goalVars, budget>>

\* After a DestroyDB() or RepairDB() that was cut off the world that has been
\* opened is one like any other, unless a table of it is missing or holds what
\* was written later than the MANIFEST says.
Sound(d) == d.files \subseteq DOMAIN tables /\ \A e \in EntriesOf(d.files) : e <= d.last

RenameTemp(h) ==
    /\ At(h, "rename")
    /\ current' = db[h].mfile /\ temps' = temps \ {db[h].mfile}
    /\ \/ db[h].why = "new" /\ Step(h, [pc |-> "locked"]) /\ UNCHANGED undone
       \/ /\ db[h].why = "open" /\ Step(h, [pc |-> "clean"])
          /\ undone' = (undone /\ ~Sound(db[h]))
       \/ db[h].why = "repair" /\ db' = [db EXCEPT ![h] = Gone] /\ undone' = FALSE
    /\ UNCHANGED <<lockVars, manifests, tableVars, acked, safe, budget>>

SetCurrentFails(h) ==
    /\ db[h].pc \in {"temp", "rename"} /\ Spend("faults")
    /\ temps' = temps \ {db[h].mfile}
    /\ manifests' = IF db[h].why = "open" THEN Without(manifests, db[h].mfile) ELSE manifests
    /\ IF db[h].why = "repair" THEN db' = [db EXCEPT ![h] = Gone] /\ UNCHANGED lockVars
       ELSE Destruct(h)
    /\ UNCHANGED <<current, tableVars, goalVars>>

\* Mutant of OldLogs: the log of the last memtable goes too.
AllLogs(d) == {n \in DOMAIN logs : n <= d.log}

\* What DeleteObsoleteFiles() deletes, in whatever order the directory has
OldLogs(d)   == {n \in DOMAIN logs : n < d.log}
OldTables(d) == DOMAIN tables \ d.files
OldManifests(d) == {n \in DOMAIN manifests : n < d.mfile}

DeleteObsoleteFile(h) ==
    /\ At(h, "clean")
    /\ \/ \E n \in OldLogs(db[h]) : logs' = Without(logs, n) /\ UNCHANGED <<nameVars, tables>>
       \/ \E n \in OldTables(db[h]) : tables' = Without(tables, n) /\ UNCHANGED <<nameVars, logs>>
       \/ \E n \in OldManifests(db[h]) :
             manifests' = Without(manifests, n) /\ UNCHANGED <<current, temps, tableVars>>
       \/ \E n \in temps : temps' = temps \ {n} /\ UNCHANGED <<manifests, current, tableVars>>
    /\ UNCHANGED <<lockVars, db, goalVars, budget>>

\* The end of Open(), or of a background job
EndClean(h) ==
    /\ At(h, "clean")
    /\ OldLogs(db[h]) \cup OldTables(db[h]) \cup OldManifests(db[h]) \cup temps = {}
    /\ Step(h, [pc |-> "open", adds |-> {}, dels |-> {}])
    /\ UNCHANGED <<lockVars, diskVars, goalVars, budget>>

----------------------------------------------------------------------------
(* An open world                                                           *)

Write(h, sync) ==
    LET d == db[h]
        e == d.last + 1
        l == logs[d.log]
    IN  /\ At(h, "open") /\ ~d.err /\ Spend("writes")
        /\ logs' = [logs EXCEPT ![d.log] =
                       [ents |-> Append(l.ents, e),
                        synced |-> IF sync THEN Len(l.ents) + 1 ELSE l.synced]]
        /\ Step(h, [last |-> e, mem |-> d.mem \cup {e}])
        /\ acked' = acked \cup {e}
        /\ safe' = IF sync THEN safe \cup {e} ELSE safe
        /\ UNCHANGED <<lockVars, nameVars, tables, undone>>

\* A new log; then a table of imm_
SwitchLog(h) ==
    /\ At(h, "open") /\ ~db[h].err /\ db[h].mem # {}
    /\ NewLogFile(h, "flush")
    /\ UNCHANGED <<lockVars, nameVars, tables, goalVars, budget>>

StartMerge(h) ==
    /\ At(h, "open") /\ ~db[h].err /\ Cardinality(db[h].files) > 1
    /\ \A n \in db[h].files : n \in DOMAIN tables /\ tables[n].ok
    /\ Step(h, [pc |-> "merge", dels |-> db[h].files])
    /\ UNCHANGED <<lockVars, diskVars, goalVars, budget>>

BuildTable(h) ==
    LET d == db[h]
        E == IF d.pc = "flush" THEN d.mem ELSE EntriesOf(d.dels)
    IN  /\ d.pc \in {"flush", "merge"}
        /\ tables' = With(tables, d.next, Whole(E))
        /\ Step(h, [pc |-> "edit", why |-> "job", adds |-> {d.next}, next |-> d.next + 1,
                    mem |-> IF d.pc = "flush" THEN {} ELSE d.mem])
        /\ UNCHANGED <<lockVars, nameVars, logs, goalVars, budget>>

Close(h) ==
    /\ At(h, "open") /\ Destruct(h)
    /\ UNCHANGED <<diskVars, goalVars, budget>>

----------------------------------------------------------------------------
(* DestroyDB()                                                             *)

\* The directory is listed before the lock is taken.
Listing == [manifests |-> DOMAIN manifests, current |-> current # 0, temps |-> temps,
            logs |-> DOMAIN logs, tables |-> DOMAIN tables]

ListFiles(h) ==
    /\ db[h] = Gone /\ ~Repairing /\ Spend("destroys")
    /\ db' = [db EXCEPT ![h] = [pc |-> "listed", list |-> Listing]]
    /\ UNCHANGED <<lockVars, diskVars, goalVars>>

LockToDestroy(h) ==
    /\ At(h, "listed")
    /\ OpenLock(h, db[h])
    /\ UNCHANGED <<diskVars, goalVars, budget>>

DestroyFile(h) ==
    LET list == db[h].list
    IN  /\ At(h, "destroy")
        /\ \/ /\ list.current /\ current # 0 /\ current' = 0
              /\ UNCHANGED <<manifests, temps, tableVars>>
           \/ \E n \in list.manifests \cap DOMAIN manifests :
                 manifests' = Without(manifests, n) /\ UNCHANGED <<current, temps, tableVars>>
           \/ \E n \in list.temps \cap temps :
                 temps' = temps \ {n} /\ UNCHANGED <<manifests, current, tableVars>>
           \/ \E n \in list.logs \cap DOMAIN logs :
                 logs' = Without(logs, n) /\ UNCHANGED <<nameVars, tables>>
           \/ \E n \in list.tables \cap DOMAIN tables :
                 tables' = Without(tables, n) /\ UNCHANGED <<nameVars, logs>>
        /\ UNCHANGED <<lockVars, db, goalVars, budget>>

Destroyed(list) ==
    /\ ~(list.current /\ current # 0)
    /\ list.manifests \cap DOMAIN manifests = {} /\ list.temps \cap temps = {}
    /\ list.logs \cap DOMAIN logs = {} /\ list.tables \cap DOMAIN tables = {}

EndDestroy(h) ==
    /\ At(h, "destroy") /\ Destroyed(db[h].list)
    /\ UnlockFile(h, "destroyed")
    /\ UNCHANGED <<diskVars, goalVars, budget>>

\* The LOCK file goes after it was unlocked: somebody may have locked it.
DeleteLock(h) ==
    /\ At(h, "unlink")
    /\ lock' = [lock EXCEPT !.exists = FALSE]
    /\ dropped' = (dropped \/ \E p \in Processes : <<p, lock.ino>> \in fcntl)
    /\ db' = [db EXCEPT ![h] = Gone]
    /\ UNCHANGED <<fcntl, locked, diskVars, goalVars, budget>>

----------------------------------------------------------------------------
(* RepairDB(), which takes no lock: the client must not have the world open *)

FindFiles(h) ==
    /\ \A g \in Handles : db[g] = Gone
    /\ Spend("repairs")
    /\ db' = [db EXCEPT ![h] =
                 [pc |-> "convert", todo |-> DOMAIN logs, scan |-> DOMAIN tables, good |-> {},
                  retire |-> DOMAIN manifests,
                  next |-> Max(DOMAIN logs \cup DOMAIN tables \cup temps \cup {0}) + 1]]
    /\ undone' = TRUE
    /\ UNCHANGED <<lockVars, diskVars, acked, safe>>

ConvertLogToTable(h) ==
    LET d == db[h]
    IN  /\ At(h, "convert")
        /\ \E n \in d.todo :
              LET E == ToSet(logs[n].ents)
              IN  /\ tables' = IF E = {} THEN tables ELSE With(tables, d.next, Whole(E))
                  /\ Step(h, [pc |-> "archive", todo |-> d.todo \ {n}, log |-> n,
                              scan |-> IF E = {} THEN d.scan ELSE d.scan \cup {d.next},
                              next |-> d.next + 1])
        /\ UNCHANGED <<lockVars, nameVars, logs, goalVars, budget>>

ArchiveLog(h) ==
    /\ At(h, "archive")
    /\ logs' = Without(logs, db[h].log)
    /\ Step(h, [pc |-> "convert"])
    /\ UNCHANGED <<lockVars, nameVars, tables, goalVars, budget>>

\* A table that cannot be read to its end is copied as far as it can, ...
ScanTable(h) ==
    LET d == db[h]
    IN  /\ At(h, "convert") /\ d.todo = {}
        /\ \E n \in d.scan :
              \/ /\ tables[n].ok
                 /\ Step(h, [scan |-> d.scan \ {n}, good |-> d.good \cup {n}])
                 /\ UNCHANGED tables
              \/ /\ ~tables[n].ok
                 /\ tables' = With(tables, d.next, Torn)
                 /\ Step(h, [pc |-> "torn", next |-> d.next + 1,
                             table |-> n, copy |-> d.next, ents |-> tables[n].ents])
        /\ UNCHANGED <<lockVars, nameVars, logs, goalVars, budget>>

\* ... and archived before the copy is finished.
ArchiveTable(h) ==
    LET d == db[h]
    IN  /\ At(h, "torn")
        /\ tables' = Without(tables, d.table)
        /\ Step(h, [pc |-> "copy", scan |-> d.scan \ {d.table}])
        /\ UNCHANGED <<lockVars, nameVars, logs, goalVars, budget>>

\* The copy takes the place of the table; it is not synced.  An empty one
\* stays behind under its own number.
Repaired(d) == IF d.ents = {} THEN tables
               ELSE With(Without(tables, d.copy), d.table,
                         [ents |-> d.ents, ok |-> TRUE, synced |-> FALSE])

RepairTable(h) ==
    LET d == db[h]
    IN  /\ At(h, "copy")
        /\ tables' = Repaired(d)
        /\ Step(h, [pc |-> "convert", good |-> IF d.ents = {} THEN d.good
                                              ELSE d.good \cup {d.table}])
        /\ UNCHANGED <<lockVars, nameVars, logs, goalVars, budget>>

WriteDescriptor(h) ==
    /\ At(h, "convert") /\ db[h].todo = {} /\ db[h].scan = {}
    /\ temps' = temps \cup {1}
    /\ Step(h, [pc |-> "retire"])
    /\ UNCHANGED <<lockVars, manifests, current, tableVars, goalVars, budget>>

ArchiveManifest(h) ==
    /\ At(h, "retire")
    /\ \E n \in db[h].retire :
          /\ manifests' = Without(manifests, n)
          /\ Step(h, [retire |-> db[h].retire \ {n}])
    /\ UNCHANGED <<lockVars, current, temps, tableVars, goalVars, budget>>

\* Mutant of Descriptor: the last sequence number is not looked for.
DescriptorOfTables(good, next) == FullRecord(good, {}, 0, next, 0)

Descriptor(good, next) == FullRecord(good, {}, 0, next, Max(EntriesOf(good) \cup {0}))

InstallDescriptor(h) ==
    LET d == db[h]
    IN  /\ At(h, "retire") /\ d.retire = {}
        /\ temps' = temps \ {1}
        /\ manifests' = With(manifests, 1, [recs |-> <<Descriptor(d.good, d.next)>>, synced |-> 0])
        /\ Step(h, [pc |-> "temp", why |-> "repair", mfile |-> 1])
        /\ UNCHANGED <<lockVars, current, tableVars, goalVars, budget>>

----------------------------------------------------------------------------
(* Faults                                                                  *)

\* An end of the process in BuildTable() leaves a torn table.
Building(d) == \/ d.pc \in {"flush", "merge"}
               \/ d.pc \in {"logs", "convert"} /\ d.todo # {}

\* What RepairTable() has archived and not yet finished to copy is lost.
Archived(d) == IF d.pc = "copy" THEN d.ents ELSE {}

Crash(p) ==
    LET dead == {h \in Handles : ProcessOf[h] = p}
    IN  /\ \E h \in dead : db[h] # Gone
        /\ Spend("crashes")
        /\ \/ UNCHANGED tables
           \/ \E h \in dead : Building(db[h]) /\ tables' = With(tables, db[h].next, Torn)
        /\ db' = [h \in Handles |-> IF h \in dead THEN Gone ELSE db[h]]
        /\ fcntl' = {l \in fcntl : l[1] # p} /\ locked' = locked \ {p}
        /\ acked' = acked \ UNION {Archived(db[h]) : h \in dead}
        /\ safe' = safe \cap acked'
        /\ UNCHANGED <<lock, dropped, nameVars, logs, undone>>

Unsynced(f, part) == {n \in DOMAIN f : f[n].synced < Len(f[n][part])}

MachineCrash ==
    /\ \E h \in Handles : db[h] # Gone
    /\ Spend("crashes")
    /\ \E kept \in SUBSET Unsynced(logs, "ents") : logs' = Cut(logs, "ents", kept)
    /\ \E kept \in SUBSET Unsynced(manifests, "recs") : manifests' = Cut(manifests, "recs", kept)
    /\ \E kept \in SUBSET {n \in DOMAIN tables : ~tables[n].synced} : tables' = CutTables(kept)
    /\ db' = [h \in Handles |-> Gone] /\ fcntl' = {} /\ locked' = {}
    /\ acked' = acked \cap Recoverable(manifests', current, logs', tables')
    /\ safe' = safe \cap acked'
    /\ UNCHANGED <<lock, dropped, current, temps, undone>>

\* A table can be read in part only; nothing is promised for its entries.
Damage(n) ==
    /\ \A h \in Handles : db[h] = Gone
    /\ tables[n].ok /\ Spend("damages")
    /\ \E E \in (SUBSET tables[n].ents) \ {tables[n].ents} :
          /\ tables' = [tables EXCEPT ![n].ents = E, ![n].ok = FALSE]
          /\ acked' = acked \ (tables[n].ents \ E)
    /\ safe' = safe \ tables[n].ents
    /\ UNCHANGED <<lockVars, nameVars, logs, db, undone>>

----------------------------------------------------------------------------
Init ==
    /\ lock = [exists |-> FALSE, ino |-> 0] /\ fcntl = {} /\ locked = {}
    /\ manifests = <<>> /\ current = 0 /\ temps = {} /\ logs = <<>> /\ tables = <<>>
    /\ db = [h \in Handles |-> Gone]
    /\ acked = {} /\ safe = {} /\ undone = FALSE /\ dropped = FALSE
    /\ budget \in Budgets

\* who has got the lock
Owners == {h \in Handles : "ino" \in DOMAIN db[h]}

OpenStep(h) == \/ Open(h) \/ NewDB(h) \/ ReadManifest(h) \/ RecoverLog(h) \/ OpenLog(h)
               \/ WriteSnapshot(h) \/ LogEdit(h) \/ EditFails(h)
               \/ WriteTemp(h) \/ RenameTemp(h) \/ SetCurrentFails(h)
               \/ DeleteObsoleteFile(h) \/ EndClean(h)
LockStep(h) == InsertLock(h) \/ SetLock(h) \/ SetLockFails(h) \/ CloseLock(h)
WorldStep(h) == \/ \E sync \in BOOLEAN : Write(h, sync)
                \/ SwitchLog(h) \/ StartMerge(h) \/ BuildTable(h) \/ Close(h)
DestroyStep(h) == ListFiles(h) \/ LockToDestroy(h) \/ DestroyFile(h) \/ EndDestroy(h) \/ DeleteLock(h)
RepairStep(h) == \/ FindFiles(h) \/ ConvertLogToTable(h) \/ ArchiveLog(h) \/ ScanTable(h)
                 \/ ArchiveTable(h) \/ RepairTable(h) \/ WriteDescriptor(h) \/ ArchiveManifest(h) \/ InstallDescriptor(h)

Next ==
    \/ \E h \in Handles : OpenStep(h) \/ LockStep(h) \/ WorldStep(h) \/ DestroyStep(h) \/ RepairStep(h)
    \/ \E p \in Processes : Crash(p)
    \/ MachineCrash
    \/ \E n \in DOMAIN tables : Damage(n)

Spec == Init /\ [][Next]_vars

----------------------------------------------------------------------------
(* Properties                                                              *)

\* At any step of an Open(), a flush, a merge and their clean-up, the entries
\* that were written are in files that CURRENT leads to; those written with
\* sync even if the machine stops now.  (While DestroyDB() or RepairDB() is
\* under way, or when it was cut off, the world need not be in order.  The
\* MANIFEST-000001 of a repair is not synced.)
NothingIsLost ==
    ~undone => /\ acked \subseteq Recoverable(manifests, current, logs, tables)
               /\ current # 1 => safe \subseteq OnDisk(Cut(manifests, "recs", {}))

\* The MANIFEST that CURRENT names says where the log begins and which numbers
\* are taken, on the disk too, and the tables it names are there: the next
\* Open() does not fail.
CurrentIsWhole ==
    (~undone /\ current > 1) =>
        LET s == Contents(Cut(manifests, "recs", {}), current)
        IN  s.full /\ s.files \subseteq DOMAIN tables

\* A world that is open gives out no number twice: no entry it holds has a
\* later sequence number, no file that it needs a later file number.
NumbersAreFresh ==
    \A h \in Handles : db[h].pc \in {"clean", "open"} =>
        /\ ~undone =>
              \A e \in Recoverable(manifests, current, logs, tables) : e <= db[h].last
        /\ \A n \in db[h].files \cup {db[h].log, db[h].mfile} : n < db[h].next
        /\ current = db[h].mfile

\* A world has one owner at a time, unless the owner's record lock was dropped or
\* is not on the LOCK file that is there.  The ways to that are: the close() of a
\* second LockFile() of the same process that locks_ refused; the close() in
\* UnlockFile() after locks_.Remove(), when another thread of the process has
\* locked the file in between; and the deletion of the LOCK by DestroyDB() after
\* somebody else has locked it, or between his open() and his fcntl().
OneOwnerUnlessDropped == ~dropped => Cardinality(Owners) <= 1
=============================================================================
