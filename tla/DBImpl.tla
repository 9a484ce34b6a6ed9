------------------------------- MODULE DBImpl -------------------------------
(* The write path of the LevelDB engine that the app bundles               *)
(* (db/db_impl.cc): the queue of writers and group commit, the write-ahead *)
(* log, the switch of memtables, the background thread that turns a full   *)
(* memtable into a table, suspend/resume, close, crashes of the process or *)
(* of the machine, and recovery from MANIFEST and logs.                    *)
(*                                                                         *)
(* A WriteBatch is one of the model values Ops and takes one sequence      *)
(* number; a table is the set of entries in it.  Every region that runs    *)
(* under mutex_ without releasing it is one step, or several steps during  *)
(* which mutex_ names the thread.                                          *)
EXTENDS Naturals, Sequences, FiniteSets

CONSTANTS
    Writers,      \* threads that call Write()
    Ops,          \* the batches that are ever written, each at most once
    SyncOps,      \* those written with WriteOptions.sync
    NullOps,      \* calls of Write(NULL) made by TEST_CompactMemTable()
    NoOp, Free,   \* no batch; mutex_ held by nobody
    WriteBuffer,  \* options_.write_buffer_size, in entries
    L0Trigger, L0Slowdown, L0Stop,   \* config::kL0_...Trigger
    MaxOpens, MaxFaults, MaxSuspends, MaxOutputs, MachineCrashes  \* bounds

ASSUME DBImplAssumption ==
    /\ SyncOps \subseteq Ops /\ NullOps \subseteq Ops
    /\ NoOp \notin Ops /\ Free \notin Writers
    /\ WriteBuffer \in Nat
    /\ L0Trigger \in Nat /\ L0Slowdown \in Nat /\ L0Stop \in Nat
    /\ MaxOpens \in Nat /\ MaxFaults \in Nat /\ MaxSuspends \in Nat
    /\ MaxOutputs \in Nat /\ MachineCrashes \in BOOLEAN

VARIABLES
    \* the queue of writers
    mutex_, wr, writers_, group,
    \* what the DBImpl and its VersionSet hold in memory
    phase, mem_, imm_, has_imm_, logfile_number_,
    lastSequence, nextFile, logNumber, tables, l0,
    bg_error_, suspending_, shutting_,
    \* the background thread
    bg, edit,
    \* the files
    walFiles, wal, durable, torn, manifest, manifestTorn,
    \* history of the calls, for the properties, and the budgets
    result, acked, promised, before, opens, faults, suspends

queueVars == <<mutex_, wr, writers_, group>>
memVars   == <<mem_, imm_, has_imm_, logfile_number_>>
verVars   == <<lastSequence, nextFile, logNumber, tables, l0>>
flagVars  == <<phase, bg_error_, suspending_, shutting_>>
bgVars    == <<bg, edit>>
walVars   == <<walFiles, wal, durable, torn>>
manVars   == <<manifest, manifestTorn>>
engineVars == <<memVars, verVars, flagVars, bgVars, walVars, manVars>>
histVars  == <<result, acked, promised, before>>
budgets   == <<opens, faults, suspends>>
vars == <<queueVars, engineVars, histVars, budgets>>

Entry    == [seq : Nat, op : Ops]
LogEntry == [file : Nat, first : Nat, seq : Nat, op : Ops]
Manifest == [log : Nat, seq : Nat, next : Nat, tables : SUBSET Entry, l0 : Nat]

\* A VersionEdit: the entries of the files it adds, and the numbers of level-0
\* files that it adds and deletes.  What a compaction drops is left to the
\* level of keys, so that no entry leaves the tables here.
VersionEdit == [log : Nat, seq : Nat, next : Nat, added : SUBSET Entry,
                l0Added : Nat, l0Deleted : Nat]

Edit(log, seq, next, added, l0Added, l0Deleted) ==
    [log |-> log, seq |-> seq, next |-> next, added |-> added,
     l0Added |-> l0Added, l0Deleted |-> l0Deleted]

\* A MANIFEST to which the record of edit e is appended
Apply(m, e) == [log |-> e.log, seq |-> e.seq, next |-> e.next,
                tables |-> m.tables \cup e.added,
                l0 |-> m.l0 + e.l0Added - e.l0Deleted]

Content(e) == [seq |-> e.seq, op |-> e.op]
Contents(logEntries) == {Content(e) : e \in logEntries}
OpsOf(entries) == {e.op : e \in entries}

----------------------------------------------------------------------------
(* Condition variables.  A writer blocked on its own cv is in "queue", one *)
(* blocked on bg_cv_ in "bgwait" or "flushblocked"; a signal makes it      *)
(* runnable, and it tests its condition again when it gets the mutex.      *)

Locks(t) == mutex_ \in {Free, t}

\* Mutant of SignalAll: forgets those who wait for a forced flush.
SignalAllWriters(ws) ==
    [w \in Writers |-> [ws[w] EXCEPT !.pc = IF @ = "bgwait" THEN "room" ELSE @]]

SignalAll(ws) ==
    [w \in Writers |->
        [ws[w] EXCEPT !.pc = IF @ = "bgwait" THEN "room"
                             ELSE IF @ = "flushblocked" THEN "flushwait"
                             ELSE @]]

\* Mutant of Dequeue: the new head of the queue is not notified.
DequeueSilently(ws, n, status) ==
    [w \in Writers |-> IF w \in {writers_[i] : i \in 1..n}
                       THEN [ws[w] EXCEPT !.pc = "done", !.status = status]
                       ELSE ws[w]]

\* The first n writers leave the queue with their status; the one behind
\* them is told that it is at the head.
Dequeue(ws, n, status) ==
    LET leaving == {writers_[i] : i \in 1..n}
        next    == {writers_[i] : i \in {n + 1} \cap 1..Len(writers_)}
    IN  [w \in Writers |->
            IF w \in leaving THEN [ws[w] EXCEPT !.pc = "done", !.status = status]
            ELSE IF w \in next THEN [ws[w] EXCEPT !.pc = "room"]
            ELSE ws[w]]

----------------------------------------------------------------------------
(* Scheduling of the background thread.                                    *)

\* versions_->NeedsCompaction(), of which only the level-0 score is kept
NeedsCompaction(files) == files >= L0Trigger

\* Mutant of MaybeScheduleCompaction: looks at the level-0 score only.
ScheduleForLevel0(hasImm, files, error) ==
    IF bg.pc = "idle" /\ ~shutting_ /\ ~suspending_ /\ ~error /\ NeedsCompaction(files)
    THEN "queued" ELSE bg.pc

MaybeScheduleCompaction(hasImm, files, error) ==
    IF /\ bg.pc = "idle" /\ ~shutting_
       /\ hasImm \/ ~suspending_
       /\ ~error
       /\ hasImm \/ NeedsCompaction(files)
    THEN "queued" ELSE bg.pc

----------------------------------------------------------------------------
(* DBImpl::Write()                                                         *)

\* push_back(&w), and wait unless at the front of the queue
Write(w, op) ==
    /\ phase = "open" /\ wr[w].pc = "idle" /\ mutex_ = Free
    /\ result[op] = "new"
    /\ wr' = [wr EXCEPT ![w] =
                [pc |-> IF writers_ = <<>> THEN "room" ELSE "queue", op |-> op,
                 delay |-> op \notin NullOps, force |-> op \in NullOps,
                 status |-> "ok"]]
    /\ mutex_' = IF writers_ = <<>> THEN w ELSE Free
    /\ writers_' = Append(writers_, w)
    /\ result' = [result EXCEPT ![op] = "pending"]
    /\ before' = [before EXCEPT ![op] = acked]
    /\ UNCHANGED <<group, engineVars, acked, promised, budgets>>

(* MakeRoomForWrite(): one action per branch of its loop, in its order.    *)

InRoom(w) == /\ phase = "open" /\ wr[w].pc = "room" /\ Locks(w)
             /\ writers_ # <<>> /\ Head(writers_) = w

NotDelayed(w) == ~bg_error_ /\ ~(wr[w].delay /\ l0 >= L0Slowdown)
HasRoom(w)    == ~wr[w].force /\ Cardinality(mem_) <= WriteBuffer

RoomError(w) ==
    /\ InRoom(w) /\ bg_error_
    /\ wr' = Dequeue(wr, 1, "error")
    /\ writers_' = Tail(writers_)
    /\ mutex_' = Free
    /\ UNCHANGED <<group, engineVars, histVars, budgets>>

\* sleeps for 1ms without the mutex, once
RoomSlowdown(w) ==
    /\ InRoom(w) /\ ~bg_error_ /\ wr[w].delay /\ l0 >= L0Slowdown
    /\ wr' = [wr EXCEPT ![w].delay = FALSE]
    /\ mutex_' = Free
    /\ UNCHANGED <<writers_, group, engineVars, histVars, budgets>>

\* Mutant of MayJoin: a sync write joins a group that is not synced.
MayJoinAny(i) == TRUE

\* BuildBatchGroup(): the first n writers can be written as one record.  It
\* stops before a sync write unless the leader syncs, and may stop before any
\* batch because of the size of the group.
MayJoin(i) == wr[writers_[i]].op \in SyncOps => wr[writers_[1]].op \in SyncOps

BatchGroup(n) ==
    /\ \A i \in 2..n : MayJoin(i)
    /\ n < Len(writers_) => ~MayJoin(n + 1) \/ wr[writers_[n + 1]].op \notin NullOps

\* how many batches there are, NULL ones aside, up to place n of the queue
Count(n) == Cardinality({i \in 1..n : wr[writers_[i]].op \notin NullOps})

RoomReady(w) ==
    /\ InRoom(w) /\ NotDelayed(w)
    /\ HasRoom(w) \/ suspending_
    /\ mutex_' = Free
    /\ IF wr[w].op \in NullOps
       THEN /\ wr' = Dequeue(wr, 1, "ok")
            /\ writers_' = Tail(writers_)
            /\ UNCHANGED group
       ELSE /\ group' \in {n \in 1..Len(writers_) : BatchGroup(n)}
            /\ wr' = [wr EXCEPT ![w].pc = "log"]
            /\ UNCHANGED writers_
    /\ UNCHANGED <<engineVars, histVars, budgets>>

\* the previous memtable is still being compacted, or too many level-0 files
RoomWait(w) ==
    /\ InRoom(w) /\ NotDelayed(w) /\ ~HasRoom(w) /\ ~suspending_
    /\ has_imm_ \/ l0 >= L0Stop
    /\ wr' = [wr EXCEPT ![w].pc = "bgwait"]
    /\ mutex_' = Free
    /\ UNCHANGED <<writers_, group, engineVars, histVars, budgets>>

\* Mutant of MustSwitch: the previous memtable is not waited for.
SwitchesTooEarly(w) == /\ InRoom(w) /\ NotDelayed(w) /\ ~HasRoom(w) /\ ~suspending_
                       /\ l0 < L0Stop

MustSwitch(w) == /\ InRoom(w) /\ NotDelayed(w) /\ ~HasRoom(w) /\ ~suspending_
                 /\ ~has_imm_ /\ l0 < L0Stop

\* a new log and a new memtable; the loop goes on under the mutex
RoomSwitch(w) ==
    /\ MustSwitch(w)
    /\ logfile_number_' = nextFile /\ nextFile' = nextFile + 1
    /\ walFiles' = walFiles \cup {nextFile}
    /\ imm_' = mem_ /\ has_imm_' = TRUE /\ mem_' = {}
    /\ wr' = [wr EXCEPT ![w].force = FALSE]
    /\ bg' = [bg EXCEPT !.pc = MaybeScheduleCompaction(TRUE, l0, bg_error_)]
    /\ mutex_' = w
    /\ UNCHANGED <<writers_, group, lastSequence, logNumber, tables, l0,
                   flagVars, edit, wal, durable, torn, manVars, histVars,
                   budgets>>

\* NewWritableFile() fails: ReuseFileNumber(), and the error is returned
RoomSwitchFails(w) ==
    /\ MustSwitch(w) /\ faults < MaxFaults
    /\ wr' = Dequeue(wr, 1, "error")
    /\ writers_' = Tail(writers_)
    /\ mutex_' = Free
    /\ faults' = faults + 1
    /\ UNCHANGED <<group, engineVars, histVars, opens, suspends>>

(* The leader logs and inserts the group without the mutex.                *)

Leads(w, at) == phase = "open" /\ wr[w].pc = at /\ Head(writers_) = w

GroupEntries ==
    {[seq |-> lastSequence + Count(i), op |-> wr[writers_[i]].op] :
        i \in {j \in 1..group : wr[writers_[j]].op \notin NullOps}}

GroupRecord ==
    {[file |-> logfile_number_, first |-> lastSequence + 1,
      seq |-> e.seq, op |-> e.op] : e \in GroupEntries}

\* Mutant of AddRecord: options.sync is forgotten.
AddRecordUnsynced(w) ==
    /\ Leads(w, "log")
    /\ wal' = wal \cup GroupRecord
    /\ wr' = [wr EXCEPT ![w].pc = "insert"]
    /\ UNCHANGED <<mutex_, writers_, group, memVars, verVars, flagVars, bgVars,
                   walFiles, durable, torn, manVars, histVars, budgets>>

\* log_->AddRecord(): the record is written and flushed to the system
AddRecord(w) ==
    /\ Leads(w, "log")
    /\ wal' = wal \cup GroupRecord
    /\ wr' = [wr EXCEPT ![w].pc = IF wr[w].op \in SyncOps THEN "sync" ELSE "insert"]
    /\ UNCHANGED <<mutex_, writers_, group, memVars, verVars, flagVars, bgVars,
                   walFiles, durable, torn, manVars, histVars, budgets>>

\* AddRecord() fails having written nothing, a part, or all of the record
AddRecordFails(w) ==
    /\ Leads(w, "log") /\ faults < MaxFaults
    /\ \/ UNCHANGED <<wal, torn>>
       \/ /\ torn' = torn \cup {[file |-> logfile_number_, first |-> lastSequence + 1]}
          /\ UNCHANGED wal
       \/ wal' = wal \cup GroupRecord /\ UNCHANGED torn
    /\ wr' = [wr EXCEPT ![w] = [@ EXCEPT !.pc = "publish", !.status = "error"]]
    /\ faults' = faults + 1
    /\ UNCHANGED <<mutex_, writers_, group, memVars, verVars, flagVars, bgVars,
                   walFiles, durable, manVars, histVars, opens, suspends>>

\* logfile_->Sync()
SyncLog(w) ==
    /\ Leads(w, "sync")
    /\ durable' = durable \cup {e \in wal : e.file = logfile_number_}
    /\ wr' = [wr EXCEPT ![w].pc = "insert"]
    /\ UNCHANGED <<mutex_, writers_, group, memVars, verVars, flagVars, bgVars,
                   walFiles, wal, torn, manVars, histVars, budgets>>

SyncLogFails(w) ==
    /\ Leads(w, "sync") /\ faults < MaxFaults
    /\ wr' = [wr EXCEPT ![w] = [@ EXCEPT !.pc = "publish", !.status = "sync_error"]]
    /\ faults' = faults + 1
    /\ UNCHANGED <<mutex_, writers_, group, engineVars, histVars, opens,
                   suspends>>

\* WriteBatchInternal::InsertInto(updates, mem_)
InsertInto(w) ==
    /\ Leads(w, "insert")
    /\ mem_' = mem_ \cup GroupEntries
    /\ wr' = [wr EXCEPT ![w].pc = "publish"]
    /\ UNCHANGED <<mutex_, writers_, group, imm_, has_imm_, logfile_number_,
                   verVars, flagVars, bgVars, walVars, manVars, histVars,
                   budgets>>

\* Mutant of Publish: the sequence numbers of a failed write are used again.
PublishReusing(w) ==
    /\ Leads(w, "publish") /\ Locks(w)
    /\ LET failed == wr[w].status = "sync_error"
           woken  == IF failed /\ ~bg_error_ THEN SignalAll(wr) ELSE wr
       IN  /\ bg_error_' = (bg_error_ \/ failed)
           /\ wr' = Dequeue(woken, group, IF wr[w].status = "ok" THEN "ok" ELSE "error")
    /\ lastSequence' = lastSequence
                        + IF wr[w].status = "ok" THEN Count(group) ELSE 0
    /\ writers_' = SubSeq(writers_, group + 1, Len(writers_))
    /\ group' = 0
    /\ UNCHANGED <<mutex_, memVars, nextFile, logNumber, tables, l0, phase,
                   suspending_, shutting_, bgVars, walVars, manVars, histVars,
                   budgets>>

\* back under the mutex: record a sync error, advance the last sequence, and
\* give every writer of the group its status
Publish(w) ==
    /\ Leads(w, "publish") /\ Locks(w)
    /\ LET failed == wr[w].status = "sync_error"
           woken  == IF failed /\ ~bg_error_ THEN SignalAll(wr) ELSE wr
       IN  /\ bg_error_' = (bg_error_ \/ failed)
           /\ wr' = Dequeue(woken, group, IF wr[w].status = "ok" THEN "ok" ELSE "error")
    /\ lastSequence' = lastSequence + Count(group)
    /\ writers_' = SubSeq(writers_, group + 1, Len(writers_))
    /\ group' = 0
    /\ UNCHANGED <<mutex_, memVars, nextFile, logNumber, tables, l0, phase,
                   suspending_, shutting_, bgVars, walVars, manVars, histVars,
                   budgets>>

Answer(w, r) ==
    /\ wr' = [wr EXCEPT ![w] = [@ EXCEPT !.pc = "idle", !.op = NoOp]]
    /\ result' = [result EXCEPT ![wr[w].op] = r]
    /\ acked' = IF r = "ok" /\ wr[w].op \notin NullOps
                THEN acked \cup {wr[w].op} ELSE acked
    /\ promised' = IF r = "ok" /\ wr[w].op \in SyncOps \ NullOps
                   THEN promised \cup {wr[w].op} ELSE promised

\* Write() returns; TEST_CompactMemTable() goes on to wait for the flush
Return(w) ==
    /\ phase = "open" /\ wr[w].pc = "done" /\ Locks(w)
    /\ IF wr[w].op \in NullOps /\ wr[w].status = "ok"
       THEN /\ wr' = [wr EXCEPT ![w].pc = "flushwait"]
            /\ UNCHANGED <<result, acked, promised>>
       ELSE Answer(w, wr[w].status)
    /\ UNCHANGED <<mutex_, writers_, group, engineVars, before, budgets>>

\* the second half of TEST_CompactMemTable()
AwaitFlush(w) ==
    /\ phase = "open" /\ wr[w].pc = "flushwait" /\ Locks(w)
    /\ IF has_imm_ /\ ~bg_error_
       THEN /\ wr' = [wr EXCEPT ![w].pc = "flushblocked"]
            /\ UNCHANGED <<result, acked, promised>>
       ELSE Answer(w, IF has_imm_ THEN "error" ELSE "ok")
    /\ UNCHANGED <<mutex_, writers_, group, engineVars, before, budgets>>

----------------------------------------------------------------------------
(* The background thread: BackgroundCall(), BackgroundCompaction(),        *)
(* CompactMemTable(), DoCompactionWork(), VersionSet::LogAndApply().       *)

Working == phase \in {"open", "closing"}
Running == Working /\ mutex_ = Free

\* bg_compaction_scheduled_
Scheduled == bg.pc # "idle"

\* The end of BackgroundCall(), in the state that hasImm, files and error give
EndBackgroundCall(ws, hasImm, files, error) ==
    /\ wr' = SignalAll(ws)
    /\ bg' = [pc |-> IF /\ ~suspending_ /\ ~shutting_ /\ ~error
                        /\ hasImm \/ NeedsCompaction(files)
                     THEN "queued" ELSE "idle",
              merging |-> FALSE, inputs |-> 0, outputs |-> 0]

NothingToDo == shutting_ \/ bg_error_ \/ (~has_imm_ /\ ~NeedsCompaction(l0))

BackgroundNothing ==
    /\ Running /\ bg.pc = "queued" /\ NothingToDo
    /\ EndBackgroundCall(wr, has_imm_, l0, bg_error_)
    /\ UNCHANGED <<mutex_, writers_, group, memVars, verVars, flagVars, edit,
                   walVars, manVars, histVars, budgets>>

\* CompactMemTable(), called first thing or between two keys of a merge: takes
\* a file number for the table and releases the mutex to build it.  A merge
\* does so again after a failure, until the destructor sets its flag.
StartFlush ==
    /\ Running /\ has_imm_
    /\ \/ bg.pc = "queued" /\ ~NothingToDo
       \/ bg.pc = "merge" /\ ~shutting_
    /\ bg' = [bg EXCEPT !.pc = "table"]
    /\ nextFile' = nextFile + 1
    /\ UNCHANGED <<queueVars, memVars, lastSequence, logNumber, tables, l0,
                   flagVars, edit, walVars, manVars, histVars, budgets>>

\* the table is synced: LogAndApply() prepares the edit and releases the mutex
FlushTableBuilt ==
    /\ Running /\ bg.pc = "table" /\ ~shutting_
    /\ \E d \in IF imm_ = {} THEN {0} ELSE {0, 1} :  \* PickLevelForMemTableOutput
         edit' = Edit(logfile_number_, lastSequence, nextFile, imm_, d, 0)
    /\ bg' = [bg EXCEPT !.pc = "flushlog"]
    /\ UNCHANGED <<queueVars, memVars, verVars, flagVars, walVars, manVars,
                   histVars, budgets>>

\* the record is appended to the MANIFEST and synced
ManifestWritten ==
    /\ Working /\ bg.pc \in {"flushlog", "mergelog"}
    /\ manifest' = Apply(manifest, edit)
    /\ manifestTorn' = IF manifestTorn = "no" THEN "no" ELSE "middle"
    /\ bg' = [bg EXCEPT !.pc = IF @ = "flushlog" THEN "flushinstall" ELSE "mergeinstall"]
    /\ UNCHANGED <<queueVars, memVars, verVars, flagVars, edit, walVars,
                   histVars, budgets>>

\* Mutant of DeleteObsoleteLogs: also deletes the log of the memtable.
DeleteLogsUpTo(number) ==
    /\ walFiles' = {f \in walFiles : f > number}
    /\ wal' = {e \in wal : e.file > number}
    /\ durable' = {e \in durable : e.file > number}
    /\ torn' = {t \in torn : t.file > number}

\* DeleteObsoleteFiles() for the logs, in a version whose log number is number
DeleteObsoleteLogs(number) ==
    /\ walFiles' = {f \in walFiles : f >= number}
    /\ wal' = {e \in wal : e.file >= number}
    /\ durable' = {e \in durable : e.file >= number}
    /\ torn' = {t \in torn : t.file >= number}

InstallEdit ==
    /\ tables' = tables \cup edit.added
    /\ l0' = l0 + edit.l0Added - edit.l0Deleted
    /\ logNumber' = edit.log

FlushInstalled ==
    /\ Running /\ bg.pc = "flushinstall"
    /\ InstallEdit
    /\ imm_' = {} /\ has_imm_' = FALSE
    /\ IF bg_error_ THEN UNCHANGED walVars ELSE DeleteObsoleteLogs(edit.log)
    /\ IF bg.merging
       THEN bg' = [bg EXCEPT !.pc = "merge"] /\ wr' = SignalAll(wr)
       ELSE EndBackgroundCall(wr, FALSE, l0', bg_error_)
    /\ UNCHANGED <<mutex_, writers_, group, mem_, logfile_number_, lastSequence,
                   nextFile, flagVars, edit, manVars, histVars, budgets>>

\* PickCompaction() found work in level 0: DoCompactionWork() merges some of
\* its files without the mutex, or a trivial move goes straight to the MANIFEST
StartMerge ==
    /\ Running /\ bg.pc = "queued" /\ ~NothingToDo /\ ~has_imm_
    /\ \/ \E k \in 1..l0 : bg' = [pc |-> "merge", merging |-> TRUE, inputs |-> k,
                                  outputs |-> 0]
          /\ UNCHANGED edit
       \/ /\ bg' = [pc |-> "mergelog", merging |-> FALSE, inputs |-> 1, outputs |-> 0]
          /\ edit' = Edit(logNumber, lastSequence, nextFile, {}, 0, 1)
    /\ UNCHANGED <<queueVars, memVars, verVars, flagVars, walVars, manVars,
                   histVars, budgets>>

\* OpenCompactionOutputFile(): takes the mutex for a file number, which is in no
\* MANIFEST until the merge is done.
OpenOutput ==
    /\ Running /\ bg.pc = "merge" /\ bg.outputs < MaxOutputs
    /\ nextFile' = nextFile + 1
    /\ bg' = [bg EXCEPT !.outputs = @ + 1]
    /\ UNCHANGED <<queueVars, memVars, lastSequence, logNumber, tables, l0,
                   flagVars, edit, walVars, manVars, histVars, budgets>>

\* The last key is merged.  The flag of the destructor is tested before the
\* mutex is taken again, so that it may be set here.
MergeDone ==
    /\ Running /\ bg.pc = "merge"
    /\ edit' = Edit(logNumber, lastSequence, nextFile, {}, 0, bg.inputs)
    /\ bg' = [bg EXCEPT !.pc = "mergelog"]
    /\ UNCHANGED <<queueVars, memVars, verVars, flagVars, walVars, manVars,
                   histVars, budgets>>

\* after a trivial move no file is deleted
MergeInstalled ==
    /\ Running /\ bg.pc = "mergeinstall"
    /\ InstallEdit
    /\ IF bg.merging /\ ~bg_error_
       THEN DeleteObsoleteLogs(edit.log) ELSE UNCHANGED walVars
    /\ EndBackgroundCall(wr, has_imm_, l0', bg_error_)
    /\ UNCHANGED <<mutex_, writers_, group, memVars, lastSequence, nextFile,
                   flagVars, edit, manVars, histVars, budgets>>

\* A table or the MANIFEST cannot be written (a part of the record, or all of it,
\* may be in the file all the same), or the destructor has begun:
\* RecordBackgroundError(), and after it the end of BackgroundCall(), or the
\* rest of the merge.
BackgroundFails ==
    /\ Running /\ bg.pc \in {"table", "merge", "flushlog", "mergelog"}
    /\ \/ shutting_ /\ bg.pc \in {"table", "merge"} /\ UNCHANGED faults
       \/ faults < MaxFaults /\ faults' = faults + 1
    /\ \/ UNCHANGED manVars
       \/ /\ bg.pc \in {"flushlog", "mergelog"}
          /\ \/ manifest' = Apply(manifest, edit)
                /\ manifestTorn' = IF manifestTorn = "no" THEN "no" ELSE "middle"
             \/ UNCHANGED manifest
                /\ manifestTorn' = IF manifestTorn = "no" THEN "tail" ELSE "middle"
    /\ bg_error_' = TRUE
    /\ IF bg.pc \in {"table", "flushlog"} /\ bg.merging
       THEN bg' = [bg EXCEPT !.pc = "merge"] /\ wr' = SignalAll(wr)
       ELSE EndBackgroundCall(wr, has_imm_, l0, TRUE)
    /\ UNCHANGED <<mutex_, writers_, group, memVars, verVars, phase,
                   suspending_, shutting_, edit, walVars, histVars, opens,
                   suspends>>

----------------------------------------------------------------------------
(* SuspendCompaction(), ResumeCompaction(), ~DBImpl()                      *)

SuspendCompaction ==
    /\ phase = "open" /\ mutex_ = Free /\ suspends < MaxSuspends
    /\ suspending_' = TRUE
    /\ suspends' = suspends + 1
    /\ UNCHANGED <<queueVars, memVars, verVars, phase, bg_error_, shutting_,
                   bgVars, walVars, manVars, histVars, opens, faults>>

ResumeCompaction ==
    /\ phase = "open" /\ mutex_ = Free /\ suspending_
    /\ suspending_' = FALSE
    /\ UNCHANGED <<queueVars, memVars, verVars, phase, bg_error_, shutting_,
                   bgVars, walVars, manVars, histVars, budgets>>

\* The caller deletes the DB when no call is under way.  The destructor clears
\* the suspend flag and waits for the background thread.
Close ==
    /\ phase = "open" /\ mutex_ = Free
    /\ \A w \in Writers : wr[w].pc = "idle"
    /\ phase' = "closing" /\ shutting_' = TRUE /\ suspending_' = FALSE
    /\ UNCHANGED <<queueVars, memVars, verVars, bg_error_, bgVars, walVars,
                   manVars, histVars, budgets>>

\* What is left in memory when the process is gone or the DBImpl deleted
Forget ==
    /\ mutex_' = Free /\ writers_' = <<>> /\ group' = 0
    /\ wr' = [w \in Writers |-> [pc |-> "idle", op |-> NoOp, delay |-> FALSE,
                                 force |-> FALSE, status |-> "ok"]]
    /\ mem_' = {} /\ imm_' = {} /\ has_imm_' = FALSE
    /\ bg' = [pc |-> "idle", merging |-> FALSE, inputs |-> 0, outputs |-> 0]
    /\ bg_error_' = FALSE /\ suspending_' = FALSE /\ shutting_' = FALSE
    /\ UNCHANGED <<logfile_number_, verVars, edit>>

Closed ==
    /\ phase = "closing" /\ ~Scheduled
    /\ phase' = "closed"
    /\ Forget
    /\ UNCHANGED <<walVars, manVars, histVars, budgets>>

----------------------------------------------------------------------------
(* Crashes.  The process can die at any step: what was written stays.  The *)
(* machine can die: of each log an unsynced suffix is lost.                *)

\* what the tables of MANIFEST m and the logs that Recover() reads after it hold
LiveLogs(files, m) == {f \in files : f >= m.log}
Held(entries, m) == m.tables \cup Contents({e \in entries : e.file >= m.log})

\* some of the entries stand behind torn record t of the same log
Buries(entries, t) == \E e \in entries : e.file = t.file /\ e.first > t.first

Interrupted == [op \in Ops |-> IF result[op] = "pending" THEN "lost" ELSE result[op]]

ProcessCrash ==
    /\ phase \notin {"closed", "corrupt"}
    /\ phase' = "closed"
    /\ Forget
    /\ result' = Interrupted
    /\ UNCHANGED <<walVars, manVars, acked, promised, before, budgets>>

MachineCrash ==
    /\ MachineCrashes /\ phase \notin {"closed", "corrupt"}
    /\ phase' = "closed"
    /\ Forget
    /\ result' = Interrupted
    /\ \E cut \in [walFiles -> 1..(Cardinality(Ops) + 1)] :
         /\ wal' = {e \in wal : e.first < cut[e.file] \/ e \in durable}
         /\ torn' = {t \in torn : t.first < cut[t.file] \/ Buries(durable, t)}
    /\ UNCHANGED <<walFiles, durable, manVars, acked, promised, before,
                   budgets>>

----------------------------------------------------------------------------
(* DB::Open(): Recover(), RecoverLogFile(), LogAndApply()                  *)

\* With paranoid_checks a record that was torn in the middle of a log, or of the
\* MANIFEST, makes Recover() fail; torn at the end it is an end of file.
Corrupt ==
    \/ manifestTorn = "middle"
    \/ \E t \in torn : t.file >= manifest.log /\ Buries(wal, t)

\* What the files hold, and what of it the next Open() gives to a client: of a
\* log or MANIFEST that is torn in the middle nothing, for there is no DB then.
OnDisk    == Held(wal, manifest)
Recovered == IF Corrupt THEN {} ELSE OnDisk

\* Mutant of NumbersTaken: MarkFileNumberUsed() is not called for the logs.
NumbersOfManifest(live) == {manifest.next, manifest.log}

\* Recover() replays each log into one level-0 table, or several of one record or
\* more, and a new log is created.  Its number is above those of the MANIFEST, of
\* the logs, and of the tables that were written meanwhile.
NumbersTaken(live) == live \cup {manifest.next, manifest.log}

\* Mutant of LastRecovered: max_sequence of the logs is dropped.
LastOfManifest(found) == manifest.seq

\* SetLastSequence(max_sequence), if that is more than the MANIFEST says
LastRecovered(found) ==
    LET seqs == {manifest.seq} \cup {e.seq : e \in found}
    IN  CHOOSE s \in seqs : \A x \in seqs : x <= s

OpenRecover ==
    /\ phase = "closed" /\ opens < MaxOpens /\ ~Corrupt
    /\ LET live   == LiveLogs(walFiles, manifest)
           found  == {e \in wal : e.file \in live}
           filled == {e.file : e \in found}
           records == {<<e.file, e.first>> : e \in found}
           taken  == NumbersTaken(live)
       IN  /\ lastSequence' = LastRecovered(found)
           /\ \E written \in Cardinality(filled)..Cardinality(records) :
                /\ \E k \in 0..written, m \in taken :
                     /\ \A x \in taken : x < m + 1 + k
                     /\ logfile_number_' = m + 1 + k
                /\ nextFile' = logfile_number_' + 1
                /\ edit' = Edit(logfile_number_', lastSequence', nextFile',
                                Contents(found), written, 0)
           /\ walFiles' = walFiles \cup {logfile_number_'}
           /\ tables' = manifest.tables /\ l0' = manifest.l0
           /\ logNumber' = manifest.log
    /\ phase' = "recovered"
    /\ opens' = opens + 1
    /\ UNCHANGED <<queueVars, mem_, imm_, has_imm_, bg_error_, suspending_,
                   shutting_, bg, wal, durable, torn, manVars, histVars, faults,
                   suspends>>

OpenCorrupt ==
    /\ phase = "closed" /\ Corrupt
    /\ phase' = "corrupt"
    /\ UNCHANGED <<queueVars, memVars, verVars, bg_error_, suspending_,
                   shutting_, bgVars, walVars, manVars, histVars, budgets>>

\* a new MANIFEST is written and CURRENT renamed to point to it
OpenApply ==
    /\ phase = "recovered"
    /\ manifest' = Apply(manifest, edit) /\ manifestTorn' = "no"
    /\ phase' = "applied"
    /\ UNCHANGED <<queueVars, memVars, verVars, bg_error_, suspending_,
                   shutting_, bgVars, walVars, histVars, budgets>>

OpenFinish ==
    /\ phase = "applied"
    /\ InstallEdit
    /\ DeleteObsoleteLogs(edit.log)
    /\ bg' = [bg EXCEPT !.pc = MaybeScheduleCompaction(FALSE, l0', FALSE)]
    /\ phase' = "open"
    /\ UNCHANGED <<queueVars, memVars, lastSequence, nextFile, bg_error_,
                   suspending_, shutting_, edit, manVars, histVars, budgets>>

----------------------------------------------------------------------------
\* NewDB(): a MANIFEST with log number 0, next file 2 and no table
EmptyManifest == [log |-> 0, seq |-> 0, next |-> 2, tables |-> {}, l0 |-> 0]

Init ==
    /\ mutex_ = Free /\ writers_ = <<>> /\ group = 0
    /\ wr = [w \in Writers |-> [pc |-> "idle", op |-> NoOp, delay |-> FALSE,
                                force |-> FALSE, status |-> "ok"]]
    /\ phase = "closed" /\ mem_ = {} /\ imm_ = {} /\ has_imm_ = FALSE
    /\ logfile_number_ = 0 /\ lastSequence = 0 /\ nextFile = 2
    /\ logNumber = 0 /\ tables = {} /\ l0 = 0
    /\ bg_error_ = FALSE /\ suspending_ = FALSE /\ shutting_ = FALSE
    /\ bg = [pc |-> "idle", merging |-> FALSE, inputs |-> 0, outputs |-> 0]
    /\ edit = Edit(0, 0, 2, {}, 0, 0) /\ manifest = EmptyManifest /\ manifestTorn = "no"
    /\ walFiles = {} /\ wal = {} /\ durable = {} /\ torn = {}
    /\ result = [op \in Ops |-> "new"]
    /\ acked = {} /\ promised = {} /\ before = [op \in Ops |-> {}]
    /\ opens = 0 /\ faults = 0 /\ suspends = 0

WriterStep(w) ==
    \/ RoomError(w) \/ RoomSlowdown(w) \/ RoomReady(w) \/ RoomWait(w)
    \/ RoomSwitch(w) \/ RoomSwitchFails(w)
    \/ AddRecord(w) \/ AddRecordFails(w) \/ SyncLog(w) \/ SyncLogFails(w)
    \/ InsertInto(w) \/ Publish(w) \/ Return(w) \/ AwaitFlush(w)

BackgroundStep ==
    \/ BackgroundNothing \/ StartFlush \/ FlushTableBuilt \/ ManifestWritten
    \/ FlushInstalled \/ StartMerge \/ OpenOutput \/ MergeDone \/ MergeInstalled
    \/ BackgroundFails

OpenStep == OpenRecover \/ OpenCorrupt \/ OpenApply \/ OpenFinish

Next ==
    \/ \E w \in Writers, op \in Ops : Write(w, op)
    \/ \E w \in Writers : WriterStep(w)
    \/ BackgroundStep
    \/ SuspendCompaction \/ ResumeCompaction \/ Close \/ Closed
    \/ ProcessCrash \/ MachineCrash
    \/ OpenStep

Spec == Init /\ [][Next]_vars

\* Every thread that can run does, and no file operation fails for ever.
Fairness ==
    /\ \A w \in Writers : WF_vars(WriterStep(w))
    /\ WF_vars(BackgroundStep) /\ WF_vars(OpenStep) /\ WF_vars(Closed)

FairSpec == Spec /\ Fairness

----------------------------------------------------------------------------
(* Properties                                                              *)

InMemory == mem_ \cup imm_ \cup tables

Writer == [pc : {"idle", "queue", "room", "log", "sync", "insert", "publish", "done",
                 "bgwait", "flushwait", "flushblocked"},
           op : Ops \cup {NoOp}, delay : BOOLEAN, force : BOOLEAN,
           status : {"ok", "error", "sync_error"}]

Background == [pc : {"idle", "queued", "table", "flushlog", "flushinstall",
                     "merge", "mergelog", "mergeinstall"},
               merging : BOOLEAN, inputs : Nat, outputs : Nat]

\* options.h: "if it is just the process that crashes ..., no writes will be
\* lost even if sync==false".  Whatever the interleaving of writers, memtable
\* switches, flushes and log deletions, the next Open() finds every write that
\* was answered with OK.
NoAckedWriteLost == acked \subseteq OpsOf(Recovered)

\* Why no acknowledged write is lost, as long as no file operation fails: an entry
\* of a log that recovery reads is in the tables, or still in memory in the place
\* from where it will reach the tables before the log goes.
InFlight == IF writers_ # <<>> /\ wr[Head(writers_)].pc \in {"sync", "insert"}
            THEN GroupEntries ELSE {}

LogCovered(e) ==
    \/ Content(e) \in manifest.tables
    \/ phase = "recovered" /\ Content(e) \in edit.added
    \/ Working /\ e.file = logfile_number_ /\ Content(e) \in mem_ \cup InFlight
    \/ Working /\ e.file # logfile_number_ /\ Content(e) \in imm_

NumbersInv ==
    /\ manifest.log \in Nat /\ manifest.next \in Nat /\ edit.next \in Nat
    /\ logfile_number_ \in Nat /\ nextFile \in Nat
    /\ \A f \in walFiles : f \in Nat
    /\ \A e \in wal : e.file \in walFiles
    /\ phase \notin {"closed", "corrupt"} =>
         /\ manifest.log <= logfile_number_ /\ logfile_number_ < nextFile
         /\ logfile_number_ \in walFiles
    /\ phase \in {"recovered", "applied"} => edit.log = logfile_number_
    /\ phase = "applied" => manifest.log = logfile_number_

FlushInv ==
    /\ bg \in Background
    /\ ~has_imm_ => imm_ = {}
    /\ ~Working => bg.pc = "idle" /\ ~has_imm_ /\ writers_ = <<>>
    /\ bg.pc \in {"table", "flushlog", "flushinstall"} => has_imm_
    /\ bg.pc = "flushlog" => edit.log = logfile_number_ /\ imm_ \subseteq edit.added
    /\ bg.pc = "flushinstall" => /\ edit.log = manifest.log /\ imm_ \subseteq manifest.tables
                                 /\ manifest.log = logfile_number_
    /\ Working /\ bg.pc # "flushinstall" => logNumber = manifest.log
    /\ bg.pc \in {"mergelog", "mergeinstall"} => edit.log = logNumber

AnsweredInv ==
    /\ acked \subseteq OpsOf(OnDisk)
    /\ \A w \in Writers :
         /\ wr[w].pc = "done" /\ wr[w].status = "ok" =>
              wr[w].op \in OpsOf(OnDisk) \cup NullOps
         /\ wr[w].pc \in {"flushwait", "flushblocked"} => wr[w].op \in NullOps
         /\ \/ wr[w].pc \in {"sync", "insert"}
            \/ wr[w].pc = "publish" /\ wr[w].status = "ok"
            => OpsOf(GroupEntries) \subseteq OpsOf(OnDisk)

LogInv ==
    /\ torn = {} /\ manifestTorn = "no" /\ faults = 0
    /\ NumbersInv
    /\ phase \notin {"closed", "corrupt"} =>
         \A e \in wal : e.file >= manifest.log => LogCovered(e)
    /\ FlushInv
    /\ AnsweredInv

\* options.h: the write is flushed with sync==true "before the write is considered
\* complete", and a crash of the machine may lose writes "if this flag is false".
\* The next Open() finds every write that was acknowledged with sync.
SyncedWritesSurvive == promised \subseteq OpsOf(Recovered)

\* The code does not keep to that when AddRecord() or a write of the MANIFEST has
\* failed half way: the engine goes on behind the torn record, acknowledges synced
\* writes there, and Recover() refuses the file at the next Open().  What it does
\* keep to: no crash of the machine and no failure takes a synced write out of the
\* files, and as long as no such operation failed, the next Open() finds it.
SyncedWritesSurviveUnlessTorn ==
    /\ promised \subseteq OpsOf(OnDisk)
    /\ promised \subseteq OpsOf(Recovered) \/ faults > 0

\* While the DB is open, a read finds every acknowledged write that is on disk:
\* it is in mem_, imm_ or a table, at a sequence number readers use.
AckedReadable ==
    phase = "open" =>
        acked \cap OpsOf(OnDisk) \subseteq
            OpsOf({e \in InMemory : e.seq <= lastSequence})

\* A sequence number names one batch, over memory and files, over crashes and
\* failed writes; and a batch called after another was acknowledged has the
\* larger number, so that it is the one that counts for a key they share.
SequenceOrder ==
    LET all == OnDisk \cup IF phase = "open" THEN InMemory ELSE {}
    IN  \A d, e \in all : /\ d.seq = e.seq <=> d.op = e.op
                          /\ d.op \in before[e.op] => d.seq < e.seq

\* A log is never created over one that recovery would still read: not by the
\* switch of memtables, and not by an Open() whose MANIFEST knows nothing of the
\* numbers that were given out after it was last written.
NewLogIsNew ==
    [][opens' > opens \/ logfile_number_' # logfile_number_
         => logfile_number_' \notin walFiles]_vars

\* MakeRoomForWrite(): "the previous one is still being compacted, so we wait".
\* A writer that waits on bg_cv_ because of imm_ has a background call to wake it.
WaitsForACompaction ==
    phase = "open" /\ has_imm_ =>
        \A w \in Writers : wr[w].pc \in {"bgwait", "flushblocked"} => Scheduled

\* Of the calls that are under way exactly one leads the queue, is at its head and
\* may hold the mutex, log and insert; every call that is blocked in the queue is
\* behind it, so that a later leader wakes it.
Leading == {"room", "log", "sync", "insert", "publish", "bgwait"}

OneLeader ==
    phase = "open" =>
        /\ \A w \in Writers :
             wr[w].pc \in Leading <=> (writers_ # <<>> /\ Head(writers_) = w)
        /\ \A w \in Writers : wr[w].pc = "queue" =>
             \E i \in 2..Len(writers_) : writers_[i] = w
        /\ mutex_ # Free => wr[mutex_].pc = "room"

\* The queue is what makes it so: no writer is in it twice, the one at its head
\* leads and all others are blocked on their own cv, the group that is being
\* logged is a prefix of it, and the mutex is handed on only inside MakeRoomForWrite.
QueueInv ==
    /\ wr \in [Writers -> Writer] /\ writers_ \in Seq(Writers) /\ group \in Nat
    /\ \A i, j \in 1..Len(writers_) : writers_[i] = writers_[j] => i = j
    /\ \A w \in Writers :
         wr[w].pc \in Leading <=> (writers_ # <<>> /\ Head(writers_) = w)
    /\ \A w \in Writers :
         wr[w].pc = "queue" <=> \E i \in 2..Len(writers_) : writers_[i] = w
    /\ \A w \in Writers :
         wr[w].pc \in {"log", "sync", "insert", "publish"} => group \in 1..Len(writers_)
    /\ mutex_ \in Writers \cup {Free}
    /\ mutex_ # Free => wr[mutex_].pc = "room"

\* The engine implements DurableStore: readers see whole groups of batches, an
\* acknowledged batch is visible, and no crash of the process hides it (nor, for
\* sync writes, a crash of the machine) unless a failed operation had broken the
\* store before: then the next Open() may be refused, and no client sees anything.
Visible == IF Working
           THEN OpsOf({e \in InMemory : e.seq <= lastSequence})
           ELSE OpsOf(Recovered)

Condition == IF ~Corrupt THEN "sound" ELSE IF Working THEN "broken" ELSE "refused"

Store == INSTANCE DurableStore WITH state <- result, visible <- Visible,
                                    store <- Condition, Faults <- MaxFaults > 0

ImplementsStore == Store!Spec

\* Every call returns.
CallsReturn == \A op \in Ops : result[op] = "pending" ~> result[op] # "pending"

=============================================================================
