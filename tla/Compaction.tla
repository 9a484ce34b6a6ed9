----------------------------- MODULE Compaction -----------------------------
(* Readers, snapshots and compactions of the LevelDB engine (db/db_impl.cc *)
(* and db/version_set.cc): the background thread turns imm_ into a table,  *)
(* moves a file down a level, or merges files of two levels, in its own    *)
(* time and by a manual call; Get() and iterators read without the mutex   *)
(* what they took references to; obsolete files are deleted.               *)
(*                                                                         *)
(* The value of an entry is its sequence number.  Write() is one step, and *)
(* imm = {} is the NULL imm_; logs, crashes and the queue of writers are   *)
(* the subject of DBImpl, MANIFEST and CURRENT that of WorldFiles.         *)
EXTENDS Versions

CONSTANTS
    Readers, WriteBuffer,
    AllowedSeeks,  \* FileMetaData::allowed_seeks of a new file
    Budgets        \* bound: the writes, each <<key, is a deletion>>, in their order,
                   \* and how many reads, snapshots, calls and faults there are

ASSUME CompactionAssumption ==
    /\ {WriteBuffer, AllowedSeeks} \subseteq Nat \ {0}
    /\ Budgets \subseteq [writes : Seq(Keys \X BOOLEAN),
                           reads : Nat, snapshots : Nat, calls : Nat, faults : Nat]

VARIABLES
    hist,        \* every write, in the order of its sequence number
    mem, imm,    \* the entries of the two memtables
    snapshots,   \* the sequence numbers of snapshots_
    readers,     \* what each Get() or iterator holds
    tables, disk, pending, next,   \* tables by number; files; pending_outputs_
    seeks,       \* allowed_seeks of each file
    versions, current, pointer,    \* the VersionSet
    manual, call,  \* manual_compaction_ # NULL; the CompactRange() under way
    bg,          \* where the background call is
    job,         \* its Compaction and CompactionState
    bg_error_,
    flaws,       \* "parted", "slipped": what has gone wrong, see Parts and SlipsBetween
    budget       \* what is left of the budget

memVars  == <<hist, mem, imm, snapshots>>
fileVars == <<tables, disk, pending, next>>
verVars  == <<seeks, versions, current, pointer>>
bgVars   == <<manual, bg, job, bg_error_, flaws>>
vars == <<memVars, readers, fileVars, verVars, bgVars, call, budget>>

LastSequence == Len(hist)
Files(id)    == versions[id].files
CurrentFiles == Files(current)
Spend(what)  == budget[what] > 0 /\ budget' = [budget EXCEPT ![what] = @ - 1]
AllFiles(v)  == UNION {v[l] : l \in Levels}
NoFiles      == [l \in Levels |-> {}]
Put(f, x, y) == [z \in DOMAIN f \cup {x} |-> IF z = x THEN y ELSE f[z]]

NoReader == [key |-> 0]
Iterator == MaxKey + 1     \* the "key" of an iterator
NoCall   == [pc |-> "none"]
Idle     == [pc |-> "idle"]
NoJob    == [level |-> NumLevels]

----------------------------------------------------------------------------
(* References to versions                                                  *)

Ref(vs, id) == [vs EXCEPT ![id].refs = @ + 1]

\* the last reference takes the version out of the list
Unref(vs, id) ==
    IF vs[id].refs > 1 THEN [vs EXCEPT ![id].refs = @ - 1]
    ELSE [x \in DOMAIN vs \ {id} |-> vs[x]]

\* AppendVersion() of a version with these files
AppendVersion(vs, files) ==
    LET kept == Unref(vs, current)
    IN  [x \in DOMAIN kept \cup {current + 1} |->
            IF x = current + 1 THEN [files |-> files, refs |-> 1, seek |-> {}] ELSE kept[x]]

\* Mutant of SaveTo: deletes the files of one level only.
SaveToKeeping(deleted, level, added) ==
    [l \in Levels |-> (CurrentFiles[l] \ IF l = level THEN {} ELSE deleted)
                      \cup IF l = level THEN added ELSE {}]

\* Builder: the files of the current version without and with some
SaveTo(deleted, level, added) ==
    [l \in Levels |-> (CurrentFiles[l] \ deleted) \cup IF l = level THEN added ELSE {}]

\* Mutant of LiveFiles: only the current version counts.
CurrentOnly(vs, cur, pend) == pend \cup AllFiles(vs[cur].files)

\* What DeleteObsoleteFiles() keeps: pending_outputs_ and AddLiveFiles()
LiveFiles(vs, cur, pend) == pend \cup UNION {AllFiles(vs[id].files) : id \in DOMAIN vs}

DeleteObsoleteFiles(vs, cur, pend) ==
    disk' = IF bg_error_ THEN disk ELSE disk \cap LiveFiles(vs, cur, pend)

----------------------------------------------------------------------------
(* Scheduling                                                              *)

NeedsCompaction(vs, cur) == Finalize(tables, vs[cur].files) # {} \/ vs[cur].seek # {}

MaybeScheduleCompaction(b, im, man, vs, cur, error) ==
    IF b = Idle /\ ~error /\ (im # {} \/ man \/ NeedsCompaction(vs, cur))
    THEN [pc |-> "queued"] ELSE b

\* Mutant of EndBackgroundCall: does not look for more work.
EndWithoutLook(im, man, vs, cur, error) == bg' = Idle

\* The end of BackgroundCall()
EndBackgroundCall(im, man, vs, cur, error) ==
    bg' = MaybeScheduleCompaction(Idle, im, man, vs, cur, error)

----------------------------------------------------------------------------
(* Writers and readers                                                     *)

\* MakeRoomForWrite() switches memtables, when mem_ is full and imm_ is NULL.
Write(k, del) ==
    LET e    == [k |-> k, s |-> LastSequence + 1, del |-> del]
        full == Cardinality(mem) >= WriteBuffer
    IN  /\ budget.writes # <<>> /\ Head(budget.writes) = <<k, del>>
        /\ budget' = [budget EXCEPT !.writes = Tail(@)]
        /\ full => imm = {} /\ ~bg_error_
        /\ hist' = Append(hist, e)
        /\ mem' = IF full THEN {e} ELSE mem \cup {e}
        /\ imm' = IF full THEN mem ELSE imm
        /\ bg' = IF full THEN MaybeScheduleCompaction(bg, mem, manual, versions, current, bg_error_)
                 ELSE bg
        /\ UNCHANGED <<snapshots, readers, fileVars, verVars, manual, job, bg_error_, flaws, call>>

GetSnapshot ==
    /\ Spend("snapshots")
    /\ snapshots' = snapshots \cup {LastSequence}
    /\ snapshots' # snapshots
    /\ UNCHANGED <<hist, mem, imm, readers, fileVars, verVars, bgVars, call>>

ReleaseSnapshot(s) ==
    /\ s \in snapshots
    /\ snapshots' = snapshots \ {s}
    /\ UNCHANGED <<hist, mem, imm, readers, fileVars, verVars, bgVars, call, budget>>

TakeReferences(id) == Ref(versions, id)

\* Get(), or NewInternalIterator(): under the mutex
StartReading(r, key, s) ==
    /\ readers[r] = NoReader /\ Spend("reads")
    /\ s \in snapshots \cup {LastSequence}
    /\ readers' = [readers EXCEPT ![r] = [key |-> key, s |-> s, mem |-> mem, imm |-> imm,
                                          version |-> current]]
    /\ versions' = TakeReferences(current)
    /\ UNCHANGED <<memVars, fileVars, seeks, current, pointer, bgVars, call>>

\* UpdateStats() of version id: found is {} or the file that is charged
Charged(found) == [f \in DOMAIN seeks |-> IF f \in {x.file : x \in found} /\ seeks[f] > 0
                                          THEN seeks[f] - 1 ELSE seeks[f]]

\* its file_to_compact_, once the file has no seeks left
WithSeek(vs, id, found) ==
    LET due == {x \in found : seeks[x.file] <= 1}
    IN  IF due # {} /\ vs[id].seek = {} THEN [vs EXCEPT ![id].seek = due] ELSE vs

\* What Get() finds: in mem_, else in imm_, else in the version
DBGet(m, i, files, key, s) ==
    IF Newest(m, key, s) # {} THEN Answer(Newest(m, key, s))
    ELSE IF Newest(i, key, s) # {} THEN Answer(Newest(i, key, s))
    ELSE VersionGet(tables, files, key, s).value

\* The end of Get(), back under the mutex
EndGet(r) ==
    LET t     == readers[r]
        inMem == Newest(t.mem, t.key, t.s) # {} \/ Newest(t.imm, t.key, t.s) # {}
        file  == IF inMem THEN {} ELSE VersionGet(tables, Files(t.version), t.key, t.s).seek
        vs    == WithSeek(versions, t.version, file)
    IN  /\ t.key \in Keys
        /\ seeks' = Charged(file)
        /\ versions' = Unref(vs, t.version)
        /\ bg' = IF vs = versions THEN bg
                 ELSE MaybeScheduleCompaction(bg, imm, manual, vs, current, bg_error_)
        /\ readers' = [readers EXCEPT ![r] = NoReader]
        /\ UNCHANGED <<memVars, fileVars, current, pointer, manual, job, bg_error_, flaws,
                       call, budget>>

\* RecordReadSample() of an iterator that passes over e, on the current version
RecordReadSample(r, e) ==
    LET t    == readers[r]
        file == ReadSample(tables, CurrentFiles, e)
        vs   == WithSeek(versions, current, file)
    IN  /\ t.key = Iterator
        /\ e \in t.mem \cup t.imm \cup Entries(tables, AllFiles(Files(t.version)))
        /\ file # {}
        /\ seeks' = Charged(file)
        /\ versions' = vs
        /\ bg' = IF vs = versions THEN bg
                 ELSE MaybeScheduleCompaction(bg, imm, manual, vs, current, bg_error_)
        /\ UNCHANGED <<memVars, readers, fileVars, current, pointer, manual, job, bg_error_,
                       flaws, call, budget>>

CleanupIterator(r) ==
    /\ readers[r].key = Iterator
    /\ versions' = Unref(versions, readers[r].version)
    /\ readers' = [readers EXCEPT ![r] = NoReader]
    /\ UNCHANGED <<memVars, fileVars, seeks, current, pointer, bgVars, call, budget>>

----------------------------------------------------------------------------
(* CompactRange()                                                          *)

\* the deepest level to be compacted into, then TEST_CompactMemTable()
CompactRange(lo, hi) ==
    LET deep == {l \in Levels \ {0} : OverlapInLevel(tables, CurrentFiles[l], lo, hi)}
    IN  /\ call = NoCall /\ Spend("calls")
        /\ call' = [pc |-> "switch", level |-> 0, lo |-> lo, from |-> lo, hi |-> hi, done |-> FALSE,
                    max |-> Max({1} \cup deep)]
        /\ UNCHANGED <<memVars, readers, fileVars, verVars, bgVars>>

\* Write(NULL) forces the switch (that of an empty memtable is left out).
CallSwitches ==
    /\ call.pc = "switch"
    /\ imm = {} \/ bg_error_
    /\ call' = [call EXCEPT !.pc = "flush"]
    /\ IF mem = {} \/ bg_error_ THEN UNCHANGED <<mem, imm, bg>>
       ELSE /\ imm' = mem /\ mem' = {}
            /\ bg' = MaybeScheduleCompaction(bg, mem, manual, versions, current, bg_error_)
    /\ UNCHANGED <<hist, snapshots, readers, fileVars, verVars, manual, job, bg_error_, flaws,
                   budget>>

CallFlushed ==
    /\ call.pc = "flush"
    /\ imm = {} \/ bg_error_
    /\ call' = [call EXCEPT !.pc = "range"]
    /\ UNCHANGED <<memVars, readers, fileVars, verVars, bgVars, budget>>

\* TEST_CompactRange(): sets manual_compaction_ whenever it is free
CallSchedules ==
    /\ call.pc = "range" /\ ~call.done /\ ~bg_error_ /\ ~manual
    /\ manual' = TRUE
    /\ bg' = MaybeScheduleCompaction(bg, imm, TRUE, versions, current, bg_error_)
    /\ UNCHANGED <<memVars, readers, fileVars, verVars, job, bg_error_, flaws, call, budget>>

\* and goes on to the next level, or returns
CallAdvances ==
    /\ call.pc = "range" /\ (call.done \/ bg_error_)
    /\ manual' = FALSE
    /\ call' = IF call.level + 1 < call.max
               THEN [call EXCEPT !.level = @ + 1, !.from = call.lo, !.done = FALSE] ELSE NoCall
    /\ UNCHANGED <<memVars, readers, fileVars, verVars, bg, job, bg_error_, flaws, budget>>

----------------------------------------------------------------------------
(* CompactMemTable(): on its own, or in the middle of a merge              *)

\* WriteLevel0Table() takes a number and gives up the mutex.
StartFlush ==
    /\ imm # {}
    /\ \/ bg.pc = "queued" /\ ~bg_error_
       \/ bg.pc = "merge" /\ job.rest # {}   \* has_imm_ is seen in the loop
    /\ bg' = [pc |-> "build", number |-> next, base |-> current]
    /\ next' = next + 1 /\ pending' = pending \cup {next}
    /\ versions' = Ref(versions, current)
    /\ UNCHANGED <<memVars, readers, tables, disk, seeks, current, pointer, manual, job,
                   bg_error_, flaws, call, budget>>

\* The new version: table n goes to the level that its base version allows.
LevelFor(T, n) == PickLevelForMemTableOutput(T, Files(bg.base), Smallest(T, n).k, Largest(T, n).k)
PlaceTable(T, n) == SaveTo({}, LevelFor(T, n), {n})

\* Between the inputs of the merge under way, in the level of its outputs: this
\* code looks only at the files there are.
SlipsBetween(T, n) ==
    /\ job # NoJob /\ LevelFor(T, n) = job.level + 1
    /\ LET E == Entries(T, job.in0 \cup job.in1)
       IN  Overlaps(T, n, FirstKey(E).k, LastKey(E).k)

\* BuildTable() is done; LogAndApply() computes the new version and gives up
\* the mutex again.
BuildTable ==
    LET n == bg.number
        T == Put(tables, n, imm)
    IN  /\ bg.pc = "build"
        /\ tables' = T /\ disk' = disk \cup {n} /\ pending' = pending \ {n}
        /\ seeks' = Put(seeks, n, AllowedSeeks)
        /\ versions' = Unref(versions, bg.base)
        /\ bg' = [pc |-> "flushlog", files |-> PlaceTable(T, n)]
        /\ flaws' = flaws \cup IF SlipsBetween(T, n) THEN {"slipped"} ELSE {}
        /\ UNCHANGED <<memVars, readers, next, current, pointer, manual, job, bg_error_, call,
                       budget>>

\* back to the loop of the merge, or to the end of BackgroundCall()
AfterFlush(im, vs, cur, error) ==
    IF job = NoJob THEN EndBackgroundCall(im, manual, vs, cur, error)
    ELSE bg' = [pc |-> "merge"]

InstallFlush ==
    /\ bg.pc = "flushlog"
    /\ versions' = AppendVersion(versions, bg.files)
    /\ current' = current + 1
    /\ imm' = {}
    /\ DeleteObsoleteFiles(versions', current + 1, pending)
    /\ AfterFlush({}, versions', current + 1, bg_error_)
    /\ UNCHANGED <<hist, mem, snapshots, readers, tables, pending, next, seeks, pointer, manual,
                   job, bg_error_, flaws, call, budget>>

\* A file operation fails: imm_ stays, bg_error_ is set.
FlushFails ==
    /\ bg.pc \in {"build", "flushlog"} /\ Spend("faults")
    /\ bg_error_' = TRUE
    /\ IF bg.pc = "build"
       THEN /\ versions' = Unref(versions, bg.base)
            /\ pending' = pending \ {bg.number}
       ELSE UNCHANGED <<versions, pending>>
    /\ AfterFlush(imm, versions', current, TRUE)
    /\ UNCHANGED <<memVars, readers, tables, disk, next, seeks, current, pointer, manual, job,
                   flaws, call>>

----------------------------------------------------------------------------
(* BackgroundCompaction(): the choice                                      *)

\* Some versions of a user key are in a file of F, and others in one of G
SharesKey(F, G) == \E f \in F, g \in G : \E x \in tables[f], y \in tables[g] : x.k = y.k

\* Some are in the inputs, and others in a file of the same level that is not:
\* this code does not look for that, in either level.
Parts(c) == \/ SharesKey(c.in0, CurrentFiles[c.level] \ c.in0)
            \/ SharesKey(c.in1, CurrentFiles[c.level + 1] \ c.in1)

\* snapshots_.oldest(), whose numbers ascend along the list
OldestSnapshot == IF snapshots = {} THEN LastSequence ELSE Min(snapshots)

\* DoCompactionWork() up to its loop
NewJob(c, isManual) ==
    [level |-> c.level, in0 |-> c.in0, in1 |-> c.in1, grandparents |-> c.grandparents,
     manual |-> isManual, version |-> current,
     smallestSnapshot |-> OldestSnapshot,
     rest |-> Entries(tables, c.in0 \cup c.in1),
     last |-> {},   \* the entry before, for current_user_key and last_sequence_for_key
     ptrs |-> [l \in Levels |-> 1], gindex |-> 1, overlapped |-> 0,
     outputs |-> {}, builder |-> 0]

\* The compaction that CompactRange() or PickCompaction() gives, if any
Candidates ==
    IF manual
    THEN {SetupOtherInputs(tables, CurrentFiles, call.level, in0) :
             in0 \in {ManualInputs(tables, CurrentFiles, call.level, call.from, call.hi)} \ {{}}}
    ELSE {PickCompaction(tables, CurrentFiles, pick) :
             pick \in PickFile(tables, CurrentFiles, pointer, versions[current].seek)}

MayStart == bg.pc = "queued" /\ imm = {} /\ ~bg_error_

\* nothing to do: a manual compaction is done
NothingToCompact ==
    /\ MayStart /\ Candidates = {}
    /\ call' = IF manual THEN [call EXCEPT !.done = TRUE] ELSE call
    /\ manual' = FALSE
    /\ EndBackgroundCall(imm, FALSE, versions, current, FALSE)
    /\ UNCHANGED <<memVars, readers, fileVars, verVars, job, bg_error_, flaws, budget>>

\* the file goes down as it is, with new FileMetaData
StartMove(c) ==
    /\ ~manual /\ IsTrivialMove(tables, c)
    /\ bg' = [pc |-> "movelog", base |-> current, files |-> SaveTo(c.in0, c.level + 1, c.in0)]
    /\ seeks' = [f \in DOMAIN seeks |-> IF f \in c.in0 THEN AllowedSeeks ELSE seeks[f]]
    /\ UNCHANGED job

StartMerge(c) ==
    /\ manual \/ ~IsTrivialMove(tables, c)
    /\ bg' = [pc |-> "merge"]
    /\ job' = NewJob(c, manual)
    /\ UNCHANGED seeks

StartCompaction ==
    /\ MayStart
    /\ \E c \in Candidates :
          /\ StartMove(c) \/ StartMerge(c)
          /\ pointer' = [pointer EXCEPT ![c.level] = {c.pointer}]
          /\ versions' = Ref(versions, current)
          /\ flaws' = flaws \cup IF Parts(c) THEN {"parted"} ELSE {}
    /\ UNCHANGED <<memVars, readers, fileVars, current, manual, call, bg_error_, budget>>

\* The Sync() of a write fails: DBImpl::Write() records a background error.
SyncFails ==
    /\ ~bg_error_ /\ bg_error_' = TRUE /\ Spend("faults")
    /\ UNCHANGED <<memVars, readers, fileVars, verVars, manual, bg, job, flaws, call>>

\* BackgroundCall() after an error
SkipBackgroundWork ==
    /\ bg.pc = "queued" /\ bg_error_
    /\ bg' = Idle
    /\ UNCHANGED <<memVars, readers, fileVars, verVars, manual, job, bg_error_, flaws, call,
                   budget>>

\* The record of the move is written, or not; `delete c' drops the reference.
InstallMove(ok) ==
    LET kept == IF ok THEN AppendVersion(versions, bg.files) ELSE versions
        cur  == IF ok THEN current + 1 ELSE current
    IN  /\ bg.pc = "movelog"
        /\ IF ok THEN UNCHANGED budget ELSE Spend("faults")
        /\ bg_error_' = (bg_error_ \/ ~ok)
        /\ versions' = Unref(kept, bg.base)
        /\ current' = cur
        /\ EndBackgroundCall(imm, manual, versions', cur, bg_error_')
        /\ UNCHANGED <<memVars, readers, fileVars, seeks, pointer, manual, job, flaws, call>>

----------------------------------------------------------------------------
(* DoCompactionWork(): one turn of its loop                                *)

\* hidden by a newer entry that every snapshot sees
Hidden(e) == \E x \in job.last : x.k = e.k /\ x.s <= job.smallestSnapshot

\* a marker that every snapshot sees: IsBaseLevelForKey() is asked
Asks(e) == ~Hidden(e) /\ e.del /\ e.s <= job.smallestSnapshot

\* Mutant of Drops: the sequence number of the marker is not looked at.
DropsAnyMarker(e, base) == Hidden(e) \/ (e.del /\ base)

\* It hides nothing further down either, and can go.
Drops(e, base) == Hidden(e) \/ (Asks(e) /\ base)

\* e is not dropped: it goes into the open output, or a new one, which is
\* closed when it is big enough.
AddEntry(e, out) ==
    LET held == IF out = next THEN {e} ELSE tables[out] \cup {e}
    IN  /\ tables' = Put(tables, out, held)
        /\ disk' = disk \cup {out} /\ pending' = pending \cup {out}
        /\ next' = IF out = next THEN next + 1 ELSE next
        /\ seeks' = Put(seeks, out, AllowedSeeks)

\* The output that takes the next entry: the open one, or a new number
OpenOutput(open) == IF open = 0 THEN next ELSE open

\* An output that is big enough is finished, synced and closed.
CloseOutput(out) == IF Cardinality(tables'[out]) >= MaxFileSize THEN 0 ELSE out

\* The entry that the merging iterator of the inputs is at
InputAt == FirstOf(job.rest, Before)

MergeNext ==
    /\ bg.pc = "merge"
    /\ \E e \in InputAt :
       \E stop \in {ShouldStopBefore(tables, BySmallestKey(tables, job.grandparents), job, e)},
          look \in {IsBaseLevelForKey(tables, Files(job.version), job.level, job.ptrs, e.k)} :
       \E open \in {IF stop.stop THEN 0 ELSE job.builder} :
       \E out \in {OpenOutput(open)}, drop \in {Drops(e, look.base)} :
          /\ IF drop THEN UNCHANGED <<tables, disk, pending, next, seeks>> ELSE AddEntry(e, out)
          /\ job' = [job EXCEPT !.rest = @ \ {e}, !.last = {e},
                       !.gindex = stop.gindex, !.overlapped = stop.overlapped,
                       !.ptrs = IF Asks(e) THEN look.ptrs ELSE @,
                       !.outputs = IF drop THEN @ ELSE @ \cup {out},
                       !.builder = IF drop THEN open ELSE CloseOutput(out)]
    /\ UNCHANGED <<memVars, readers, versions, current, pointer, manual, bg, bg_error_, flaws,
                   call, budget>>

\* The files of the version that the merge makes
InstallCompactionResults == SaveTo(job.in0 \cup job.in1, job.level + 1, job.outputs)

\* The input is exhausted; LogAndApply() gives up the mutex.
FinishMerge ==
    /\ bg.pc = "merge" /\ job.rest = {}
    /\ bg' = [pc |-> "mergelog", files |-> InstallCompactionResults]
    /\ UNCHANGED <<memVars, readers, fileVars, verVars, manual, job, bg_error_, flaws, call,
                   budget>>

\* What is left of a manual compaction: it is done, or starts again at the
\* largest key of the last file of inputs_[0].
LastInput == CHOOSE f \in job.in0 : \A g \in job.in0 \ {f} : StartsBefore(tables, g, f)

ManualRest(ok) ==
    IF ~job.manual THEN UNCHANGED <<manual, call>>
    ELSE /\ manual' = FALSE
         /\ call' = IF ok THEN [call EXCEPT !.from = Largest(tables, LastInput).k]
                    ELSE [call EXCEPT !.done = TRUE]

\* CleanupCompaction(): the outputs are not pending any more
Cleanup(outputs) == pending \ outputs

\* The merge is installed, or has failed somewhere; either way its outputs are
\* no longer pending, its inputs are released and obsolete files deleted.
EndMerge(ok) ==
    LET kept == IF ok THEN AppendVersion(versions, bg.files) ELSE versions
        cur  == IF ok THEN current + 1 ELSE current
    IN  /\ IF ok THEN bg.pc = "mergelog" ELSE bg.pc \in {"merge", "mergelog"}
        \* When the caller of CompactRange() has left because of an error,
        \* manual_compaction_ is NULL, and BackgroundCompaction() dies of it.
        /\ job.manual => manual
        /\ IF ok THEN UNCHANGED budget ELSE Spend("faults")
        /\ bg_error_' = (bg_error_ \/ ~ok)
        /\ versions' = Unref(kept, job.version)
        /\ current' = cur
        /\ pending' = Cleanup(job.outputs)
        /\ disk' = IF bg_error_' THEN disk
                   ELSE disk \cap LiveFiles(versions', cur, pending')
        /\ job' = NoJob
        /\ ManualRest(ok)
        /\ EndBackgroundCall(imm, manual', versions', cur, bg_error_')
        /\ UNCHANGED <<memVars, readers, tables, next, seeks, pointer, flaws>>

----------------------------------------------------------------------------
Init ==
    /\ hist = <<>> /\ mem = {} /\ imm = {} /\ snapshots = {}
    /\ readers = [r \in Readers |-> NoReader]
    /\ tables = <<>> /\ disk = {} /\ pending = {} /\ next = 1 /\ seeks = <<>>
    /\ versions = [id \in {1} |-> [files |-> NoFiles, refs |-> 1, seek |-> {}]] /\ current = 1
    /\ pointer = [l \in Levels |-> {}]
    /\ manual = FALSE /\ call = NoCall /\ bg = Idle /\ job = NoJob
    /\ bg_error_ = FALSE /\ flaws = {} /\ budget \in Budgets

Background == \/ StartFlush \/ BuildTable \/ InstallFlush \/ NothingToCompact \/ StartCompaction
              \/ SkipBackgroundWork \/ InstallMove(TRUE) \/ MergeNext \/ FinishMerge
              \/ EndMerge(TRUE)
Caller == CallSwitches \/ CallFlushed \/ CallSchedules \/ CallAdvances

Next ==
    \/ \E k \in Keys, del \in BOOLEAN : Write(k, del)
    \/ GetSnapshot
    \/ \E s \in snapshots : ReleaseSnapshot(s)
    \/ \E r \in Readers :
          \/ \E key \in Keys \cup {Iterator}, s \in snapshots \cup {LastSequence} :
                StartReading(r, key, s)
          \/ EndGet(r)
          \/ \E i \in 1..LastSequence : RecordReadSample(r, hist[i])
          \/ CleanupIterator(r)
    \/ \E lo, hi \in Keys : lo <= hi /\ CompactRange(lo, hi)
    \/ Caller \/ Background
    \/ SyncFails \/ FlushFails \/ InstallMove(FALSE) \/ EndMerge(FALSE)

Spec == Init /\ [][Next]_vars

----------------------------------------------------------------------------
(* Properties                                                              *)

Wrote(key, s) == Answer(Newest({hist[i] : i \in 1..LastSequence}, key, s))

\* The two ways to read: Get(), and an iterator, which merges everything
Reads(m, i, files, key, s) ==
    {DBGet(m, i, files, key, s),
     Answer(Newest(m \cup i \cup Entries(tables, AllFiles(files)), key, s))}

(* "We can search level-by-level since entries never hop across levels"
   (version_set.cc:346): at any moment, as of any snapshot or the last write,
   a Get() and an iterator find what was written, and so do those under way,
   whatever flush or merge came in between. *)
ReadsAreRight ==
    /\ \A key \in Keys, s \in snapshots \cup {LastSequence} :
          Reads(mem, imm, CurrentFiles, key, s) = {Wrote(key, s)}
    /\ \A r \in Readers : LET t == readers[r] IN t # NoReader =>
          \A key \in Keys :
              Reads(t.mem, t.imm, Files(t.version), key, t.s) = {Wrote(key, t.s)}

(* The same as long as no compaction has parted the versions of a key, and no
   flush has slipped between the inputs of a merge. *)
ReadsAreRightUnlessFlawed == flaws = {} => ReadsAreRight

(* No file is deleted that a version in use, the merge under way or the edit
   about to be installed needs (DeleteObsoleteFiles(), pending_outputs_); and
   a version is in the list for as long as it is current, or a reader, a flush
   or a merge holds it, and no longer, for its files could never be deleted
   (Version::Ref/Unref). *)
FilesAreThere ==
    /\ DOMAIN versions =
          {current} \cup {readers[r].version : r \in {x \in Readers : readers[x] # NoReader}}
                    \cup (IF "base" \in DOMAIN bg THEN {bg.base} ELSE {})
                    \cup (IF job # NoJob THEN {job.version} ELSE {})
    /\ \A id \in DOMAIN versions : AllFiles(Files(id)) \subseteq disk
    /\ job # NoJob => job.in0 \cup job.in1 \cup job.outputs \subseteq disk
    /\ "files" \in DOMAIN bg => AllFiles(bg.files) \subseteq disk

(* "Must not overlap" (Builder::MaybeAddFile(), version_set.cc:767): below
   level 0 the files of a level are disjoint. *)
MustNotOverlap ==
    \A l \in Levels \ {0} : \A f, g \in CurrentFiles[l] :
        \/ f = g
        \/ Before(Largest(tables, f), Smallest(tables, g))
        \/ Before(Largest(tables, g), Smallest(tables, f))

(* That assertion, unless a flush has slipped between the inputs of a merge;
   and Get()'s order of search: a newer file of level 0, and a higher level,
   holds the newer versions of a key. *)
LevelsAreOrdered ==
    LET v == CurrentFiles
        newer(f, g) == \A x \in tables[f], y \in tables[g] : x.k = y.k => x.s > y.s
    IN  /\ "slipped" \notin flaws => MustNotOverlap
        /\ \A f, g \in v[0] : f > g => newer(f, g)
        /\ flaws = {} => \A l, m \in Levels : l < m => \A f \in v[l], g \in v[m] : newer(f, g)

(* Nobody waits for a background call that is not coming: while there is a
   memtable to flush, a manual compaction, a level that is too big or a file
   sought in vain too often, one is scheduled or under way (BackgroundCall()
   "may have produced too many files in a level"; CompactRange() waits). *)
WorkIsScheduled ==
    ~bg_error_ /\ (imm # {} \/ manual \/ NeedsCompaction(versions, current)) => bg # Idle
=============================================================================
